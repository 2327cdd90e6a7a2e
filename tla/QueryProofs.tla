------------------------------ MODULE QueryProofs ------------------------------
(***************************************************************************)
(* Questions, from their search to their answer.                           *)
(*                                                                         *)
(* Ranking, for every list that the legs may find, every reply of the      *)
(* reranker and every limit: nothing is lost or starved on the way to the  *)
(* gate, sub-questions survive the filters, the prompt keeps its limits,   *)
(* and the answer cites what it was given.                                 *)
(*                                                                         *)
(* Streams, for every set of questions in conversations, every text a      *)
(* model may produce and every way a provider cuts it: what is stored,     *)
(* logged and shown of an answer agrees.                                   *)
(***************************************************************************)
EXTENDS QueryStreams, QueryRanking, ListProofs
-----------------------------------------------------------------------------
(* Lists of candidates.                                                    *)

Candidates(C) == [chunk : C, query : Nat, rank : Nat, score : Int, base : Int,
                  emb : BOOLEAN, weight : Nat]

LEMMA Edits ==
  ASSUME NEW C, NEW c \in Candidates(C), NEW n \in Nat, NEW x \in Int, NEW y \in Int
  PROVE  /\ [c EXCEPT !.rank = n] \in Candidates(C) /\ [c EXCEPT !.rank = n].chunk = c.chunk
         /\ [c EXCEPT !.rank = n, !.score = x] \in Candidates(C)
         /\ [c EXCEPT !.score = x, !.base = y, !.rank = n] \in Candidates(C)
  BY DEF Candidates

LEMMA ListOf ==
  ASSUME NEW S, NEW n \in Nat, NEW f \in [1..n -> S]
  PROVE  f \in Seq(S) /\ Len(f) = n /\ DOMAIN f = 1..n
  BY SeqDef, LenProperties

LEMMA RankedIs ==
  ASSUME NEW C, NEW cands \in Seq(Candidates(C))
  PROVE  /\ Ranked(cands) \in Seq(Candidates(C)) /\ Len(Ranked(cands)) = Len(cands)
         /\ \A i \in 1..Len(cands) : Ranked(cands)[i] = [cands[i] EXCEPT !.rank = i]
<1>1. Len(cands) \in Nat /\ DOMAIN cands = 1..Len(cands) /\ \A i \in 1..Len(cands) : cands[i] \in Candidates(C)
  BY LenProperties, ElementOfSeq
<1>2. ASSUME NEW i \in 1..Len(cands) PROVE [cands[i] EXCEPT !.rank = i] \in Candidates(C)
  <2>1. i \in Nat /\ 0 \in Int /\ cands[i] \in Candidates(C)
    BY <1>1
  <2> QED BY <2>1, Edits
<1>3. Ranked(cands) = [i \in 1..Len(cands) |-> [cands[i] EXCEPT !.rank = i]]
  BY <1>1 DEF Ranked
<1> QED BY <1>1, <1>2, <1>3, ListOf

\* What is kept of a list is a list of the same candidates.
LEMMA Subsets ==
  ASSUME NEW S, NEW cands \in Seq(S)
  PROVE  /\ OncePerChunk(cands) \in Seq(S)
         /\ \A rest \in Seq(S) : Merge(cands, rest) \in Seq(S)
         /\ \A q : FoundBy(cands, q) \in Seq(S)
         /\ \A chunks : Of(cands, chunks) \in Seq(S)
         /\ \A cov : FirstPerQuery(cands, cov) \in Seq(S)
<1>1. \A list \in Seq(S) : \A I \in SUBSET DOMAIN list : Sublist(list, I) \in Seq(S)
  BY SublistIs
<1>2. \A list \in Seq(S) : OncePerChunk(list) \in Seq(S)
  BY <1>1 DEF OncePerChunk
<1>3. \A rest \in Seq(S) : Merge(cands, rest) \in Seq(S)
  BY <1>2, ConcatProperties DEF Merge
<1>4. \A q : FoundBy(cands, q) \in Seq(S)
  BY <1>1 DEF FoundBy
<1>5. \A chunks : Of(cands, chunks) \in Seq(S)
  BY <1>1 DEF Of
<1>6. \A cov : FirstPerQuery(cands, cov) \in Seq(S)
  BY <1>1 DEF FirstPerQuery
<1> QED BY <1>2, <1>3, <1>4, <1>5, <1>6

\* No chunk twice.
Distinct(list) == \A i, j \in DOMAIN list : list[i].chunk = list[j].chunk => i = j

LEMMA SublistDistinct ==
  ASSUME NEW C, NEW list \in Seq(Candidates(C)), NEW I \in SUBSET DOMAIN list,
         \A i, j \in I : list[i].chunk = list[j].chunk => i = j
  PROVE  Distinct(Sublist(list, I))
<1> DEFINE s == Sublist(list, I)
           n == Cardinality(I)
<1>1. /\ s \in Seq(Candidates(C)) /\ Len(s) = n
      /\ \A k \in 1..n : Nth(I, k) \in I /\ s[k] = list[Nth(I, k)]
      /\ \A k, m \in 1..n : k < m => Nth(I, k) < Nth(I, m)
  BY SublistIs
<1> HIDE DEF s
<1>2. DOMAIN s = 1..n /\ n \in Nat
  BY <1>1, LenProperties
<1> HIDE DEF n
<1>3. ASSUME NEW k \in 1..n, NEW m \in 1..n, s[k].chunk = s[m].chunk PROVE k = m
  <2>1. Nth(I, k) = Nth(I, m)
    BY <1>1, <1>3
  <2>2. Nth(I, k) \in Int
    <3>1. I \subseteq Int
      BY LenProperties
    <3> QED BY <1>1, <3>1
  <2>3. ~(k < m) /\ ~(m < k)
    BY <1>1, <2>1, <2>2
  <2> QED BY <2>3, <1>2
<1> QED BY <1>2, <1>3 DEF Distinct, s

LEMMA OncePerChunkDistinct ==
  ASSUME NEW C, NEW cands \in Seq(Candidates(C)) PROVE Distinct(OncePerChunk(cands))
<1> DEFINE I == {i \in DOMAIN cands : \A j \in 1..(i - 1) : cands[j].chunk # cands[i].chunk}
<1>1. ASSUME NEW i \in I, NEW j \in I, cands[i].chunk = cands[j].chunk PROVE i = j
  <2>1. i \in Nat /\ j \in Nat /\ i >= 1 /\ j >= 1
    BY LenProperties
  <2>2. ~(i < j)
    <3>1. i < j => i \in 1..(j - 1)
      BY <2>1
    <3> QED BY <1>1, <3>1
  <2>3. ~(j < i)
    <3>1. j < i => j \in 1..(i - 1)
      BY <2>1
    <3> QED BY <1>1, <3>1
  <2> QED BY <2>1, <2>2, <2>3
<1>2. I \in SUBSET DOMAIN cands
  OBVIOUS
<1>3. OncePerChunk(cands) = Sublist(cands, I)
  BY DEF OncePerChunk
<1> HIDE DEF I
<1> QED BY <1>1, <1>2, <1>3, SublistDistinct

LEMMA PrefixDistinct ==
  ASSUME NEW C, NEW list \in Seq(Candidates(C)), Distinct(list), NEW n \in Nat
  PROVE  Distinct(Prefix(list, n))
<1> DEFINE s == Prefix(list, n)
<1>1. s \in Seq(Candidates(C)) /\ \A i \in 1..Len(s) : i \in 1..Len(list) /\ s[i] = list[i]
  BY PrefixIs
<1> HIDE DEF s
<1>2. DOMAIN s = 1..Len(s) /\ DOMAIN list = 1..Len(list)
  BY <1>1, LenProperties
<1> QED BY <1>1, <1>2 DEF Distinct, s

LEMMA RankedDistinct ==
  ASSUME NEW C, NEW list \in Seq(Candidates(C)), Distinct(list)
  PROVE  Distinct(Ranked(list))
<1>1. DOMAIN Ranked(list) = DOMAIN list /\ \A i \in DOMAIN list : Ranked(list)[i] = [list[i] EXCEPT !.rank = i]
  BY DEF Ranked
<1>2. \A i \in DOMAIN list : list[i] \in Candidates(C)
  BY LenProperties, ElementOfSeq
<1>3. \A i \in DOMAIN list : Ranked(list)[i].chunk = list[i].chunk
  BY <1>1, <1>2 DEF Candidates
<1> QED BY <1>1, <1>3 DEF Distinct

LEMMA PrefixIn ==
  ASSUME NEW S, NEW list \in Seq(S), NEW n \in Nat PROVE Prefix(list, n) \in Seq(S)
  BY PrefixIs

\* The rounds take nothing but members of the groups.
LEMMA RoundRobinIs ==
  ASSUME NEW S, NEW groups \in Seq(Seq(S)), NEW rounds \in Nat
  PROVE  RoundRobin(groups, rounds) \in Seq(S)
<1> DEFINE n == Len(groups)
           m == rounds * n
           Pick(k) == LET offset == (k \div n) + 1
                          group  == groups[(k % n) + 1]
                      IN IF offset <= Len(group) THEN <<group[offset]>> ELSE <<>>
           picks == [k \in 1..m |-> Pick(k - 1)]
<1>1. n \in Nat /\ m \in Nat /\ \A i \in 1..n : groups[i] \in Seq(S)
  <2>1. n \in Nat /\ \A i \in 1..n : groups[i] \in Seq(S)
    BY LenProperties, ElementOfSeq
  <2> HIDE DEF n
  <2> QED BY <2>1
<1>2. ASSUME NEW k \in 1..m PROVE Pick(k - 1) \in Seq(S)
  <2>1. n # 0
    <3> HIDE DEF n
    <3>1. n = 0 => m = 0
      BY <1>1
    <3> HIDE DEF m
    <3> QED BY <1>1, <3>1
  <2> DEFINE offset == ((k - 1) \div n) + 1
             place == ((k - 1) % n) + 1
  <2>2. offset \in Nat \ {0} /\ place \in 1..n
    <3>1. k - 1 \in Nat /\ n \in Nat /\ n > 0
      BY <1>1, <2>1
    <3> DEFINE h == k - 1
    <3> HIDE DEF n, h
    <3>2. h \div n \in Nat /\ h % n \in 0..(n - 1)
      BY <3>1 DEF h
    <3> QED BY <3>1, <3>2 DEF h
  <2>3. groups[place] \in Seq(S)
    BY <1>1, <2>2
  <2> DEFINE group == groups[place]
  <2>4. Pick(k - 1) = IF offset <= Len(group) THEN <<group[offset]>> ELSE <<>>
    OBVIOUS
  <2> HIDE DEF Pick, group, offset, place, n
  <2>5. group \in Seq(S)
    BY <2>3 DEF group
  <2>6. offset <= Len(group) => group[offset] \in S
    BY <2>2, <2>5, LenProperties, ElementOfSeq
  <2>7. <<>> \in Seq(S) /\ \A x \in S : <<x>> \in Seq(S)
    BY EmptySeq
  <2> QED BY <2>4, <2>6, <2>7
<1>3. picks \in Seq(Seq(S))
  <2> HIDE DEF Pick, m
  <2> QED BY <1>1, <1>2, ListOf
<1>4. RoundRobin(groups, rounds) = Joined(picks)
  BY DEF RoundRobin
<1> HIDE DEF picks
<1> QED BY <1>3, <1>4, JoinedIs

-----------------------------------------------------------------------------
(* Sub-questions, quotas and reranking.                                    *)

Query == [index : Nat, text : Texts, original : BOOLEAN, weight : Nat]
Covers == Seq(Nat) \ {<<>>}

LEMMA NotEmpty ==
  ASSUME NEW S, NEW list \in Seq(S), list # <<>>
  PROVE  Len(list) \in Nat \ {0} /\ DOMAIN list = 1..Len(list) /\ 1 \in 1..Len(list)
<1>1. Len(list) \in Nat /\ Len(list) # 0 /\ DOMAIN list = 1..Len(list)
  BY EmptySeq, LenProperties
<1> QED BY <1>1

\* There is always a query to cover.
LEMMA CoverageIs ==
  ASSUME NEW list \in Seq(Query) \ {<<>>} PROVE Coverage(list) \in Covers
<1> DEFINE I == {i \in DOMAIN list : ~list[i].original}
           parts == Sublist(list, I)
<1>1. parts \in Seq(Query)
  BY SublistIs
<1>2. Len(list) \in Nat /\ 1 \in 1..Len(list) /\ list[1].index \in Nat
  <2>1. Len(list) \in Nat /\ 1 \in 1..Len(list)
    BY NotEmpty
  <2>2. list[1] \in Query
    BY <2>1, ElementOfSeq
  <2> QED BY <2>1, <2>2 DEF Query
<1>3. Coverage(list) = IF parts = <<>> THEN <<list[1].index>>
                       ELSE [i \in DOMAIN parts |-> parts[i].index]
  BY DEF Coverage
<1> HIDE DEF parts
<1>4. CASE parts = <<>>
  <2>1. <<list[1].index>> \in Seq(Nat) /\ <<list[1].index>> # <<>>
    BY <1>2
  <2> QED BY <1>3, <1>4, <2>1 DEF Covers
<1>5. CASE parts # <<>>
  <2> DEFINE m == Len(parts)
             c == [i \in 1..m |-> parts[i].index]
  <2>1. m \in Nat /\ m # 0 /\ DOMAIN parts = 1..m /\ \A i \in 1..m : parts[i].index \in Nat
    <3>1. m \in Nat \ {0} /\ DOMAIN parts = 1..m
      BY <1>1, <1>5, NotEmpty
    <3>2. \A i \in 1..m : parts[i] \in Query
      BY <1>1, ElementOfSeq
    <3> QED BY <3>1, <3>2 DEF Query
  <2> HIDE DEF m
  <2>2. c \in Seq(Nat) /\ Len(c) = m
    BY <2>1, ListOf
  <2>3. Coverage(list) = c
    BY <1>3, <1>5, <2>1
  <2> HIDE DEF c
  <2>4. c # <<>>
    BY <2>1, <2>2, EmptySeq
  <2> QED BY <2>2, <2>3, <2>4 DEF Covers
<1> QED BY <1>4, <1>5

LEMMA CoversIs ==
  ASSUME NEW cov \in Covers
  PROVE  /\ cov \in Seq(Nat) /\ Len(cov) \in Nat \ {0} /\ DOMAIN cov = 1..Len(cov) /\ 1 \in DOMAIN cov
         /\ \A i \in DOMAIN cov : cov[i] \in Nat /\ cov[i] \in ToSet(cov)
         /\ \A total \in Nat : QuotaOf(total, cov) \in Nat
         /\ \A limit \in Nat : AtLeast(limit, AtLeast(Len(cov), 1)) \in Nat
<1>1. cov \in Seq(Nat) /\ Len(cov) \in Nat \ {0} /\ DOMAIN cov = 1..Len(cov) /\ 1 \in 1..Len(cov)
  BY NotEmpty DEF Covers
<1>2. 1 \in DOMAIN cov /\ \A i \in DOMAIN cov : cov[i] \in Nat /\ cov[i] \in ToSet(cov)
  BY <1>1, ElementOfSeq DEF ToSet
<1>3. ASSUME NEW total \in Nat PROVE QuotaOf(total, cov) \in Nat
  <2> DEFINE n == Len(cov)
             t == AtLeast(total, 1) + n - 1
  <2>1. n \in Nat \ {0} /\ t \in Nat
    BY <1>1 DEF AtLeast
  <2> HIDE DEF n, t
  <2>2. t \div n \in Nat
    BY <2>1
  <2>3. QuotaOf(total, cov) = AtLeast(t \div n, 1)
    BY DEF QuotaOf, t, n
  <2> QED BY <2>2, <2>3 DEF AtLeast
<1>4. \A limit \in Nat : AtLeast(limit, AtLeast(Len(cov), 1)) \in Nat
  BY <1>1 DEF AtLeast
<1> QED BY <1>1, <1>2, <1>3, <1>4

LEMMA PrioritizeQuotaIs ==
  ASSUME NEW S, NEW cands \in Seq(S), NEW cov \in Covers, NEW quota \in Nat
  PROVE  PrioritizeQuota(cands, cov, quota) \in Seq(S)
<1> DEFINE groups == [i \in DOMAIN cov |-> FoundBy(cands, cov[i])]
<1>1. Len(cov) \in Nat /\ DOMAIN cov = 1..Len(cov)
  BY CoversIs
<1>2. groups \in Seq(Seq(S))
  <2>1. groups \in [1..Len(cov) -> Seq(S)]
    BY <1>1, Subsets
  <2> HIDE DEF groups
  <2> QED BY <1>1, <2>1, ListOf
<1> HIDE DEF groups
<1>3. RoundRobin(groups, quota) \in Seq(S)
  BY <1>2, RoundRobinIs
<1>4. Merge(RoundRobin(groups, quota), cands) \in Seq(S)
  BY <1>3, Subsets
<1> QED BY <1>4 DEF PrioritizeQuota, groups

LEMMA SelectWithCoverageIs ==
  ASSUME NEW S, NEW cands \in Seq(S), NEW cov \in Covers, NEW limit \in Nat
  PROVE  SelectWithCoverage(cands, cov, limit) \in Seq(S)
<1>1. FirstPerQuery(cands, cov) \in Seq(S)
  BY Subsets
<1>2. Merge(FirstPerQuery(cands, cov), cands) \in Seq(S)
  BY <1>1, Subsets
<1>3. AtLeast(limit, AtLeast(Len(cov), 1)) \in Nat
  BY CoversIs
<1>4. <<>> \in Seq(S)
  BY EmptySeq
<1> QED BY <1>2, <1>3, <1>4, PrefixIn DEF SelectWithCoverage

\* Whatever the reranker answers, its result repeats no candidate and adds none.
ReplyItem == [pos : Int, score : Int]
LEMMA RerankOkIs ==
  ASSUME NEW C, NEW cands \in Seq(Candidates(C)), NEW items \in Seq(ReplyItem), NEW limit \in Nat
  PROVE  /\ RerankOk(cands, items, limit) \in Seq(Candidates(C))
         /\ Distinct(cands) => Distinct(RerankOk(cands, items, limit))
<1> DEFINE valid == {n \in DOMAIN items :
                       /\ items[n].pos \in DOMAIN cands
                       /\ \A m \in 1..(n - 1) : items[m].pos # items[n].pos}
           used == {items[n].pos : n \in valid}
           size == Cardinality(valid)
           Score(n) == [cands[items[n].pos] EXCEPT !.rank = n, !.score = items[n].score]
           scored == [k \in 1..size |-> Score(Nth(valid, k))]
           rest == Sublist(cands, DOMAIN cands \ used)
           more == Len(rest)
           Fill2(k) == [rest[k] EXCEPT !.rank = Len(scored) + k]
           filler == [k \in 1..more |-> Fill2(k)]
<1>1. /\ DOMAIN items = 1..Len(items) /\ Len(items) \in Nat /\ \A n \in DOMAIN items : items[n] \in ReplyItem
      /\ \A i \in DOMAIN cands : cands[i] \in Candidates(C)
  BY LenProperties, ElementOfSeq
<1>2. /\ valid \in SUBSET DOMAIN items /\ size \in Nat /\ \A k \in 1..size : Nth(valid, k) \in valid
  <2>1. valid \in SUBSET DOMAIN items
    OBVIOUS
  <2> HIDE DEF valid
  <2>2. IsFiniteSet(valid) /\ valid \subseteq Int
    <3>1. valid \subseteq Int
      BY <2>1, <1>1
    <3>2. IsFiniteSet(valid)
      BY <2>1, SublistIs
    <3> QED BY <3>1, <3>2
  <2>3. size \in Nat /\ \A k \in 1..size : Nth(valid, k) \in valid
    BY <2>2, NthIs
  <2> QED BY <2>1, <2>3
<1>3. \A n \in valid : Score(n) \in Candidates(C)
  <2>1. ASSUME NEW n \in valid PROVE Score(n) \in Candidates(C)
    <3>1. n \in Nat /\ items[n] \in ReplyItem /\ items[n].pos \in DOMAIN cands
      BY <1>1
    <3>2. cands[items[n].pos] \in Candidates(C) /\ items[n].score \in Int /\ 0 \in Int
      BY <3>1, <1>1 DEF ReplyItem
    <3> HIDE DEF valid
    <3> QED BY <3>1, <3>2, Edits
  <2> QED BY <2>1
<1>4. scored \in Seq(Candidates(C)) /\ Len(scored) = size
  <2> HIDE DEF valid, size, Score
  <2>1. scored \in [1..size -> Candidates(C)]
    BY <1>2, <1>3
  <2> HIDE DEF scored
  <2> QED BY <1>2, <2>1, ListOf
<1>5. rest \in Seq(Candidates(C)) /\ more \in Nat /\ DOMAIN rest = 1..more /\ \A k \in 1..more : rest[k] \in Candidates(C)
  <2> HIDE DEF used
  <2>1. rest \in Seq(Candidates(C))
    BY SublistIs
  <2> HIDE DEF rest
  <2> QED BY <2>1, LenProperties, ElementOfSeq
<1>6. \A k \in 1..more : Fill2(k) \in Candidates(C)
  <2>1. ASSUME NEW k \in 1..more PROVE Fill2(k) \in Candidates(C)
    <3> HIDE DEF scored, rest, more, size
    <3>1. rest[k] \in Candidates(C) /\ Len(scored) + k \in Nat /\ 0 \in Int
      BY <1>2, <1>4, <1>5
    <3> QED BY <3>1, Edits
  <2> HIDE DEF Fill2
  <2> QED BY <2>1
<1>7. filler \in Seq(Candidates(C))
  <2> HIDE DEF rest, more, Fill2
  <2>1. filler \in [1..more -> Candidates(C)]
    BY <1>6
  <2> HIDE DEF filler
  <2> QED BY <1>5, <2>1, ListOf
<1>8. RerankOk(cands, items, limit) = Prefix(scored \o filler, limit)
  <2>1. filler = [k \in DOMAIN rest |-> [rest[k] EXCEPT !.rank = Len(scored) + k]]
    <3> HIDE DEF rest, more, scored
    <3> QED BY <1>5
  <2> HIDE DEF filler
  <2> QED BY <2>1 DEF RerankOk
<1>9. scored \o filler \in Seq(Candidates(C))
  <2> HIDE DEF scored, filler
  <2> QED BY <1>4, <1>7, ConcatProperties
<1> DEFINE J == DOMAIN cands \ used
           Taken(k) == items[Nth(valid, k)].pos
           place == [k \in 1..(size + more) |-> IF k <= size THEN Taken(k) ELSE Nth(J, k - size)]
           both == scored \o filler
<1>10. /\ \A k \in 1..size : Taken(k) \in DOMAIN cands /\ Taken(k) \in used
       /\ \A k, m \in 1..size : Taken(k) = Taken(m) => k = m
  <2>1. \A k, m \in 1..size : k < m => Nth(valid, k) < Nth(valid, m)
    <3> HIDE DEF valid
    <3> QED BY <1>2, SublistIs
  <2>2. ASSUME NEW k \in 1..size, NEW m \in 1..size, k < m PROVE Taken(k) # Taken(m)
    <3> DEFINE a == Nth(valid, k)
               b == Nth(valid, m)
    <3>1. a < b /\ a \in valid /\ b \in valid
      BY <1>2, <2>1, <2>2
    <3> HIDE DEF a, b
    <3>2. a \in 1..(b - 1)
      BY <1>1, <3>1
    <3>3. items[a].pos # items[b].pos
      BY <3>1, <3>2
    <3> QED BY <3>3 DEF a, b
  <2>3. \A k \in 1..size : Taken(k) \in DOMAIN cands /\ Taken(k) \in used
    BY <1>2
  <2> HIDE DEF Taken, size, used
  <2> QED BY <1>2, <2>2, <2>3
<1>11. /\ more = Cardinality(J) /\ \A k \in 1..more : Nth(J, k) \in J /\ rest[k] = cands[Nth(J, k)]
       /\ \A k, m \in 1..more : Nth(J, k) = Nth(J, m) => k = m
  <2>1. J \in SUBSET DOMAIN cands
    OBVIOUS
  <2>2. rest = Sublist(cands, J)
    OBVIOUS
  <2> HIDE DEF J
  <2>3. /\ more = Cardinality(J) /\ \A k \in 1..more : Nth(J, k) \in J /\ rest[k] = cands[Nth(J, k)]
        /\ \A k, m \in 1..more : k < m => Nth(J, k) < Nth(J, m)
    <3> HIDE DEF rest
    <3>1. /\ Len(Sublist(cands, J)) = Cardinality(J)
          /\ \A k \in 1..Cardinality(J) : Nth(J, k) \in J /\ Sublist(cands, J)[k] = cands[Nth(J, k)]
          /\ \A k, m \in 1..Cardinality(J) : k < m => Nth(J, k) < Nth(J, m)
      BY <2>1, SublistIs
    <3> QED BY <2>2, <3>1
  <2> HIDE DEF rest, more
  <2>4. ASSUME NEW k \in 1..more, NEW m \in 1..more, Nth(J, k) = Nth(J, m) PROVE k = m
    <3>1. Nth(J, k) \in Int
      <4>1. DOMAIN cands \subseteq Int
        BY LenProperties
      <4> QED BY <2>1, <2>3, <4>1
    <3>2. ~(k < m) /\ ~(m < k)
      BY <2>3, <2>4, <3>1
    <3> QED BY <1>5, <3>2
  <2> QED BY <2>3, <2>4
<1>12. \A k \in 1..more : Nth(J, k) \notin used /\ Nth(J, k) \in DOMAIN cands
  BY <1>11
<1>13. \A k \in 1..size : scored[k].chunk = cands[Taken(k)].chunk
  <2>1. ASSUME NEW k \in 1..size PROVE scored[k].chunk = cands[Taken(k)].chunk
    <3> DEFINE n == Nth(valid, k)
    <3>1. n \in valid /\ scored[k] = Score(n)
      BY <1>2
    <3>2. cands[items[n].pos] \in Candidates(C)
      BY <1>1, <3>1
    <3> HIDE DEF n, valid, scored
    <3>3. Score(n).chunk = cands[items[n].pos].chunk
      BY <3>2 DEF Candidates
    <3> QED BY <3>1, <3>3 DEF n
  <2> QED BY <2>1
<1>14. \A k \in 1..more : filler[k].chunk = cands[Nth(J, k)].chunk
  <2>1. ASSUME NEW k \in 1..more PROVE filler[k].chunk = cands[Nth(J, k)].chunk
    <3> HIDE DEF rest, more, J, scored
    <3>1. filler[k] = [rest[k] EXCEPT !.rank = Len(scored) + k] /\ rest[k] \in Candidates(C)
      BY <1>5
    <3>2. filler[k].chunk = rest[k].chunk
      BY <3>1 DEF Candidates
    <3> QED BY <1>11, <3>2
  <2> QED BY <2>1
<1>14a. Len(filler) = more
  <2> HIDE DEF rest, more, Fill2
  <2>1. filler \in [1..more -> Candidates(C)]
    BY <1>6
  <2> HIDE DEF filler
  <2> QED BY <1>5, <2>1, ListOf
<1> HIDE DEF scored, filler, Taken, J, size, more, used, valid, rest
<1>15. /\ DOMAIN both = 1..(size + more)
       /\ \A k \in 1..(size + more) : both[k].chunk = cands[place[k]].chunk /\ place[k] \in DOMAIN cands
  <2>1. /\ Len(both) = size + more
        /\ \A k \in 1..(size + more) : both[k] = IF k <= size THEN scored[k] ELSE filler[k - size]
    BY <1>4, <1>7, <1>14a, ConcatProperties
  <2>2. DOMAIN both = 1..(size + more)
    BY <1>9, <2>1, LenProperties
  <2> HIDE DEF both
  <2>3. ASSUME NEW k \in 1..(size + more)
        PROVE  both[k].chunk = cands[place[k]].chunk /\ place[k] \in DOMAIN cands
    <3>1. CASE k <= size
      <4>1. k \in 1..size /\ place[k] = Taken(k) /\ both[k] = scored[k]
        BY <1>2, <2>1, <3>1
      <4> QED BY <1>10, <1>13, <4>1
    <3>2. CASE ~(k <= size)
      <4>1. k - size \in 1..more /\ place[k] = Nth(J, k - size) /\ both[k] = filler[k - size]
        BY <1>2, <1>5, <2>1, <3>2
      <4> QED BY <1>12, <1>14, <4>1
    <3> QED BY <3>1, <3>2
  <2> QED BY <2>2, <2>3
<1>16. ASSUME NEW k \in 1..(size + more), NEW m \in 1..(size + more), place[k] = place[m] PROVE k = m
  <2>1. /\ k <= size => k \in 1..size /\ place[k] = Taken(k)
        /\ ~(k <= size) => k - size \in 1..more /\ place[k] = Nth(J, k - size)
    BY <1>2, <1>5
  <2>2. /\ m <= size => m \in 1..size /\ place[m] = Taken(m)
        /\ ~(m <= size) => m - size \in 1..more /\ place[m] = Nth(J, m - size)
    BY <1>2, <1>5
  <2> HIDE DEF place
  <2>3. CASE k <= size /\ m <= size
    BY <1>10, <1>16, <2>1, <2>2, <2>3
  <2>4. CASE ~(k <= size) /\ ~(m <= size)
    <3>1. k - size = m - size
      BY <1>11, <1>16, <2>1, <2>2, <2>4
    <3> QED BY <1>2, <1>5, <3>1
  <2>5. CASE k <= size /\ ~(m <= size)
    BY <1>10, <1>12, <1>16, <2>1, <2>2, <2>5
  <2>6. CASE ~(k <= size) /\ m <= size
    BY <1>10, <1>12, <1>16, <2>1, <2>2, <2>6
  <2> QED BY <2>3, <2>4, <2>5, <2>6
<1> HIDE DEF place, both
<1>17. Distinct(cands) => Distinct(both)
  BY <1>15, <1>16 DEF Distinct
<1> QED BY <1>8, <1>9, <1>17, PrefixIn, PrefixDistinct DEF both

LEMMA RerankIs ==
  ASSUME NEW C, NEW cands \in Seq(Candidates(C)), NEW reply \in Replies, NEW limit \in Nat
  PROVE  /\ Rerank(cands, reply, limit).list \in Seq(Candidates(C))
         /\ Distinct(cands) => Distinct(Rerank(cands, reply, limit).list)
<1> DEFINE L == {list \in Seq(Candidates(C)) : Distinct(cands) => Distinct(list)}
<1>1. Prefix(cands, limit) \in L /\ <<>> \in L
  <2>1. Distinct(<<>>)
    BY DEF Distinct
  <2> QED BY <2>1, PrefixIn, PrefixDistinct, EmptySeq
<1>2. reply.kind = "ok" => RerankOk(cands, reply.items, limit) \in L
  BY QuestionAssumption, RerankOkIs DEF ReplyItem
<1> SUFFICES Rerank(cands, reply, limit).list \in L
  OBVIOUS
<1> HIDE DEF L
<1> DEFINE kept == Prefix(cands, limit)
           answered == RerankOk(cands, reply.items, limit)
<1>3. Rerank(cands, reply, limit) \in
        {Reranked(kept, FALSE, "none"), Reranked(kept, TRUE, "none"), Reranked(kept, TRUE, "failed"),
         Reranked(<<>>, FALSE, "none")}
      \/ (reply.kind = "ok" /\ Rerank(cands, reply, limit) = Reranked(answered, FALSE, "success"))
  <2> HIDE DEF kept, answered
  <2>1. \/ reply.kind = "noop" \/ (reply.kind = "no_texts" /\ cands # <<>>)
        \/ (reply.kind = "failed" /\ cands # <<>>) \/ (reply.kind = "ok" /\ cands # <<>>)
        \/ Rerank(cands, reply, limit) = Reranked(<<>>, FALSE, "none")
    BY Zenon DEF Rerank
  <2> QED BY <2>1 DEF Rerank, kept, answered
<1> HIDE DEF kept, answered
<1>4. CASE reply.kind = "ok" /\ Rerank(cands, reply, limit) = Reranked(answered, FALSE, "success")
  <2>1. Reranked(answered, FALSE, "success").list = answered
    BY DEF Reranked
  <2> QED BY <1>2, <1>4, <2>1 DEF answered
<1>5. CASE Rerank(cands, reply, limit) \in
        {Reranked(kept, FALSE, "none"), Reranked(kept, TRUE, "none"), Reranked(kept, TRUE, "failed"),
         Reranked(<<>>, FALSE, "none")}
  <2>1. /\ Reranked(kept, FALSE, "none").list = kept /\ Reranked(kept, TRUE, "none").list = kept
        /\ Reranked(kept, TRUE, "failed").list = kept /\ Reranked(<<>>, FALSE, "none").list = <<>>
    BY DEF Reranked
  <2>2. Rerank(cands, reply, limit).list \in {kept, <<>>}
    BY <1>5, <2>1
  <2> QED BY <1>1, <2>2 DEF kept
<1> QED BY <1>3, <1>4, <1>5

LEMMA RerankForQueriesIs ==
  ASSUME NEW C, NEW cands \in Seq(Candidates(C)), NEW cov \in Covers, NEW reply \in [ToSet(cov) -> Replies],
         NEW limit \in Nat, NEW perQuery \in Nat
  PROVE  /\ RerankForQueries(cands, cov, reply, limit, perQuery).list \in Seq(Candidates(C))
         /\ Distinct(cands) => Distinct(RerankForQueries(cands, cov, reply, limit, perQuery).list)
<1>1. Len(cov) \in Nat \ {0} /\ DOMAIN cov = 1..Len(cov) /\ 1 \in DOMAIN cov /\ \A i \in DOMAIN cov : cov[i] \in ToSet(cov)
  BY CoversIs
<1>2. CASE Len(cov) <= 1
  BY <1>1, <1>2, RerankIs DEF RerankForQueries
<1>3. CASE ~(Len(cov) <= 1)
  <2> DEFINE S == Candidates(C)
             asked  == Sublist(cov, {i \in DOMAIN cov : FoundBy(cands, cov[i]) # <<>>})
             result == [i \in DOMAIN asked |->
                          Rerank(FoundBy(cands, asked[i]), reply[asked[i]], perQuery)]
             calls  == Sublist(result, {i \in DOMAIN result : result[i].call # "none"})
             rounds == Len(cands)
             groups == [i \in DOMAIN asked |-> result[i].list]
             filler == Sublist(cands, {i \in DOMAIN cands : cands[i].query \notin ToSet(cov)})
             rotated == IF groups = <<>> THEN <<>> ELSE RoundRobin(groups, rounds)
             once   == OncePerChunk(rotated \o filler)
             merged == Ranked(Prefix(once, limit))
  <2>1. asked \in Seq(ToSet(cov)) /\ Len(asked) \in Nat /\ DOMAIN asked = 1..Len(asked)
    <3>1. cov \in [1..Len(cov) -> ToSet(cov)] /\ Len(cov) \in Nat
      <4>1. cov \in Seq(Nat) /\ DOMAIN cov = 1..Len(cov)
        BY CoversIs
      <4>2. cov = [i \in 1..Len(cov) |-> cov[i]]
        BY <4>1, LenProperties
      <4> QED BY <1>1, <4>2
    <3> HIDE DEF asked
    <3>2. cov \in Seq(ToSet(cov))
      BY <3>1, ListOf, Zenon
    <3> USE DEF asked
    <3>3. asked \in Seq(ToSet(cov))
      BY <3>2, SublistIs
    <3> HIDE DEF asked
    <3> QED BY <3>3, LenProperties
  <2>2. groups \in Seq(Seq(S))
    <3> HIDE DEF asked
    <3>1. ASSUME NEW i \in DOMAIN asked PROVE result[i].list \in Seq(S)
      <4>1. asked[i] \in ToSet(cov)
        BY <2>1, ElementOfSeq
      <4>2. FoundBy(cands, asked[i]) \in Seq(S)
        BY Subsets
      <4>3. reply[asked[i]] \in Replies
        BY <4>1
      <4> HIDE DEF S
      <4>4. Rerank(FoundBy(cands, asked[i]), reply[asked[i]], perQuery).list \in Seq(S)
        BY <4>2, <4>3, RerankIs DEF S
      <4> QED BY <4>4
    <3> HIDE DEF result
    <3>2. groups \in [1..Len(asked) -> Seq(S)]
      BY <2>1, <3>1
    <3> HIDE DEF groups
    <3> QED BY <2>1, <3>2, ListOf
  <2>3. rotated \in Seq(S)
    <3> HIDE DEF groups
    <3>1. rounds \in Nat
      BY LenProperties
    <3>2. RoundRobin(groups, rounds) \in Seq(S) /\ <<>> \in Seq(S)
      BY <2>2, <3>1, RoundRobinIs, EmptySeq
    <3> QED BY <3>2
  <2>4. filler \in Seq(S)
    BY SublistIs
  <2>5. once \in Seq(S)
    <3> HIDE DEF rotated, filler, S
    <3> QED BY <2>3, <2>4, ConcatProperties, Subsets
  <2>6. /\ merged \in Seq(S) /\ Prefix(cands, limit) \in Seq(S)
        /\ Distinct(merged) /\ (Distinct(cands) => Distinct(Prefix(cands, limit)))
    <3>1. Distinct(once)
      <4> HIDE DEF rotated, filler
      <4>1. rotated \o filler \in Seq(S)
        <5> HIDE DEF S
        <5> QED BY <2>3, <2>4, ConcatProperties
      <4> QED BY <4>1, OncePerChunkDistinct
    <3> HIDE DEF once
    <3>2. Prefix(once, limit) \in Seq(S) /\ Distinct(Prefix(once, limit))
      BY <2>5, <3>1, PrefixIn, PrefixDistinct
    <3>3. merged \in Seq(S) /\ Distinct(merged)
      BY <3>2, RankedIs, RankedDistinct
    <3>4. Prefix(cands, limit) \in Seq(S) /\ (Distinct(cands) => Distinct(Prefix(cands, limit)))
      BY PrefixIn, PrefixDistinct
    <3> QED BY <3>3, <3>4
  <2>7. RerankForQueries(cands, cov, reply, limit, perQuery).list = IF merged = <<>> THEN Prefix(cands, limit) ELSE merged
    <3>1. \A list, degraded, call : Reranked(list, degraded, call).list = list
      BY DEF Reranked
    <3> HIDE DEF merged
    <3>2. RerankForQueries(cands, cov, reply, limit, perQuery)
            = Reranked(IF merged = <<>> THEN Prefix(cands, limit) ELSE merged,
                       \E i \in DOMAIN result : result[i].degraded,
                       IF calls = <<>> THEN "none" ELSE calls[1].call)
      BY <1>3 DEF RerankForQueries, merged
    <3> HIDE DEF result, calls
    <3>3. PICK d, k : RerankForQueries(cands, cov, reply, limit, perQuery)
                        = Reranked(IF merged = <<>> THEN Prefix(cands, limit) ELSE merged, d, k)
      BY <3>2, Zenon
    <3> QED BY <3>1, <3>3
  <2> HIDE DEF merged
  <2> QED BY <2>6, <2>7
<1> QED BY <1>2, <1>3

\* The gates only drop candidates.
LEMMA GatesKeep ==
  ASSUME NEW S, NEW cands \in Seq(S), NEW r, r.list \in Seq(S)
  PROVE  RelevanceGate(r).list \in Seq(S) /\ QualityGate(cands, r).list \in Seq(S)
<1>1. \A list \in Seq(S) : \A I \in SUBSET DOMAIN list : Sublist(list, I) \in Seq(S)
  BY SublistIs
<1>2. RelevanceGate(r).list \in Seq(S)
  BY <1>1 DEF RelevanceGate
<1>3. QualityGate(cands, r).list \in Seq(S)
  BY <1>1 DEF QualityGate
<1> QED BY <1>2, <1>3

-----------------------------------------------------------------------------
(* Fusion: an entry for every chunk, in the order of a total order.        *)

Entries(C) == [best : Candidates(C), total : Nat, raw : Int]
LEMMA ShareIs ==
  ASSUME NEW C, NEW c \in Candidates(C) PROVE Share(c) \in Nat
<1> DEFINE w == c.weight * Unit
           d == RrfK + c.rank
<1>1. c.weight \in Nat /\ c.rank \in Nat
  BY DEF Candidates
<1>2. w \in Nat
  BY <1>1, RankingAssumption
<1>3. d \in Nat \ {0}
  BY <1>1, RankingAssumption
<1> HIDE DEF w, d
<1>4. w \div d \in Nat
  BY <1>2, <1>3
<1> QED BY <1>4 DEF Share, w, d

LEMMA AbsorbIs ==
  ASSUME NEW C, NEW entries \in Seq(Entries(C)), NEW c \in Candidates(C)
  PROVE  Absorb(entries, c) \in Seq(Entries(C))
<1> DEFINE same == {i \in DOMAIN entries : entries[i].best.chunk = c.chunk}
<1>1. Share(c) \in Nat /\ c.score \in Int
  BY ShareIs DEF Candidates
<1>2. CASE same = {}
  <2> DEFINE e == [best |-> c, total |-> Share(c), raw |-> c.score]
  <2>1. e \in Entries(C)
    BY <1>1 DEF Entries
  <2>2. Absorb(entries, c) = Append(entries, e)
    BY <1>2 DEF Absorb
  <2> HIDE DEF e
  <2> QED BY <2>1, <2>2, AppendProperties
<1>3. CASE same # {}
  <2> DEFINE i == CHOOSE i \in same : TRUE
             e == entries[i]
             takes == c.score > e.raw \/ (~e.best.emb /\ c.emb)
             new == [best |-> IF takes THEN c ELSE e.best, total |-> e.total + Share(c),
                     raw |-> AtLeast(e.raw, c.score)]
  <2>1. i \in DOMAIN entries
    BY <1>3
  <2>2. Absorb(entries, c) = [entries EXCEPT ![i] = new]
    BY <1>3 DEF Absorb
  <2> HIDE DEF i
  <2>3. e \in Entries(C)
    BY <2>1, ElementOfSeq, LenProperties
  <2> HIDE DEF e
  <2>4. new \in Entries(C)
    <3>1. e.best \in Candidates(C) /\ e.total \in Nat /\ e.raw \in Int
      BY <2>3 DEF Entries
    <3>2. (IF takes THEN c ELSE e.best) \in Candidates(C)
      BY <3>1
    <3>3. e.total + Share(c) \in Nat /\ AtLeast(e.raw, c.score) \in Int
      BY <3>1, <1>1 DEF AtLeast
    <3> HIDE DEF takes
    <3> QED BY <3>2, <3>3 DEF Entries
  <2> HIDE DEF new
  <2>5. [entries EXCEPT ![i] = new] \in Seq(Entries(C))
    BY <2>1, <2>4, ExceptSeq
  <2> QED BY <2>2, <2>5
<1> QED BY <1>2, <1>3

FusesAs(f, raw, C) ==
  /\ f[0] = <<>> /\ \A i \in 1..Len(raw) : f[i] = Absorb(f[i - 1], raw[i])
  /\ \A i \in 0..Len(raw) : f[i] \in Seq(Entries(C))
LEMMA FuseRuns ==
  ASSUME NEW C, NEW raw \in Seq(Candidates(C))
  PROVE  \E f : FusesAs(f, raw, C) /\ Fuse(raw) = InOrder(f[Len(raw)])
<1> DEFINE n == Len(raw)
           A == Seq(Entries(C))
           base == <<>>
           step == [p \in A \X (1..n) |-> Absorb(p[1], raw[p[2]])]
           Is(f) == f = [k \in 0..n |-> IF k = 0 THEN <<>> ELSE Absorb(f[k - 1], raw[k])]
<1>1. n \in Nat /\ \A i \in 1..n : raw[i] \in Candidates(C)
  BY LenProperties, ElementOfSeq
<1>2. step \in [A \X (1..n) -> A] /\ base \in A
  <2>1. ASSUME NEW p \in A \X (1..n) PROVE Absorb(p[1], raw[p[2]]) \in A
    BY <1>1, AbsorbIs
  <2> QED BY <2>1, EmptySeq
<1>3. \E f : Is(f)
  <2>1. PICK run : Follows(run, n, A, base, step)
    <3>1. n \in Nat
      BY <1>1
    <3> HIDE DEF step, A, n, base
    <3> QED BY <3>1, <1>2, RunExists
  <2>2. ASSUME NEW i \in 1..n PROVE run[i] = Absorb(run[i - 1], raw[i])
    <3>1. run[i - 1] \in A /\ run[i] = step[<<run[i - 1], i>>]
      BY <2>1 DEF Follows
    <3> HIDE DEF A, n
    <3>2. <<run[i - 1], i>> \in A \X (1..n)
      BY <3>1
    <3> QED BY <3>1, <3>2
  <2>3. run[0] = <<>> /\ run \in [0..n -> A]
    BY <2>1 DEF Follows
  <2> HIDE DEF A, n
  <2>4. Is(run)
    <3>1. \A k \in 0..n : run[k] = IF k = 0 THEN <<>> ELSE Absorb(run[k - 1], raw[k])
      <4>1. ASSUME NEW k \in 0..n, k # 0 PROVE k \in 1..n
        BY <1>1, <4>1
      <4> QED BY <4>1, <2>2, <2>3
    <3>2. run = [k \in 0..n |-> run[k]]
      BY <2>3
    <3> QED BY <3>1, <3>2
  <2> QED BY <2>4
<1> DEFINE f == CHOOSE f : Is(f)
<1>4. Is(f)
  <2> HIDE DEF Is
  <2> QED BY <1>3
<1>5. Fuse(raw) = InOrder(f[n])
  BY Zenon DEF Fuse
<1> HIDE DEF f
<1>6. f[0] = <<>> /\ \A i \in 1..n : f[i] = Absorb(f[i - 1], raw[i])
  <2> HIDE DEF n
  <2>1. \A k \in 0..n : f[k] = IF k = 0 THEN <<>> ELSE Absorb(f[k - 1], raw[k])
    BY <1>4
  <2>2. f[0] = <<>>
    <3>1. 0 \in 0..n
      BY <1>1
    <3> QED BY <2>1, <3>1
  <2>3. ASSUME NEW i \in 1..n PROVE f[i] = Absorb(f[i - 1], raw[i])
    <3>1. i \in 0..n /\ i # 0
      BY <1>1
    <3> QED BY <2>1, <3>1
  <2> QED BY <2>2, <2>3
<1>7. \A i \in 0..n : f[i] \in A
  <2> DEFINE B == [k \in 0..n |-> A]
  <2>1. f[0] \in B[0]
    BY <1>6, <1>1, <1>2
  <2>2. ASSUME NEW i \in 1..n, f[i - 1] \in B[i - 1] PROVE f[i] \in B[i]
    <3>1. f[i - 1] \in A /\ raw[i] \in Candidates(C)
      BY <2>2, <1>1
    <3>2. f[i] \in A
      BY <1>6, <3>1, AbsorbIs
    <3> HIDE DEF A
    <3> QED BY <1>1, <3>2
  <2>3. \A i \in 0..n : f[i] \in B[i]
    <3> HIDE DEF n, A, B
    <3> QED BY <2>1, <2>2, <1>1, RunStays
  <2> HIDE DEF A
  <2> QED BY <2>3
<1>8. FusesAs(f, raw, C)
  BY <1>6, <1>7 DEF FusesAs
<1> QED BY <1>5, <1>8

\* The places of the entries are one each, in order.
LEMMA PlacesAre ==
  ASSUME NEW C, NEW entries \in Seq(Entries(C))
  PROVE  /\ \A n \in DOMAIN entries : PlaceOf(entries, n) \in DOMAIN entries
         /\ \A m, n \in DOMAIN entries :
              m < n => Before(entries, PlaceOf(entries, m), PlaceOf(entries, n))
<1> DEFINE D == DOMAIN entries
           R == {p \in D \X D : Before(entries, p[1], p[2])}
<1>1. D = 1..Len(entries) /\ Len(entries) \in Nat /\ IsFiniteSet(D) /\ Cardinality(D) = Len(entries)
  <2>1. D = 1..Len(entries) /\ Len(entries) \in Nat
    BY LenProperties
  <2> QED BY <2>1, Interval
<1>2. \A i \in D : entries[i].total \in Nat /\ entries[i].best.rank \in Nat /\ i \in Int
  <2>1. \A i \in D : entries[i] \in Entries(C)
    BY ElementOfSeq, LenProperties
  <2>2. \A i \in D : i \in Int
    BY <1>1
  <2> QED BY <2>1, <2>2 DEF Entries, Candidates
<1>3. \A i, j \in D : <<i, j>> \in R <=> Before(entries, i, j)
  OBVIOUS
<1>4. \A i \in D : <<i, i>> \notin R
  BY <1>2, <1>3 DEF Before
<1> DEFINE t == [i \in D |-> entries[i].total]
           k == [i \in D |-> entries[i].best.rank]
<1>4a. t \in [D -> Int] /\ k \in [D -> Int] /\ D \subseteq Int
  BY <1>2
<1>4b. \A i, j \in D : <<i, j>> \in R <=> (t[i] > t[j] \/ (t[i] = t[j] /\ (k[i] < k[j] \/ (k[i] = k[j] /\ i < j))))
  <2> HIDE DEF R
  <2> QED BY <1>3 DEF Before
<1>5. \A i, j, l \in D : <<i, j>> \in R /\ <<j, l>> \in R => <<i, l>> \in R
  <2> HIDE DEF D, R, t, k
  <2> QED BY <1>4a, <1>4b
<1>6. \A i, j \in D : i = j \/ <<i, j>> \in R \/ <<j, i>> \in R
  <2> HIDE DEF D, R, t, k
  <2>1. ASSUME NEW i \in D, NEW j \in D PROVE i = j \/ <<i, j>> \in R \/ <<j, i>> \in R
    <3>1. t[i] \in Int /\ t[j] \in Int /\ k[i] \in Int /\ k[j] \in Int /\ i \in Int /\ j \in Int
      BY <1>4a
    <3>2. t[i] > t[j] \/ t[j] > t[i] \/ t[i] = t[j]
      BY <3>1
    <3>3. k[i] < k[j] \/ k[j] < k[i] \/ k[i] = k[j]
      BY <3>1
    <3>4. i < j \/ j < i \/ i = j
      BY <3>1
    <3> QED BY <3>2, <3>3, <3>4, <1>4b
  <2> QED BY <2>1
<1> HIDE DEF t, k
<1>7. \A i \in D : {j \in D : Before(entries, j, i)} = Below(R, D, i)
  BY <1>3 DEF Below
<1> HIDE DEF R
<1>8. /\ \A i \in D : Cardinality(Below(R, D, i)) \in 0..(Cardinality(D) - 1)
      /\ \A i, j \in D : <<i, j>> \in R => Cardinality(Below(R, D, i)) < Cardinality(Below(R, D, j))
      /\ \A n \in 1..Cardinality(D) : \E i \in D : Cardinality(Below(R, D, i)) = n - 1
  <2>1. IsFiniteSet(D)
    BY <1>1
  <2> HIDE DEF D
  <2> QED BY <2>1, <1>4, <1>5, <1>6, Ranks
<1>9. \A n \in D : PlaceOf(entries, n) \in D /\ Cardinality(Below(R, D, PlaceOf(entries, n))) = n - 1
  <2>1. ASSUME NEW n \in D
        PROVE  PlaceOf(entries, n) \in D /\ Cardinality(Below(R, D, PlaceOf(entries, n))) = n - 1
    <3>1. \E i \in D : Cardinality({j \in D : Before(entries, j, i)}) = n - 1
      BY <1>1, <1>7, <1>8
    <3>2. PlaceOf(entries, n) \in D /\ Cardinality({j \in D : Before(entries, j, PlaceOf(entries, n))}) = n - 1
      BY <3>1 DEF PlaceOf
    <3> QED BY <1>7, <3>2
  <2> QED BY <2>1
<1>10. ASSUME NEW m \in D, NEW n \in D, m < n
       PROVE  Before(entries, PlaceOf(entries, m), PlaceOf(entries, n))
  <2> DEFINE a == PlaceOf(entries, m)
             b == PlaceOf(entries, n)
  <2>1. a \in D /\ b \in D /\ Cardinality(Below(R, D, a)) = m - 1 /\ Cardinality(Below(R, D, b)) = n - 1
    BY <1>9
  <2> HIDE DEF a, b
  <2>2. m \in Int /\ n \in Int
    BY <1>1
  <2> HIDE DEF D
  <2>3. a # b
    BY <2>1, <2>2, <1>10
  <2>4. <<b, a>> \notin R
    BY <2>1, <2>2, <1>8, <1>10
  <2>5. Before(entries, a, b)
    BY <2>1, <2>3, <2>4, <1>3, <1>6
  <2> QED BY <2>5 DEF a, b
<1> QED BY <1>9, <1>10

LEMMA FuseIs ==
  ASSUME NEW C, NEW raw \in Seq(Candidates(C)) PROVE Fuse(raw) \in Seq(Candidates(C))
<1>1. PICK f : FusesAs(f, raw, C) /\ Fuse(raw) = InOrder(f[Len(raw)])
  BY FuseRuns
<1> DEFINE entries == f[Len(raw)]
<1>2. entries \in Seq(Entries(C))
  <2>1. Len(raw) \in 0..Len(raw)
    BY LenProperties
  <2> QED BY <1>1, <2>1 DEF FusesAs
<1> HIDE DEF entries
<1> DEFINE MadeAt(n) == LET e == entries[PlaceOf(entries, n)]
                    IN [e.best EXCEPT !.score = e.total, !.base = e.raw, !.rank = n]
           m == Len(entries)
<1>3. m \in Nat /\ DOMAIN entries = 1..m /\ \A i \in DOMAIN entries : entries[i] \in Entries(C)
  BY <1>2, LenProperties, ElementOfSeq
<1>4. ASSUME NEW n \in 1..m PROVE MadeAt(n) \in Candidates(C)
  <2> DEFINE e == entries[PlaceOf(entries, n)]
  <2>1. e \in Entries(C)
    BY <1>2, <1>3, PlacesAre
  <2> HIDE DEF e
  <2>2. e.best \in Candidates(C) /\ e.total \in Int /\ e.raw \in Int /\ n \in Nat
    BY <2>1 DEF Entries
  <2>3. [e.best EXCEPT !.score = e.total, !.base = e.raw, !.rank = n] \in Candidates(C)
    BY <2>2, Edits
  <2> QED BY <2>3 DEF e
<1> HIDE DEF MadeAt
<1> DEFINE g == [n \in 1..m |-> MadeAt(n)]
<1>5. g \in Seq(Candidates(C))
  <2>1. g \in [1..m -> Candidates(C)]
    BY <1>4
  <2> HIDE DEF g
  <2> QED BY <1>3, <2>1, ListOf
<1>6. InOrder(entries) = g
  BY <1>3 DEF InOrder, MadeAt
<1> HIDE DEF g
<1> QED BY <1>1, <1>5, <1>6 DEF entries

-----------------------------------------------------------------------------
(* Queries, what they find, and neighbours.                                *)

Weighted == [text : Texts, original : BOOLEAN, weight : Nat]
LEMMA MergeItemsIs ==
  ASSUME NEW first \in Seq(Items), NEW others \in Seq(Items)
  PROVE  /\ MergeItems(first, others) \in Seq(Weighted)
         /\ (first # <<>> \/ others # <<>>) => MergeItems(first, others) # <<>>
<1> DEFINE all == first \o others
           I == {i \in DOMAIN all : \A j \in 1..(i - 1) : all[j].text # all[i].text}
           some == Sublist(all, I)
           new == Prefix(some, MaxQueries)
           m == Len(new)
           MadeAt(n) == [new[n] EXCEPT !.weight = Clamp(@)]
           g == [n \in 1..m |-> MadeAt(n)]
<1>1. all \in Seq(Items) /\ Len(all) = Len(first) + Len(others) /\ Len(first) \in Nat /\ Len(others) \in Nat
  BY ConcatProperties, LenProperties
<1>2. /\ some \in Seq(Items) /\ Len(some) = Cardinality(I) /\ Cardinality(I) \in Nat
      /\ \A i \in I : \E n \in 1..Cardinality(I) : Nth(I, n) = i
  <2>1. I \in SUBSET DOMAIN all
    OBVIOUS
  <2> HIDE DEF I, all
  <2> QED BY <1>1, <2>1, SublistIs
<1>3. (first # <<>> \/ others # <<>>) => Len(some) # 0
  <2> SUFFICES ASSUME first # <<>> \/ others # <<>> PROVE Len(some) # 0
    OBVIOUS
  <2>1. Len(first) # 0 \/ Len(others) # 0
    BY EmptySeq
  <2>2. 1 \in DOMAIN all
    <3> HIDE DEF all
    <3>1. Len(all) \in Nat /\ Len(all) # 0 /\ DOMAIN all = 1..Len(all)
      BY <1>1, <2>1, LenProperties
    <3> QED BY <3>1
  <2>3. 1 \in I
    BY <2>2
  <2> HIDE DEF I, some
  <2> QED BY <1>2, <2>3
<1> HIDE DEF some
<1>4. /\ new \in Seq(Items) /\ m \in Nat /\ DOMAIN new = 1..m /\ (Len(some) # 0 => m # 0)
      /\ \A n \in 1..m : new[n] \in Items
  <2>1. MaxQueries \in Nat /\ MaxQueries # 0
    BY QuestionAssumption
  <2>2. new \in Seq(Items) /\ m = (IF MaxQueries < Len(some) THEN MaxQueries ELSE Len(some))
    BY <1>2, <2>1, PrefixIs
  <2> HIDE DEF new
  <2>3. m \in Nat /\ DOMAIN new = 1..m /\ \A n \in 1..m : new[n] \in Items
    BY <2>2, LenProperties, ElementOfSeq
  <2> QED BY <2>1, <2>2, <2>3
<1> HIDE DEF new, m
<1>5. \A n \in 1..m : MadeAt(n) \in Weighted
  <2>1. ASSUME NEW n \in 1..m PROVE MadeAt(n) \in Weighted
    <3>1. new[n] \in Items /\ Clamp(new[n].weight) \in Nat
      BY <1>4 DEF Items, Clamp
    <3> QED BY <3>1 DEF Items, Weighted
  <2> QED BY <2>1
<1>6. MergeItems(first, others) = g
  BY <1>4 DEF MergeItems, new, some
<1> HIDE DEF MadeAt
<1>7. g \in Seq(Weighted) /\ Len(g) = m
  <2>1. g \in [1..m -> Weighted]
    BY <1>5
  <2> HIDE DEF g
  <2> QED BY <1>4, <2>1, ListOf
<1> HIDE DEF g
<1>8. m # 0 => g # <<>>
  BY <1>7, EmptySeq
<1> QED BY <1>3, <1>4, <1>6, <1>7, <1>8

LEMMA QueriesAre ==
  ASSUME NEW texts \in Fallbacks, NEW response \in Responses \cup {Nothing}
  PROVE  RetrievalQueries(Rewritten(FallbackItems(texts), response)) \in Seq(Query) \ {<<>>}
<1> DEFINE fallback == FallbackItems(texts)
           items == Rewritten(fallback, response)
           alone == MergeItems(<<>>, fallback)
           head == SubSeq(alone, 1, 1)
           m == Len(items)
           MadeAt(i) == LET original == items[i].original \/ items[i].text = Question
                    IN [index |-> i - 1, text |-> items[i].text, original |-> original,
                        weight |-> items[i].weight * (IF original THEN OriginalWeight ELSE RewriteWeight)]
           g == [i \in 1..m |-> MadeAt(i)]
<1>1. texts \in Seq(Texts) /\ texts # <<>> /\ response \in Seq(Items) /\ <<>> \in Seq(Items)
  BY QuestionAssumption, EmptySeq DEF Nothing
<1>2. fallback \in Seq(Items) /\ fallback # <<>>
  <2> DEFINE n == Len(texts)
             f == [i \in 1..n |-> [text |-> texts[i], original |-> i = 1, weight |-> IF i = 1 THEN 20 ELSE 17]]
  <2>1. n \in Nat \ {0} /\ DOMAIN texts = 1..n /\ \A i \in 1..n : texts[i] \in Texts
    BY <1>1, NotEmpty, ElementOfSeq
  <2>2. fallback = f
    BY <2>1 DEF FallbackItems
  <2> HIDE DEF n, fallback
  <2>3. \A i \in 1..n : [text |-> texts[i], original |-> i = 1, weight |-> IF i = 1 THEN 20 ELSE 17] \in Items
    BY <2>1 DEF Items
  <2>4. f \in [1..n -> Items]
    BY <2>3
  <2> HIDE DEF f
  <2>5. f \in Seq(Items) /\ Len(f) = n
    BY <2>1, <2>4, ListOf
  <2>6. f # <<>>
    BY <2>1, <2>5, EmptySeq
  <2> QED BY <2>2, <2>5, <2>6
<1> HIDE DEF fallback
<1>3. \A s \in Seq(Weighted) : s \in Seq(Items)
  <2>1. Weighted \subseteq Items
    BY DEF Weighted, Items
  <2> HIDE DEF Weighted
  <2>2. ASSUME NEW s \in Seq(Weighted) PROVE s \in Seq(Items)
    <3>1. Len(s) \in Nat /\ s \in [1..Len(s) -> Items]
      BY <2>1, SeqDef, LenProperties
    <3> QED BY <3>1, SeqDef
  <2> QED BY <2>2
<1>4. alone \in Seq(Weighted) /\ alone # <<>>
  BY <1>1, <1>2, MergeItemsIs
<1> HIDE DEF alone
<1>5. head \in Seq(Items) /\ head # <<>>
  <2>1. Len(alone) \in Nat \ {0} /\ DOMAIN alone = 1..Len(alone) /\ 1 \in 1..Len(alone)
    BY <1>4, NotEmpty
  <2>2. head \in Seq(Weighted) /\ Len(head) = 1
    <3>1. \A i \in 1..1 : alone[i] \in Weighted
      BY <1>4, <2>1, ElementOfSeq
    <3>2. /\ head \in Seq(Weighted)
          /\ Len(head) = IF 1 <= 1 THEN 1 - 1 + 1 ELSE 0
      BY <1>4, <3>1, SubSeqProperties
    <3> QED BY <3>2
  <2> HIDE DEF head
  <2>3. head # <<>>
    BY <2>2, EmptySeq
  <2> QED BY <1>3, <2>2, <2>3
<1> HIDE DEF head
<1>6. items \in Seq(Weighted) /\ items # <<>>
  <2>1. MergeItems(<<>>, response) \in Seq(Items)
    BY <1>1, <1>3, MergeItemsIs
  <2>2. /\ MergeItems(head, MergeItems(<<>>, response)) \in Seq(Weighted)
        /\ MergeItems(head, MergeItems(<<>>, response)) # <<>>
    BY <1>5, <2>1, MergeItemsIs
  <2> QED BY <1>4, <2>2 DEF Rewritten, alone, head
<1> HIDE DEF items
<1>7. m \in Nat \ {0} /\ DOMAIN items = 1..m /\ \A i \in 1..m : items[i] \in Weighted
  BY <1>6, NotEmpty, ElementOfSeq
<1> HIDE DEF m
<1>8. ASSUME NEW i \in 1..m PROVE MadeAt(i) \in Query
  <2> DEFINE original == items[i].original \/ items[i].text = Question
             factor == IF original THEN OriginalWeight ELSE RewriteWeight
  <2>1. items[i].text \in Texts /\ items[i].weight \in Nat /\ original \in BOOLEAN /\ i - 1 \in Nat
    BY <1>7 DEF Weighted
  <2>2. factor \in Nat
    BY QuestionAssumption
  <2> HIDE DEF factor
  <2>3. items[i].weight * factor \in Nat
    BY <2>1, <2>2
  <2>4. MadeAt(i) = [index |-> i - 1, text |-> items[i].text, original |-> original, weight |-> items[i].weight * factor]
    BY DEF factor
  <2> HIDE DEF MadeAt, original
  <2> QED BY <2>1, <2>3, <2>4 DEF Query
<1>9. RetrievalQueries(items) = g
  BY <1>7 DEF RetrievalQueries
<1> HIDE DEF MadeAt
<1>10. g \in Seq(Query) /\ Len(g) = m
  <2>1. g \in [1..m -> Query]
    BY <1>8
  <2> HIDE DEF g
  <2> QED BY <1>7, <2>1, ListOf
<1> HIDE DEF g
<1>11. g # <<>>
  BY <1>7, <1>10, EmptySeq
<1> QED BY <1>9, <1>10, <1>11 DEF items, fallback

LEMMA AnnotatedIs ==
  ASSUME NEW hits \in Seq(Hits), NEW query \in Query, NEW w \in Nat
  PROVE  Annotated(hits, query, w) \in Seq(Candidates(Chunks))
<1> DEFINE m == Len(hits)
           MadeAt(r) == [chunk |-> hits[r].chunk, query |-> query.index, rank |-> r, score |-> hits[r].score,
                     base |-> hits[r].score, emb |-> hits[r].emb, weight |-> query.weight * w]
           g == [r \in 1..m |-> MadeAt(r)]
<1>1. m \in Nat /\ DOMAIN hits = 1..m /\ \A r \in 1..m : hits[r] \in Hits
  BY LenProperties, ElementOfSeq
<1> HIDE DEF m
<1>2. query.weight * w \in Nat /\ query.index \in Nat
  <2>1. query.weight \in Nat /\ query.index \in Nat
    BY DEF Query
  <2> QED BY <2>1
<1>3. ASSUME NEW r \in 1..m PROVE MadeAt(r) \in Candidates(Chunks)
  BY <1>1, <1>2 DEF Hits, Candidates
<1>4. Annotated(hits, query, w) = g
  BY <1>1 DEF Annotated
<1> HIDE DEF MadeAt
<1>5. g \in [1..m -> Candidates(Chunks)]
  BY <1>3
<1> HIDE DEF g
<1> QED BY <1>1, <1>4, <1>5, ListOf

LEMMA RawIs ==
  ASSUME queries \in Seq(Query), NEW found \in Recalls
  PROVE  RawCandidates(found) \in Seq(Candidates(Chunks))
<1> DEFINE S == Candidates(Chunks)
           Lists(leg, w) == [i \in DOMAIN queries |-> Annotated(found[queries[i].text][leg], queries[i], w)]
<1>1. Len(queries) \in Nat /\ DOMAIN queries = 1..Len(queries) /\ \A i \in DOMAIN queries : queries[i] \in Query
  BY LenProperties, ElementOfSeq
<1>2. ASSUME NEW i \in DOMAIN queries, NEW leg \in {"keyword", "vector"}, NEW w \in Nat
      PROVE  Annotated(found[queries[i].text][leg], queries[i], w) \in Seq(S)
  <2>1. queries[i].text \in Texts
    BY <1>1 DEF Query
  <2>2. found[queries[i].text] \in Legs
    BY <2>1, QuestionAssumption
  <2>3. found[queries[i].text][leg] \in Seq(Hits)
    <3> DEFINE l == found[queries[i].text]
    <3>1. l.keyword \in Seq(Hits) /\ l.vector \in Seq(Hits)
      BY <2>2 DEF Legs
    <3> QED BY <3>1
  <2> QED BY <1>1, <2>3, AnnotatedIs
<1>3. ASSUME NEW leg \in {"keyword", "vector"}, NEW w \in Nat PROVE Joined(Lists(leg, w)) \in Seq(S)
  <2> DEFINE lists == Lists(leg, w)
  <2> HIDE DEF S
  <2>1. lists \in [1..Len(queries) -> Seq(S)]
    BY <1>1, <1>2
  <2> HIDE DEF lists
  <2>2. lists \in Seq(Seq(S))
    BY <1>1, <2>1, ListOf
  <2> QED BY <2>2, JoinedIs DEF lists
<1>4. KeywordWeight \in Nat /\ VectorWeight \in Nat
  BY QuestionAssumption
<1>5. RawCandidates(found) = Joined(Lists("keyword", KeywordWeight)) \o Joined(Lists("vector", VectorWeight))
  BY DEF RawCandidates
<1> HIDE DEF Lists, S
<1>6. Joined(Lists("keyword", KeywordWeight)) \in Seq(S) /\ Joined(Lists("vector", VectorWeight)) \in Seq(S)
  BY <1>3, <1>4
<1> QED BY <1>5, <1>6, ConcatProperties DEF S

LEMMA NeighbourRowsAre ==
  ASSUME NEW anchors \in Seq(Candidates(Chunks))
  PROVE  NeighbourRows(anchors) \in Seq(Candidates(Chunks))
<1> DEFINE S == Candidates(Chunks)
           Near(i) == Neighbours[anchors[i].chunk]
           Made(i) == [k \in DOMAIN Near(i) |-> NeighbourOf(anchors[i], Near(i)[k])]
           lists == [i \in DOMAIN anchors |-> Made(i)]
<1>1. Len(anchors) \in Nat /\ DOMAIN anchors = 1..Len(anchors) /\ \A i \in DOMAIN anchors : anchors[i] \in S
  BY LenProperties, ElementOfSeq
<1>2. ASSUME NEW a \in S, NEW c \in Chunks PROVE NeighbourOf(a, c) \in S
  <2>1. a.score \in Int /\ a.base \in Int
    BY DEF Candidates
  <2>2. (a.score * 85) \div 100 \in Int /\ (a.base * 85) \div 100 \in Int
    BY <2>1
  <2> DEFINE score == (a.score * 85) \div 100
             base  == (a.base * 85) \div 100
  <2>3. NeighbourOf(a, c) = [a EXCEPT !.chunk = c, !.emb = FALSE, !.score = score, !.base = base]
    BY DEF NeighbourOf, Candidates
  <2>4. score \in Int /\ base \in Int
    BY <2>2
  <2> HIDE DEF score, base
  <2> QED BY <2>3, <2>4 DEF Candidates
<1>3. ASSUME NEW i \in DOMAIN anchors PROVE Made(i) \in Seq(S)
  <2> DEFINE near == Near(i)
             m == Len(near)
  <2>1. anchors[i].chunk \in Chunks
    BY <1>1 DEF Candidates
  <2>2. near \in Seq(Chunks)
    BY <2>1, QuestionAssumption
  <2> HIDE DEF near
  <2>3. m \in Nat /\ DOMAIN near = 1..m /\ \A k \in 1..m : near[k] \in Chunks
    BY <2>2, LenProperties, ElementOfSeq
  <2>4. Made(i) = [k \in 1..m |-> NeighbourOf(anchors[i], near[k])]
    BY <2>3 DEF near
  <2> HIDE DEF m, S, Made
  <2>5. Made(i) \in [1..m -> S]
    BY <1>1, <1>2, <2>3, <2>4
  <2> QED BY <2>3, <2>5, ListOf
<1> HIDE DEF Made
<1>4. lists \in Seq(Seq(S))
  <2>1. lists \in [1..Len(anchors) -> Seq(S)]
    BY <1>1, <1>3
  <2> HIDE DEF lists
  <2> QED BY <1>1, <2>1, ListOf
<1>5. NeighbourRows(anchors) = Ranked(Joined(lists))
  BY DEF NeighbourRows, Made
<1> HIDE DEF lists
<1>6. Joined(lists) \in Seq(S)
  BY <1>4, JoinedIs
<1> QED BY <1>5, <1>6, RankedIs

LEMMA NeighboursAre ==
  ASSUME NEW anchors \in Seq(Candidates(Chunks))
  PROVE  NeighbourCandidates(anchors) \in Seq(Candidates(Chunks))
<1> DEFINE S == Candidates(Chunks)
           rows == NeighbourRows(anchors)
           Same(n) == {m \in DOMAIN rows : rows[m].chunk = rows[n].chunk}
           Latest(n) == rows[Largest(Same(n))]
<1>1. rows \in Seq(S)
  BY NeighbourRowsAre
<1> HIDE DEF rows
<1>2. Len(rows) \in Nat /\ DOMAIN rows = 1..Len(rows) /\ \A n \in DOMAIN rows : rows[n] \in S
  BY <1>1, LenProperties, ElementOfSeq
<1>3. ASSUME NEW n \in 1..Len(rows) PROVE Latest(n) \in S
  <2>1. n \in Same(n) /\ Same(n) \subseteq 1..Len(rows)
    BY <1>2, <1>3
  <2>2. IsFiniteSet(1..Len(rows)) /\ 1..Len(rows) \subseteq Int
    BY <1>2, FS_Interval
  <2> HIDE DEF Same
  <2>3. IsFiniteSet(Same(n)) /\ Same(n) \subseteq Int
    BY <2>1, <2>2, FS_Subset
  <2>4. Largest(Same(n)) \in Same(n)
    BY <2>1, <2>3, LargestIs
  <2> QED BY <1>2, <2>1, <2>4
<1>4. NeighbourCandidates(anchors) = [n \in 1..Len(rows) |-> Latest(n)]
  BY <1>2 DEF NeighbourCandidates, rows
<1> HIDE DEF Latest, S
<1>5. [n \in 1..Len(rows) |-> Latest(n)] \in [1..Len(rows) -> S]
  BY <1>3
<1>6. NeighbourCandidates(anchors) \in Seq(S)
  BY <1>2, <1>4, <1>5, ListOf
<1> QED BY <1>6 DEF S

-----------------------------------------------------------------------------
(* The context: what is selected, and how much of each is taken.           *)

LEMMA ImageIs ==
  ASSUME NEW S, IsFiniteSet(S), NEW f
  PROVE  /\ IsFiniteSet({f[x] : x \in S})
         /\ (\A x, y \in S : f[x] = f[y] => x = y) => Cardinality({f[x] : x \in S}) = Cardinality(S)
<1> DEFINE T == {f[x] : x \in S}
           g == [x \in S |-> f[x]]
<1>1. g \in Surjection(S, T)
  BY DEF Surjection
<1>2. (\A x, y \in S : f[x] = f[y] => x = y) => g \in Injection(S, T)
  BY DEF Injection, IsInjective
<1> HIDE DEF g, T
<1>3. IsFiniteSet(T) /\ (Cardinality(T) = Cardinality(S) <=> g \in Injection(S, T))
  BY <1>1, FS_Surjection
<1> QED BY <1>2, <1>3 DEF T

LEMMA MmrScoreIs ==
  ASSUME NEW C \in SUBSET Chunks, NEW chosen \in Seq(Candidates(C)), NEW c \in Candidates(C)
  PROVE  MmrScore(c, chosen) \in Int
<1> DEFINE f == [i \in DOMAIN chosen |-> Similarity[<<c.chunk, chosen[i].chunk>>]]
           L == {Similarity[<<c.chunk, chosen[i].chunk>>] : i \in DOMAIN chosen}
<1>1. DOMAIN chosen = 1..Len(chosen) /\ Len(chosen) \in Nat /\ \A i \in DOMAIN chosen : chosen[i] \in Candidates(C)
  BY LenProperties, ElementOfSeq
<1>2. \A i \in DOMAIN chosen : Similarity[<<c.chunk, chosen[i].chunk>>] \in Int
  BY <1>1, ContextAssumption DEF Candidates, Chunks
<1>3. L = {f[i] : i \in DOMAIN chosen} /\ L \subseteq Int
  BY <1>2
<1>4. IsFiniteSet(DOMAIN chosen)
  BY <1>1, Interval
<1> HIDE DEF f, L
<1>5. IsFiniteSet(L)
  BY <1>3, <1>4, ImageIs
<1>6. IsFiniteSet(L \cup {0}) /\ L \cup {0} \subseteq Int /\ L \cup {0} # {}
  <2>1. IsFiniteSet(L \cup {0})
    BY <1>5, FS_AddElement
  <2>2. L \cup {0} \subseteq Int /\ 0 \in L \cup {0}
    BY <1>3
  <2>3. L \cup {0} # {}
    BY <2>2
  <2> QED BY <2>1, <2>2, <2>3
<1>7. Largest(L \cup {0}) \in Int
  BY <1>6, LargestIs
<1> DEFINE x == Largest(L \cup {0})
<1>8. MmrScore(c, chosen) = Lambda * c.score - (10 - Lambda) * x
  BY DEF MmrScore, L
<1>9. c.score \in Int /\ Lambda \in Int
  BY ContextAssumption DEF Candidates
<1> HIDE DEF x
<1>10. x \in Int => Lambda * c.score - (10 - Lambda) * x \in Int
  BY <1>9
<1> QED BY <1>7, <1>8, <1>10 DEF x

LEMMA BestIs ==
  ASSUME NEW C \in SUBSET Chunks, NEW cands \in Seq(Candidates(C)), NEW chosen \in Seq(Candidates(C)),
         Eligible(cands, chosen) # {}
  PROVE  Best(cands, chosen) \in Eligible(cands, chosen)
<1> DEFINE D == Eligible(cands, chosen)
           s == [i \in D |-> MmrScore(cands[i], chosen)]
           R == {p \in D \X D : s[p[1]] > s[p[2]] \/ (s[p[1]] = s[p[2]] /\ p[1] < p[2])}
<1>1. D \subseteq DOMAIN cands
  BY DEF Eligible
<1>2. Len(cands) \in Nat /\ DOMAIN cands = 1..Len(cands) /\ \A i \in DOMAIN cands : cands[i] \in Candidates(C)
  BY LenProperties, ElementOfSeq
<1>3. IsFiniteSet(D) /\ D \subseteq Int
  <2>1. IsFiniteSet(DOMAIN cands)
    BY <1>2, Interval
  <2>2. D \subseteq Int
    <3> HIDE DEF D
    <3> QED BY <1>1, <1>2
  <2> HIDE DEF D
  <2> QED BY <1>1, <2>1, <2>2, FS_Subset
<1>4. s \in [D -> Int]
  <2> HIDE DEF D
  <2>1. ASSUME NEW i \in D PROVE MmrScore(cands[i], chosen) \in Int
    BY <1>1, <1>2, MmrScoreIs
  <2> QED BY <2>1
<1> DEFINE Better(i, j) == s[i] > s[j] \/ (s[i] = s[j] /\ i < j)
<1>5. \A i, j \in D : <<i, j>> \in R <=> Better(i, j)
  <2> HIDE DEF s, D
  <2> QED OBVIOUS
<1>6. /\ \A i \in D : <<i, i>> \notin R
      /\ \A i, j, k \in D : <<i, j>> \in R /\ <<j, k>> \in R => <<i, k>> \in R
      /\ \A i, j \in D : i = j \/ <<i, j>> \in R \/ <<j, i>> \in R
  <2> HIDE DEF D, s, R
  <2>1. \A i \in D : s[i] \in Int /\ i \in Int
    BY <1>3, <1>4
  <2>2. ASSUME NEW i \in D, NEW j \in D PROVE i = j \/ Better(i, j) \/ Better(j, i)
    <3>1. s[i] > s[j] \/ s[j] > s[i] \/ s[i] = s[j]
      BY <2>1
    <3>2. i < j \/ j < i \/ i = j
      BY <2>1
    <3> QED BY <3>1, <3>2
  <2>3. \A i \in D : ~Better(i, i)
    BY <2>1
  <2>4. \A i, j, k \in D : Better(i, j) /\ Better(j, k) => Better(i, k)
    BY <2>1
  <2> HIDE DEF Better
  <2> QED BY <1>5, <2>2, <2>3, <2>4
<1>7. \E i \in D : \A j \in D : <<j, i>> \notin R
  <2> HIDE DEF D, R
  <2>1. /\ Cardinality(D) \in Nat
        /\ \A n \in 1..Cardinality(D) : \E i \in D : Cardinality(Below(R, D, i)) = n - 1
    BY <1>3, <1>6, Ranks
  <2>2. Cardinality(D) # 0
    BY <1>3, FS_EmptySet DEF D
  <2>3. 1 \in 1..Cardinality(D)
    BY <2>1, <2>2
  <2>4. PICK i \in D : Cardinality(Below(R, D, i)) = 0
    BY <2>1, <2>3
  <2>5. IsFiniteSet(Below(R, D, i))
    <3>1. Below(R, D, i) \in SUBSET D
      BY DEF Below
    <3> QED BY <1>3, <3>1, FS_Subset
  <2>6. Below(R, D, i) = {}
    BY <2>4, <2>5, FS_EmptySet
  <2> QED BY <2>6 DEF Below
<1>8. \E i \in D : \A j \in D : \/ MmrScore(cands[i], chosen) > MmrScore(cands[j], chosen)
                                \/ MmrScore(cands[i], chosen) = MmrScore(cands[j], chosen) /\ i <= j
  <2>1. PICK i \in D : \A j \in D : <<j, i>> \notin R
    BY <1>7
  <2>2. ASSUME NEW j \in D PROVE s[i] > s[j] \/ (s[i] = s[j] /\ i <= j)
    <3>1. i = j \/ Better(i, j)
      <4> HIDE DEF D, R, Better
      <4> QED BY <1>5, <1>6, <2>1
    <3>2. i \in Int /\ j \in Int /\ s[i] \in Int /\ s[j] \in Int
      <4> HIDE DEF D, s
      <4> QED BY <1>3, <1>4
    <3> HIDE DEF s, D
    <3> QED BY <3>1, <3>2
  <2>3. \A j \in D : s[j] = MmrScore(cands[j], chosen)
    OBVIOUS
  <2> HIDE DEF s, D
  <2> QED BY <2>2, <2>3
<1> QED BY <1>8 DEF Best

\* The elements of s that E relates to c, and a bound for each of them.
Alike(E, s, c) == {i \in DOMAIN s : <<c, s[i]>> \in E}
AtMost(E, s, max) == \A i \in DOMAIN s : Cardinality(Alike(E, s, s[i])) <= max
LEMMA AppendAlike ==
  ASSUME NEW S, NEW s \in Seq(S), NEW c \in S, NEW E, NEW max \in Nat,
         \A a, b \in S : <<a, b>> \in E => <<b, a>> \in E,
         \A a, b, d \in S : <<a, b>> \in E /\ <<b, d>> \in E => <<a, d>> \in E,
         Cardinality(Alike(E, s, c)) < max, AtMost(E, s, max)
  PROVE  AtMost(E, Append(s, c), max)
<1> DEFINE t == Append(s, c)
           n == Len(s)
<1>1. /\ n \in Nat /\ DOMAIN s = 1..n /\ DOMAIN t = 1..(n + 1) /\ t[n + 1] = c
      /\ \A i \in 1..n : t[i] = s[i] /\ s[i] \in S
  BY AppendProperties, LenProperties, ElementOfSeq
<1> HIDE DEF t, n
<1>2. ASSUME NEW d \in S
      PROVE  /\ IsFiniteSet(Alike(E, s, d)) /\ Cardinality(Alike(E, s, d)) \in Nat
             /\ <<d, c>> \notin E => Alike(E, t, d) = Alike(E, s, d)
             /\ <<d, c>> \in E => Cardinality(Alike(E, t, d)) = Cardinality(Alike(E, s, d)) + 1
  <2>1. Alike(E, s, d) \in SUBSET (1..n) /\ IsFiniteSet(1..n)
    BY <1>1, Interval DEF Alike
  <2>2. IsFiniteSet(Alike(E, s, d)) /\ Cardinality(Alike(E, s, d)) \in Nat
    BY <2>1, FS_Subset, FS_CardinalityType
  <2>3. \A i \in 1..(n + 1) : i = n + 1 \/ i \in 1..n
    BY <1>1
  <2>4. n + 1 \notin 1..n /\ \A i \in 1..n : i \in 1..(n + 1)
    BY <1>1
  <2>5. <<d, c>> \notin E => Alike(E, t, d) = Alike(E, s, d)
    BY <1>1, <2>3, <2>4 DEF Alike
  <2>6. ASSUME <<d, c>> \in E PROVE Cardinality(Alike(E, t, d)) = Cardinality(Alike(E, s, d)) + 1
    <3>1. n + 1 \in 1..(n + 1)
      BY <1>1
    <3>2. Alike(E, t, d) = Alike(E, s, d) \cup {n + 1} /\ n + 1 \notin Alike(E, s, d)
      BY <1>1, <2>3, <2>4, <2>6, <3>1 DEF Alike
    <3> QED BY <2>2, <3>2, FS_AddElement
  <2> QED BY <2>2, <2>5, <2>6
<1>3. ASSUME NEW d \in S, <<d, c>> \in E PROVE Alike(E, s, d) = Alike(E, s, c)
  <2>1. \A a \in S : <<d, a>> \in E <=> <<c, a>> \in E
    BY <1>3
  <2>2. \A i \in DOMAIN s : <<d, s[i]>> \in E <=> <<c, s[i]>> \in E
    BY <1>1, <2>1
  <2> QED BY <2>2 DEF Alike
<1>4. Cardinality(Alike(E, t, c)) <= max
  <2>1. Cardinality(Alike(E, s, c)) \in Nat
    BY <1>2
  <2>2. Cardinality(Alike(E, t, c)) \in {Cardinality(Alike(E, s, c)), Cardinality(Alike(E, s, c)) + 1}
    <3>1. CASE <<c, c>> \in E
      BY <1>2, <3>1
    <3>2. CASE <<c, c>> \notin E
      BY <1>2, <3>2
    <3> QED BY <3>1, <3>2
  <2> QED BY <2>1, <2>2
<1>5. ASSUME NEW i \in 1..n PROVE Cardinality(Alike(E, t, s[i])) <= max
  <2>1. s[i] \in S /\ Cardinality(Alike(E, s, s[i])) <= max
    BY <1>1 DEF AtMost
  <2>2. CASE <<s[i], c>> \in E
    <3>1. Cardinality(Alike(E, t, s[i])) = Cardinality(Alike(E, s, c)) + 1
      BY <1>2, <1>3, <2>1, <2>2
    <3>2. Cardinality(Alike(E, s, c)) \in Nat
      BY <1>2
    <3> QED BY <3>1, <3>2
  <2>3. CASE <<s[i], c>> \notin E
    BY <1>2, <2>1, <2>3
  <2> QED BY <2>2, <2>3
<1>6. ASSUME NEW i \in DOMAIN t PROVE Cardinality(Alike(E, t, t[i])) <= max
  <2>1. i = n + 1 \/ i \in 1..n
    BY <1>1
  <2> QED BY <2>1, <1>1, <1>4, <1>5
<1> QED BY <1>6 DEF AtMost, t

OfDocument == {p \in Candidates(Chunks) \X Candidates(Chunks) : SameDocument(p[1], p[2])}
OfSection  == {p \in Candidates(Chunks) \X Candidates(Chunks) : SameSection(p[1], p[2])}
\* What ContextBuilder may have selected so far.
Selections(C) ==
  {s \in Seq(Candidates(C)) : /\ Len(s) <= MaxChunks /\ Distinct(s)
                              /\ AtMost(OfDocument, s, MaxPerDocument)
                              /\ AtMost(OfSection, s, MaxPerSection)}

LEMMA Pairs ==
  /\ \A a, b \in Candidates(Chunks) :
       (<<a, b>> \in OfDocument <=> SameDocument(a, b)) /\ (<<a, b>> \in OfSection <=> SameSection(a, b))
  /\ \A E \in {OfDocument, OfSection} :
       /\ \A a, b \in Candidates(Chunks) : <<a, b>> \in E => <<b, a>> \in E
       /\ \A a, b, d \in Candidates(Chunks) : <<a, b>> \in E /\ <<b, d>> \in E => <<a, d>> \in E
<1>1. \A a, b \in Candidates(Chunks) :
       (<<a, b>> \in OfDocument <=> SameDocument(a, b)) /\ (<<a, b>> \in OfSection <=> SameSection(a, b))
  BY DEF OfDocument, OfSection
<1>2. /\ \A a, b \in Candidates(Chunks) : SameDocument(a, b) => SameDocument(b, a)
      /\ \A a, b, d \in Candidates(Chunks) : SameDocument(a, b) /\ SameDocument(b, d) => SameDocument(a, d)
      /\ \A a, b \in Candidates(Chunks) : SameSection(a, b) => SameSection(b, a)
      /\ \A a, b, d \in Candidates(Chunks) : SameSection(a, b) /\ SameSection(b, d) => SameSection(a, d)
  BY DEF SameDocument, SameSection
<1> QED BY <1>1, <1>2

LEMMA Widens ==
  ASSUME NEW C, NEW D, C \subseteq D
  PROVE  Candidates(C) \subseteq Candidates(D) /\ Seq(Candidates(C)) \subseteq Seq(Candidates(D))
<1>1. Candidates(C) \subseteq Candidates(D)
  BY DEF Candidates
<1> HIDE DEF Candidates
<1>2. ASSUME NEW s \in Seq(Candidates(C)) PROVE s \in Seq(Candidates(D))
  <2>1. Len(s) \in Nat /\ s \in [1..Len(s) -> Candidates(D)]
    BY <1>1, SeqDef, LenProperties
  <2> QED BY <2>1, SeqDef
<1> QED BY <1>1, <1>2

LEMMA SelectionGrows ==
  ASSUME NEW C \in SUBSET Chunks, NEW s \in Selections(C), NEW c \in Candidates(C),
         Len(s) < MaxChunks, WithinLimits(c, s), c.chunk \notin ChunksOf(s)
  PROVE  Append(s, c) \in Selections(C)
<1>1. /\ s \in Seq(Candidates(C)) /\ Distinct(s) /\ Len(s) \in Nat
      /\ AtMost(OfDocument, s, MaxPerDocument) /\ AtMost(OfSection, s, MaxPerSection)
  BY LenProperties DEF Selections
<1>2. s \in Seq(Candidates(Chunks)) /\ c \in Candidates(Chunks)
  BY <1>1, Widens
<1>3. \A i \in DOMAIN s : s[i] \in Candidates(Chunks)
  BY <1>2, LenProperties, ElementOfSeq
<1>4. /\ Alike(OfDocument, s, c) = {i \in DOMAIN s : SameDocument(c, s[i])}
      /\ Alike(OfSection, s, c) = {i \in DOMAIN s : SameSection(c, s[i])}
  BY <1>2, <1>3, Pairs DEF Alike
<1>5. Cardinality(Alike(OfDocument, s, c)) < MaxPerDocument /\ Cardinality(Alike(OfSection, s, c)) < MaxPerSection
  BY <1>4 DEF WithinLimits
<1>6. MaxPerDocument \in Nat /\ MaxPerSection \in Nat /\ MaxChunks \in Nat
  BY ContextAssumption
<1> DEFINE S == Candidates(Chunks)
<1>7. AtMost(OfDocument, Append(s, c), MaxPerDocument)
  <2>1. /\ \A a, b \in S : <<a, b>> \in OfDocument => <<b, a>> \in OfDocument
        /\ \A a, b, d \in S : <<a, b>> \in OfDocument /\ <<b, d>> \in OfDocument => <<a, d>> \in OfDocument
    BY Pairs
  <2>2. s \in Seq(S) /\ c \in S
    BY <1>2
  <2> HIDE DEF S
  <2> QED BY <1>1, <1>5, <1>6, <2>1, <2>2, AppendAlike
<1>8. AtMost(OfSection, Append(s, c), MaxPerSection)
  <2>1. /\ \A a, b \in S : <<a, b>> \in OfSection => <<b, a>> \in OfSection
        /\ \A a, b, d \in S : <<a, b>> \in OfSection /\ <<b, d>> \in OfSection => <<a, d>> \in OfSection
    BY Pairs
  <2>2. s \in Seq(S) /\ c \in S
    BY <1>2
  <2> HIDE DEF S
  <2> QED BY <1>1, <1>5, <1>6, <2>1, <2>2, AppendAlike
<1> DEFINE t == Append(s, c)
           n == Len(s)
<1>9. /\ t \in Seq(Candidates(C)) /\ Len(t) = n + 1 /\ DOMAIN t = 1..(n + 1) /\ t[n + 1] = c
      /\ DOMAIN s = 1..n /\ \A i \in 1..n : t[i] = s[i]
  BY <1>1, AppendProperties, LenProperties
<1>10. Distinct(t)
  <2> HIDE DEF t, n
  <2>1. \A i \in 1..(n + 1) : i = n + 1 \/ i \in 1..n
    BY <1>1 DEF n
  <2>2. \A i \in 1..n : s[i].chunk # c.chunk
    BY <1>9 DEF ChunksOf
  <2> QED BY <1>1, <1>9, <2>1, <2>2 DEF Distinct
<1>11. Len(t) <= MaxChunks
  <2> HIDE DEF t
  <2> QED BY <1>1, <1>6, <1>9
<1> HIDE DEF t, n
<1> QED BY <1>7, <1>8, <1>9, <1>10, <1>11 DEF Selections, t

LEMMA SelectByRankIs ==
  ASSUME NEW C \in SUBSET Chunks, NEW cands \in Seq(Candidates(C)), Distinct(cands), NEW chosen \in Selections(C),
         \A i \in DOMAIN cands : cands[i].chunk \notin ChunksOf(chosen)
  PROVE  SelectByRank(cands, chosen) \in Selections(C)
<1> DEFINE n == Len(cands)
           A == Seq(Candidates(C))
           base == chosen
           step == [p \in A \X (1..n) |-> TakeNext(p[1], cands[p[2]])]
           Is(f) == f = [k \in 0..n |-> IF k = 0 THEN chosen ELSE TakeNext(f[k - 1], cands[k])]
<1>1. n \in Nat /\ DOMAIN cands = 1..n /\ \A i \in 1..n : cands[i] \in Candidates(C)
  BY LenProperties, ElementOfSeq
<1>2. step \in [A \X (1..n) -> A] /\ base \in A
  <2>1. ASSUME NEW p \in A \X (1..n) PROVE TakeNext(p[1], cands[p[2]]) \in A
    BY <1>1, AppendProperties DEF TakeNext
  <2> QED BY <2>1 DEF Selections
<1>3. \E f : Is(f)
  <2>1. PICK run : Follows(run, n, A, base, step)
    <3>1. n \in Nat
      BY <1>1
    <3> HIDE DEF step, A, n, base
    <3> QED BY <3>1, <1>2, RunExists
  <2>2. ASSUME NEW i \in 1..n PROVE run[i] = TakeNext(run[i - 1], cands[i])
    <3>1. run[i - 1] \in A /\ run[i] = step[<<run[i - 1], i>>]
      BY <2>1 DEF Follows
    <3> HIDE DEF A, n
    <3>2. <<run[i - 1], i>> \in A \X (1..n)
      BY <3>1
    <3> QED BY <3>1, <3>2
  <2>3. run[0] = chosen /\ run \in [0..n -> A]
    BY <2>1 DEF Follows
  <2> HIDE DEF A, n
  <2>4. Is(run)
    <3>1. \A k \in 0..n : run[k] = IF k = 0 THEN chosen ELSE TakeNext(run[k - 1], cands[k])
      <4>1. ASSUME NEW k \in 0..n, k # 0 PROVE k \in 1..n
        BY <1>1, <4>1
      <4> QED BY <4>1, <2>2, <2>3
    <3>2. run = [k \in 0..n |-> run[k]]
      BY <2>3
    <3> QED BY <3>1, <3>2
  <2> QED BY <2>4
<1> DEFINE f == CHOOSE f : Is(f)
<1>4. Is(f)
  <2> HIDE DEF Is
  <2> QED BY <1>3
<1>5. SelectByRank(cands, chosen) = f[n]
  BY Zenon DEF SelectByRank
<1> HIDE DEF f
<1>6. f[0] = chosen /\ \A i \in 1..n : f[i] = TakeNext(f[i - 1], cands[i])
  <2> HIDE DEF n
  <2>1. \A k \in 0..n : f[k] = IF k = 0 THEN chosen ELSE TakeNext(f[k - 1], cands[k])
    BY <1>4
  <2>2. f[0] = chosen
    <3>1. 0 \in 0..n
      BY <1>1
    <3> QED BY <2>1, <3>1
  <2>3. ASSUME NEW i \in 1..n PROVE f[i] = TakeNext(f[i - 1], cands[i])
    <3>1. i \in 0..n /\ i # 0
      BY <1>1
    <3> QED BY <2>1, <3>1
  <2> QED BY <2>2, <2>3
<1> DEFINE Seen(k) == ChunksOf(chosen) \cup {cands[i].chunk : i \in 1..k}
           B == [k \in 0..n |-> {s \in Selections(C) : ChunksOf(s) \subseteq Seen(k)}]
<1>7. f[0] \in B[0]
  BY <1>1, <1>6
<1>8. ASSUME NEW k \in 1..n, f[k - 1] \in B[k - 1] PROVE f[k] \in B[k]
  <2> DEFINE s == f[k - 1]
             c == cands[k]
  <2>1. k \in 0..n /\ k - 1 \in 0..n
    BY <1>1
  <2>2. s \in Selections(C) /\ ChunksOf(s) \subseteq Seen(k - 1) /\ c \in Candidates(C)
    BY <2>1, <1>1, <1>8
  <2>3. f[k] = TakeNext(s, c)
    BY <1>6
  <2>4. c.chunk \notin ChunksOf(s)
    <3> HIDE DEF s
    <3>1. c.chunk \notin ChunksOf(chosen)
      BY <1>1
    <3>2. ASSUME NEW i \in 1..(k - 1) PROVE cands[i].chunk # c.chunk
      <4>1. i \in DOMAIN cands /\ k \in DOMAIN cands /\ i # k
        BY <1>1
      <4> QED BY <4>1 DEF Distinct
    <3> QED BY <2>2, <3>1, <3>2
  <2> HIDE DEF s
  <2>5. CASE Len(s) < MaxChunks /\ WithinLimits(c, s)
    <3>1. f[k] = Append(s, c)
      BY <2>3, <2>5 DEF TakeNext
    <3>2. Append(s, c) \in Selections(C)
      <4> HIDE DEF c
      <4> QED BY <2>2, <2>4, <2>5, SelectionGrows
    <3>3. ChunksOf(Append(s, c)) \subseteq Seen(k)
      <4> DEFINE t == Append(s, c)
                 m == Len(s)
      <4>1. m \in Nat /\ DOMAIN t = 1..(m + 1) /\ t[m + 1] = c /\ DOMAIN s = 1..m /\ \A i \in 1..m : t[i] = s[i]
        <5>1. s \in Seq(Candidates(C))
          BY <2>2 DEF Selections
        <5> HIDE DEF c
        <5> QED BY <2>2, <5>1, AppendProperties, LenProperties
      <4> HIDE DEF t, m
      <4>2. ASSUME NEW i \in DOMAIN t PROVE t[i].chunk \in ChunksOf(s) \cup {c.chunk}
        <5>1. i = m + 1 \/ i \in 1..m
          BY <4>1
        <5> QED BY <4>1, <5>1 DEF ChunksOf
      <4>3. ChunksOf(t) \subseteq ChunksOf(s) \cup {c.chunk}
        BY <4>2 DEF ChunksOf
      <4>4. c.chunk \in Seen(k) /\ Seen(k - 1) \subseteq Seen(k)
        BY <1>1
      <4> HIDE DEF Seen
      <4> QED BY <2>2, <4>3, <4>4 DEF t
    <3> QED BY <2>1, <3>1, <3>2, <3>3
  <2>6. CASE ~(Len(s) < MaxChunks /\ WithinLimits(c, s))
    <3>1. f[k] = s
      BY <2>3, <2>6 DEF TakeNext
    <3>2. Seen(k - 1) \subseteq Seen(k)
      BY <1>1
    <3> HIDE DEF Seen
    <3> QED BY <2>1, <2>2, <3>1, <3>2
  <2> QED BY <2>5, <2>6
<1>9. \A k \in 0..n : f[k] \in B[k]
  <2> HIDE DEF n, B
  <2> QED BY <1>1, <1>7, <1>8, RunStays
<1>10. n \in 0..n
  BY <1>1
<1> QED BY <1>5, <1>9, <1>10

LEMMA SelectWithMmrIs ==
  ASSUME NEW C \in SUBSET Chunks, NEW cands \in Seq(Candidates(C)), NEW chosen \in Selections(C)
  PROVE  SelectWithMmr(cands, chosen) \in Selections(C)
<1> DEFINE n == Len(cands)
           A == Selections(C)
           base == chosen
           step == [p \in A \X (1..n) |-> TakeBest(cands, p[1])]
           Is(f) == f = [k \in 0..n |-> IF k = 0 THEN chosen ELSE TakeBest(cands, f[k - 1])]
<1>1. n \in Nat /\ DOMAIN cands = 1..n /\ \A i \in 1..n : cands[i] \in Candidates(C)
  BY LenProperties, ElementOfSeq
<1>0. ASSUME NEW s \in A PROVE TakeBest(cands, s) \in A
  <2>1. CASE Len(s) >= MaxChunks \/ Eligible(cands, s) = {}
    BY <2>1 DEF TakeBest
  <2>2. CASE ~(Len(s) >= MaxChunks \/ Eligible(cands, s) = {})
    <3> DEFINE i == Best(cands, s)
               c == cands[i]
    <3>1. s \in Seq(Candidates(C)) /\ Len(s) \in Nat /\ MaxChunks \in Nat
      BY ContextAssumption, LenProperties DEF Selections
    <3>2. i \in Eligible(cands, s)
      BY <2>2, <3>1, BestIs
    <3> HIDE DEF i
    <3>3. /\ c \in Candidates(C) /\ WithinLimits(c, s) /\ c.chunk \notin ChunksOf(s)
      BY <1>1, <3>2 DEF Eligible, ChunksOf
    <3>4. TakeBest(cands, s) = Append(s, c)
      BY <2>2 DEF TakeBest, i
    <3>5. Len(s) < MaxChunks
      BY <2>2, <3>1
    <3> HIDE DEF c
    <3> QED BY <3>3, <3>4, <3>5, SelectionGrows
  <2> QED BY <2>1, <2>2
<1>2. step \in [A \X (1..n) -> A] /\ base \in A
  BY <1>0
<1>3. \E f : Is(f)
  <2>1. PICK run : Follows(run, n, A, base, step)
    <3>1. n \in Nat
      BY <1>1
    <3> HIDE DEF step, A, n, base
    <3> QED BY <3>1, <1>2, RunExists
  <2>2. ASSUME NEW i \in 1..n PROVE run[i] = TakeBest(cands, run[i - 1])
    <3>1. run[i - 1] \in A /\ run[i] = step[<<run[i - 1], i>>]
      BY <2>1 DEF Follows
    <3> HIDE DEF A, n
    <3>2. <<run[i - 1], i>> \in A \X (1..n)
      BY <3>1
    <3> QED BY <3>1, <3>2
  <2>3. run[0] = chosen /\ run \in [0..n -> A]
    BY <2>1 DEF Follows
  <2> HIDE DEF A, n
  <2>4. Is(run)
    <3>1. \A k \in 0..n : run[k] = IF k = 0 THEN chosen ELSE TakeBest(cands, run[k - 1])
      <4>1. ASSUME NEW k \in 0..n, k # 0 PROVE k \in 1..n
        BY <1>1, <4>1
      <4> QED BY <4>1, <2>2, <2>3
    <3>2. run = [k \in 0..n |-> run[k]]
      BY <2>3
    <3> QED BY <3>1, <3>2
  <2> QED BY <2>4
<1> DEFINE f == CHOOSE f : Is(f)
<1>4. Is(f)
  <2> HIDE DEF Is
  <2> QED BY <1>3
<1>5. SelectWithMmr(cands, chosen) = f[n]
  BY Zenon DEF SelectWithMmr
<1> HIDE DEF f
<1>6. f[0] = chosen /\ \A i \in 1..n : f[i] = TakeBest(cands, f[i - 1])
  <2> HIDE DEF n
  <2>1. \A k \in 0..n : f[k] = IF k = 0 THEN chosen ELSE TakeBest(cands, f[k - 1])
    BY <1>4
  <2>2. f[0] = chosen
    <3>1. 0 \in 0..n
      BY <1>1
    <3> QED BY <2>1, <3>1
  <2>3. ASSUME NEW i \in 1..n PROVE f[i] = TakeBest(cands, f[i - 1])
    <3>1. i \in 0..n /\ i # 0
      BY <1>1
    <3> QED BY <2>1, <3>1
  <2> QED BY <2>2, <2>3
<1>7. \A k \in 0..n : f[k] \in A
  <2> DEFINE B == [k \in 0..n |-> A]
  <2>1. f[0] \in B[0]
    BY <1>1, <1>6
  <2>2. ASSUME NEW k \in 1..n, f[k - 1] \in B[k - 1] PROVE f[k] \in B[k]
    <3>1. k \in 0..n /\ k - 1 \in 0..n
      BY <1>1
    <3> HIDE DEF A
    <3> QED BY <1>0, <1>6, <2>2, <3>1
  <2>3. \A k \in 0..n : f[k] \in B[k]
    <3> HIDE DEF n, B
    <3> QED BY <1>1, <2>1, <2>2, RunStays
  <2> QED BY <2>3
<1>8. n \in 0..n
  BY <1>1
<1> HIDE DEF A
<1> QED BY <1>5, <1>7, <1>8 DEF A

LEMMA SeedsAre ==
  ASSUME NEW C, NEW cands \in Seq(Candidates(C)), Distinct(cands)
  PROVE  Seeds(cands) \in Seq(Candidates(C)) /\ Distinct(Seeds(cands))
<1> DEFINE P == Parts(cands)
           q == [i \in DOMAIN cands |-> cands[i].query]
           m == Cardinality(P)
           I(k) == {i \in DOMAIN cands : cands[i].query = Nth(P, k)}
           g == [k \in 1..m |-> Sublist(cands, I(k))[1]]
<1>1. Len(cands) \in Nat /\ DOMAIN cands = 1..Len(cands) /\ \A i \in DOMAIN cands : cands[i] \in Candidates(C)
  BY LenProperties, ElementOfSeq
<1>2. IsFiniteSet(P) /\ P \subseteq Int
  <2>1. P \subseteq {q[i] : i \in DOMAIN cands} /\ P \subseteq Int
    BY <1>1 DEF Parts, Candidates
  <2>2. IsFiniteSet(DOMAIN cands)
    BY <1>1, Interval
  <2> HIDE DEF q, P
  <2>3. IsFiniteSet({q[i] : i \in DOMAIN cands})
    BY <2>2, ImageIs
  <2> QED BY <2>1, <2>3, FS_Subset
<1>3. /\ m \in Nat /\ \A k \in 1..m : Nth(P, k) \in P
      /\ \A k, l \in 1..m : k < l => Nth(P, k) < Nth(P, l)
  <2> HIDE DEF P
  <2> QED BY <1>2, NthIs
<1>4. ASSUME NEW k \in 1..m
      PROVE  g[k] \in Candidates(C) /\ \E i \in DOMAIN cands : g[k] = cands[i] /\ cands[i].query = Nth(P, k)
  <2> DEFINE J == I(k)
             s == Sublist(cands, J)
  <2>1. PICK i \in DOMAIN cands : i \in J
    <3>1. Nth(P, k) \in P
      BY <1>3
    <3> QED BY <3>1 DEF Parts
  <2>2. J \in SUBSET DOMAIN cands
    OBVIOUS
  <2> HIDE DEF J
  <2>3. /\ IsFiniteSet(J) /\ Cardinality(J) \in Nat /\ \A l \in 1..Cardinality(J) : Nth(J, l) \in J /\ s[l] = cands[Nth(J, l)]
        /\ \E l \in 1..Cardinality(J) : Nth(J, l) = i
    BY <2>1, <2>2, SublistIs
  <2>4. 1 \in 1..Cardinality(J)
    BY <2>3
  <2>5. Nth(J, 1) \in J /\ s[1] = cands[Nth(J, 1)]
    BY <2>3, <2>4
  <2>6. g[k] = s[1]
    BY DEF J
  <2>7. Nth(J, 1) \in DOMAIN cands /\ cands[Nth(J, 1)].query = Nth(P, k)
    BY <2>5 DEF J
  <2> HIDE DEF g, s
  <2> QED BY <1>1, <2>5, <2>6, <2>7
<1> HIDE DEF g, q
<1>5. g \in Seq(Candidates(C)) /\ DOMAIN g = 1..m
  <2>1. g \in [1..m -> Candidates(C)]
    <3>1. g = [k \in 1..m |-> g[k]]
      BY DEF g
    <3> QED BY <1>4, <3>1
  <2> HIDE DEF P
  <2> QED BY <1>3, <2>1, ListOf
<1>6. ASSUME NEW k \in 1..m, NEW l \in 1..m, g[k].chunk = g[l].chunk PROVE k = l
  <2>1. PICK i \in DOMAIN cands : g[k] = cands[i] /\ cands[i].query = Nth(P, k)
    BY <1>4
  <2>2. PICK j \in DOMAIN cands : g[l] = cands[j] /\ cands[j].query = Nth(P, l)
    BY <1>4
  <2>3. i = j
    BY <1>6, <2>1, <2>2 DEF Distinct
  <2>4. Nth(P, k) = Nth(P, l)
    BY <2>1, <2>2, <2>3
  <2>5. Nth(P, k) \in Int
    BY <1>2, <1>3
  <2>6. ~(k < l) /\ ~(l < k)
    BY <1>3, <2>4, <2>5
  <2> HIDE DEF P
  <2> QED BY <1>3, <2>6
<1>7. Distinct(g)
  BY <1>5, <1>6 DEF Distinct
<1>8. <<>> \in Seq(Candidates(C)) /\ Distinct(<<>>)
  BY EmptySeq DEF Distinct
<1>9. Seeds(cands) = IF m <= 1 THEN <<>> ELSE g
  BY DEF Seeds, g
<1> QED BY <1>5, <1>7, <1>8, <1>9

LEMMA SelectItemsIs ==
  ASSUME NEW C \in SUBSET Chunks, NEW cands \in Seq(Candidates(C)), Distinct(cands)
  PROVE  SelectItems(cands) \in Selections(C)
<1> DEFINE seeds == SelectByRank(Seeds(cands), <<>>)
           I == {i \in DOMAIN cands : \A j \in DOMAIN seeds : seeds[j].chunk # cands[i].chunk}
           left == Sublist(cands, I)
<1>1. <<>> \in Selections(C) /\ ChunksOf(<<>>) = {}
  <2>1. <<>> \in Seq(Candidates(C)) /\ Len(<<>>) = 0 /\ DOMAIN <<>> = {}
    BY EmptySeq
  <2>2. 0 <= MaxChunks
    BY ContextAssumption
  <2>3. Distinct(<<>>) /\ AtMost(OfDocument, <<>>, MaxPerDocument) /\ AtMost(OfSection, <<>>, MaxPerSection)
    BY <2>1 DEF Distinct, AtMost
  <2> QED BY <2>1, <2>2, <2>3 DEF Selections, ChunksOf
<1>2. seeds \in Selections(C)
  <2> DEFINE first == Seeds(cands)
  <2>1. first \in Seq(Candidates(C)) /\ Distinct(first)
    BY SeedsAre
  <2> HIDE DEF first
  <2>2. SelectByRank(first, <<>>) \in Selections(C)
    BY <1>1, <2>1, SelectByRankIs
  <2> QED BY <2>2 DEF first
<1> HIDE DEF seeds
<1>3. left \in Seq(Candidates(C)) /\ Distinct(left)
  <2>1. I \in SUBSET DOMAIN cands /\ \A i, j \in I : cands[i].chunk = cands[j].chunk => i = j
    BY DEF Distinct
  <2> HIDE DEF I
  <2> QED BY <2>1, SublistIs, SublistDistinct
<1>4. \A i \in DOMAIN left : left[i].chunk \notin ChunksOf(seeds)
  <2>1. ASSUME NEW i \in DOMAIN left PROVE left[i].chunk \notin ChunksOf(seeds)
    <3>1. I \in SUBSET DOMAIN cands
      OBVIOUS
    <3>2. PICK k \in I : left[i] = cands[k]
      <4> HIDE DEF I
      <4>1. /\ Len(left) = Cardinality(I) /\ \A n \in 1..Cardinality(I) : Nth(I, n) \in I /\ left[n] = cands[Nth(I, n)]
        BY <3>1, SublistIs
      <4> HIDE DEF left
      <4>2. i \in 1..Cardinality(I)
        BY <1>3, <4>1, LenProperties
      <4> QED BY <4>1, <4>2
    <3> HIDE DEF left
    <3> QED BY <3>2 DEF ChunksOf
  <2> QED BY <2>1
<1> HIDE DEF left
<1>5. SelectByRank(left, seeds) \in Selections(C) /\ SelectWithMmr(left, seeds) \in Selections(C)
  BY <1>2, <1>3, <1>4, SelectByRankIs, SelectWithMmrIs
<1>6. SelectItems(cands) = Fill(left, seeds)
  BY DEF SelectItems, left, seeds
<1> QED BY <1>5, <1>6 DEF Fill

\* Tokens grow with characters, so that a cut that fits exists.
LEMMA TokensIs ==
  ASSUME NEW c \in Chunks
  PROVE  Tokens(c, 0) = 0 /\ \A n \in Nat : Tokens(c, n) \in Nat
<1> DEFINE k == CharsPerToken[c]
<1>1. k \in Nat \ {0}
  BY ContextAssumption DEF Chunks
<1> HIDE DEF k
<1>2. \A n \in Nat : Tokens(c, n) = (n + k - 1) \div k
  BY DEF Tokens, k
<1>3. ASSUME NEW n \in Nat PROVE (n + k - 1) \div k \in Nat
  <2>1. n + k - 1 \in Nat
    BY <1>1
  <2> DEFINE m == n + k - 1
  <2> HIDE DEF m
  <2>2. m \in Nat => m \div k \in Nat
    BY <1>1
  <2> QED BY <2>1, <2>2 DEF m
<1>4. (0 + k - 1) \div k = 0
  <2> DEFINE m == 0 + k - 1
             q == m \div k
  <2>1. m \in 0..(k - 1)
    BY <1>1
  <2> HIDE DEF m
  <2>2. q = 0
    BY <1>1, <2>1
  <2> QED BY <2>2 DEF m
<1> QED BY <1>2, <1>3, <1>4

LEMMA FitIs ==
  ASSUME NEW c \in Chunks, NEW acc, acc.chars \in Nat, acc.tokens \in Nat, NEW cs \in Int, NEW ts \in Int
  PROVE  /\ Fit(c, acc, cs, ts).n \in Nat /\ Fit(c, acc, cs, ts).cut \in BOOLEAN
         /\ Fit(c, acc, cs, ts).n # 0 =>
              /\ acc.chars + Fit(c, acc, cs, ts).n <= MaxChars
              /\ MaxTokens > 0 => acc.tokens + Tokens(c, Fit(c, acc, cs, ts).n) <= MaxTokens
<1> DEFINE room   == Least(MaxChars - acc.chars, cs)
           kept   == Least(Length[c], room)
           afford == Least(MaxTokens - acc.tokens, ts)
           N      == {n \in 0..kept : Tokens(c, n) <= afford}
           most   == Largest(N)
           fit    == Fit(c, acc, cs, ts)
<1>1. /\ Length[c] \in Nat /\ MaxChars \in Nat /\ MaxTokens \in Nat
      /\ room \in Int /\ kept \in Int /\ afford \in Int
      /\ room <= MaxChars - acc.chars /\ kept <= room /\ kept <= Length[c] /\ afford <= MaxTokens - acc.tokens
      /\ room > 0 => kept \in Nat
  BY ContextAssumption DEF Least, Chunks
<1>2. fit = IF room <= 0 THEN [n |-> 0, cut |-> TRUE]
            ELSE IF MaxTokens = 0 \/ kept = 0 THEN [n |-> kept, cut |-> kept < Length[c]]
            ELSE IF afford <= 0 THEN [n |-> 0, cut |-> TRUE]
            ELSE [n |-> most, cut |-> most < Length[c]]
  BY DEF Fit
<1> HIDE DEF fit, room, afford
<1>3. CASE room <= 0
  <2>1. fit = [n |-> 0, cut |-> TRUE]
    BY <1>2, <1>3
  <2>2. fit.n = 0 /\ fit.cut \in BOOLEAN
    BY <2>1
  <2> QED BY <2>2 DEF fit
<1>4. CASE ~(room <= 0) /\ (MaxTokens = 0 \/ kept = 0)
  <2> HIDE DEF kept
  <2>1. fit = [n |-> kept, cut |-> kept < Length[c]]
    BY <1>2, <1>4
  <2>2. fit.n = kept /\ fit.cut \in BOOLEAN
    BY <2>1
  <2>3. kept \in Nat
    BY <1>1, <1>4
  <2>4. acc.chars + kept <= MaxChars
    BY <1>1, <2>3
  <2>5. kept # 0 => ~(MaxTokens > 0)
    BY <1>1, <1>4
  <2> QED BY <2>2, <2>3, <2>4, <2>5 DEF fit
<1>5. CASE ~(room <= 0) /\ ~(MaxTokens = 0 \/ kept = 0) /\ afford <= 0
  <2>1. fit = [n |-> 0, cut |-> TRUE]
    BY <1>2, <1>5
  <2>2. fit.n = 0 /\ fit.cut \in BOOLEAN
    BY <2>1
  <2> QED BY <2>2 DEF fit
<1>6. CASE ~(room <= 0) /\ ~(MaxTokens = 0 \/ kept = 0) /\ ~(afford <= 0)
  <2> HIDE DEF kept
  <2>1. kept \in Nat /\ afford > 0
    BY <1>1, <1>6
  <2>2. IsFiniteSet(0..kept) /\ 0..kept \subseteq Int /\ 0 \in 0..kept
    BY <2>1, FS_Interval
  <2>3. N \subseteq 0..kept /\ N \subseteq Int /\ IsFiniteSet(N)
    <3>1. N \in SUBSET (0..kept)
      OBVIOUS
    <3> HIDE DEF N
    <3>2. IsFiniteSet(N)
      BY <2>2, <3>1, FS_Subset
    <3> QED BY <2>2, <3>1, <3>2
  <2>4. 0 \in N
    <3>1. Tokens(c, 0) = 0
      BY TokensIs
    <3>2. Tokens(c, 0) <= afford
      BY <2>1, <3>1, <1>1
    <3> QED BY <2>2, <3>2
  <2>5. most \in N
    <3> HIDE DEF N
    <3>1. N # {}
      BY <2>4
    <3> QED BY <2>3, <3>1, LargestIs
  <2>6. most \in 0..kept /\ Tokens(c, most) <= afford
    BY <2>5
  <2> HIDE DEF most
  <2>7. most \in Nat /\ most <= kept /\ Tokens(c, most) \in Nat
    BY <2>1, <2>6, TokensIs
  <2>8. fit = [n |-> most, cut |-> most < Length[c]]
    BY <1>2, <1>6
  <2>9. fit.n = most /\ fit.cut \in BOOLEAN
    BY <2>8
  <2>10. acc.chars + most <= MaxChars
    BY <1>1, <2>1, <2>7
  <2>11. acc.tokens + Tokens(c, most) <= MaxTokens
    BY <1>1, <2>6, <2>7
  <2> QED BY <2>7, <2>9, <2>10, <2>11 DEF fit
<1> QED BY <1>3, <1>4, <1>5, <1>6

Grants(C) == [cand : Candidates(C), chars : Nat]
Contexts(C) == [chunks : Seq(Grants(C)), chars : Nat, tokens : Nat, cut : BOOLEAN, done : BOOLEAN]
GrantsTo(acc, c, r) ==
  \/ r.chunks = acc.chunks /\ r.chars = acc.chars /\ r.tokens = acc.tokens
  \/ \E n \in Nat :
       /\ r.chunks = Append(acc.chunks, [cand |-> c, chars |-> n])
       /\ r.chars = acc.chars + n /\ r.tokens = acc.tokens + Tokens(c.chunk, n)
       /\ acc.chars + n <= MaxChars
       /\ MaxTokens > 0 => acc.tokens + Tokens(c.chunk, n) <= MaxTokens
LEMMA GrantIs ==
  ASSUME NEW C \in SUBSET Chunks, NEW acc \in Contexts(C), NEW c \in Candidates(C), NEW cs \in Int, NEW ts \in Int
  PROVE  /\ Grant(acc, c, cs, ts) \in Contexts(C)
         /\ GrantsTo(acc, c, Grant(acc, c, cs, ts))
<1> DEFINE fit == Fit(c.chunk, acc, cs, ts)
           e == [cand |-> c, chars |-> fit.n]
           next == [acc EXCEPT !.chunks = Append(@, e),
                               !.chars  = @ + fit.n,
                               !.tokens = @ + Tokens(c.chunk, fit.n)]
           r == Grant(acc, c, cs, ts)
<1>1. c.chunk \in Chunks /\ acc.chars \in Nat /\ acc.tokens \in Nat /\ acc.chunks \in Seq(Grants(C))
  BY DEF Candidates, Contexts
<1>2. /\ fit.n \in Nat /\ fit.cut \in BOOLEAN
      /\ fit.n # 0 => /\ acc.chars + fit.n <= MaxChars
                      /\ MaxTokens > 0 => acc.tokens + Tokens(c.chunk, fit.n) <= MaxTokens
  BY <1>1, FitIs
<1>3. Tokens(c.chunk, fit.n) \in Nat
  BY <1>1, <1>2, TokensIs
<1>4. r = IF acc.done THEN acc
          ELSE IF fit.n = 0
               THEN [acc EXCEPT !.cut = @ \/ fit.cut, !.done = Exhausted(acc)]
               ELSE [next EXCEPT !.cut = @ \/ fit.cut \/ Exhausted(next), !.done = Exhausted(next)]
  BY DEF Grant
<1>5. CASE acc.done
  <2>1. r = acc
    BY <1>4, <1>5
  <2> HIDE DEF r
  <2>2. r \in Contexts(C) /\ GrantsTo(acc, c, r)
    BY <2>1 DEF GrantsTo
  <2> QED BY <2>2 DEF r
<1> HIDE DEF fit, r
<1>6. CASE ~acc.done /\ fit.n = 0
  <2> DEFINE x == acc.cut \/ fit.cut
             y == Exhausted(acc)
  <2>1. r = [acc EXCEPT !.cut = x, !.done = y]
    BY <1>4, <1>6
  <2>2. x \in BOOLEAN /\ y \in BOOLEAN
    BY DEF Exhausted
  <2> HIDE DEF x, y
  <2>3. r \in Contexts(C) /\ r.chunks = acc.chunks /\ r.chars = acc.chars /\ r.tokens = acc.tokens
    BY <2>1, <2>2 DEF Contexts
  <2>4. GrantsTo(acc, c, r)
    BY <2>3 DEF GrantsTo
  <2> QED BY <2>3, <2>4 DEF r
<1>7. CASE ~acc.done /\ fit.n # 0
  <2> DEFINE x == acc.cut \/ fit.cut \/ Exhausted(next)
             y == Exhausted(next)
             more == Append(acc.chunks, e)
             chars == acc.chars + fit.n
             tokens == acc.tokens + Tokens(c.chunk, fit.n)
  <2>1. more \in Seq(Grants(C)) /\ chars \in Nat /\ tokens \in Nat
    <3>1. e \in Grants(C)
      BY <1>2 DEF Grants
    <3>2. more \in Seq(Grants(C))
      <4> HIDE DEF e
      <4> QED BY <1>1, <3>1, AppendProperties
    <3> QED BY <1>1, <1>2, <1>3, <3>2
  <2>2. next = [acc EXCEPT !.chunks = more, !.chars = chars, !.tokens = tokens]
    BY DEF Contexts
  <2>3. r = [next EXCEPT !.cut = next.cut \/ fit.cut \/ Exhausted(next), !.done = y]
    BY <1>4, <1>7
  <2> HIDE DEF more, chars, tokens, next
  <2>4. next \in Contexts(C) /\ next.cut = acc.cut /\ next.chunks = more /\ next.chars = chars /\ next.tokens = tokens
    BY <2>1, <2>2 DEF Contexts
  <2>5. r = [next EXCEPT !.cut = x, !.done = y]
    BY <2>3, <2>4
  <2>6. x \in BOOLEAN /\ y \in BOOLEAN
    BY DEF Exhausted
  <2> HIDE DEF x, y
  <2>7. r \in Contexts(C) /\ r.chunks = more /\ r.chars = chars /\ r.tokens = tokens
    BY <2>4, <2>5, <2>6 DEF Contexts
  <2>8. /\ r.chunks = Append(acc.chunks, [cand |-> c, chars |-> fit.n])
        /\ r.chars = acc.chars + fit.n /\ r.tokens = acc.tokens + Tokens(c.chunk, fit.n)
    BY <2>7 DEF more, chars, tokens
  <2>9. GrantsTo(acc, c, r)
    BY <2>8, <1>2, <1>7 DEF GrantsTo
  <2> QED BY <2>7, <2>9 DEF r
<1> QED BY <1>5, <1>6, <1>7

CharsOf(chunks)  == [i \in DOMAIN chunks |-> chunks[i].chars]
TokensOf(chunks) == [i \in DOMAIN chunks |-> Tokens(chunks[i].cand.chunk, chunks[i].chars)]
LEMMA AppendedList ==
  ASSUME NEW S, NEW s \in Seq(S), NEW x \in S, NEW t \in Seq(S), Len(t) = Len(s) + 1, t[Len(s) + 1] = x,
         \A i \in 1..Len(s) : t[i] = s[i]
  PROVE  t = Append(s, x)
<1> DEFINE u == Append(s, x)
<1>1. u \in Seq(S) /\ Len(u) = Len(s) + 1 /\ u[Len(s) + 1] = x /\ (\A i \in 1..Len(s) : u[i] = s[i]) /\ Len(s) \in Nat
  BY AppendProperties, LenProperties
<1> HIDE DEF u
<1>2. \A i \in 1..Len(t) : t[i] = u[i]
  <2>1. \A i \in 1..(Len(s) + 1) : i \in 1..Len(s) \/ i = Len(s) + 1
    BY <1>1
  <2> QED BY <1>1, <2>1
<1>3. t = u
  BY <1>1, <1>2, SeqEqual
<1> QED BY <1>3 DEF u

LEMMA GrantedIs ==
  ASSUME NEW C \in SUBSET Chunks, NEW chunks \in Seq(Grants(C))
  PROVE  /\ CharsOf(chunks) \in Seq(Nat) /\ Len(CharsOf(chunks)) = Len(chunks)
         /\ TokensOf(chunks) \in Seq(Nat) /\ Len(TokensOf(chunks)) = Len(chunks)
         /\ \A i \in 1..Len(chunks) : /\ CharsOf(chunks)[i] = chunks[i].chars
                                     /\ TokensOf(chunks)[i] = Tokens(chunks[i].cand.chunk, chunks[i].chars)
<1> DEFINE n == Len(chunks)
<1>1. n \in Nat /\ DOMAIN chunks = 1..n /\ \A i \in 1..n : chunks[i] \in Grants(C)
  BY LenProperties, ElementOfSeq
<1> HIDE DEF n
<1>2. \A i \in 1..n : chunks[i].chars \in Nat /\ chunks[i].cand.chunk \in Chunks
  BY <1>1 DEF Grants, Candidates
<1>3. \A i \in 1..n : Tokens(chunks[i].cand.chunk, chunks[i].chars) \in Nat
  BY <1>2, TokensIs
<1>4. CharsOf(chunks) \in [1..n -> Nat] /\ TokensOf(chunks) \in [1..n -> Nat]
  BY <1>1, <1>2, <1>3 DEF CharsOf, TokensOf
<1>5. CharsOf(chunks) \in Seq(Nat) /\ Len(CharsOf(chunks)) = n /\ TokensOf(chunks) \in Seq(Nat) /\ Len(TokensOf(chunks)) = n
  BY <1>1, <1>4, ListOf
<1>6. \A i \in 1..n : /\ CharsOf(chunks)[i] = chunks[i].chars
                      /\ TokensOf(chunks)[i] = Tokens(chunks[i].cand.chunk, chunks[i].chars)
  BY <1>1 DEF CharsOf, TokensOf
<1> QED BY <1>5, <1>6 DEF n

LEMMA GrantAdds ==
  ASSUME NEW C \in SUBSET Chunks, NEW chunks \in Seq(Grants(C)), NEW e \in Grants(C)
  PROVE  /\ Total(CharsOf(Append(chunks, e))) = Total(CharsOf(chunks)) + e.chars
         /\ Total(TokensOf(Append(chunks, e))) = Total(TokensOf(chunks)) + Tokens(e.cand.chunk, e.chars)
<1> DEFINE more == Append(chunks, e)
           n == Len(chunks)
<1>1. /\ n \in Nat /\ more \in Seq(Grants(C)) /\ Len(more) = n + 1 /\ more[n + 1] = e
      /\ \A i \in 1..n : more[i] = chunks[i]
  BY AppendProperties, LenProperties
<1> HIDE DEF more, n
<1>2. /\ CharsOf(chunks) \in Seq(Nat) /\ Len(CharsOf(chunks)) = n
      /\ TokensOf(chunks) \in Seq(Nat) /\ Len(TokensOf(chunks)) = n
      /\ \A i \in 1..n : /\ CharsOf(chunks)[i] = chunks[i].chars
                         /\ TokensOf(chunks)[i] = Tokens(chunks[i].cand.chunk, chunks[i].chars)
  BY GrantedIs DEF n
<1>3. /\ CharsOf(more) \in Seq(Nat) /\ Len(CharsOf(more)) = n + 1
      /\ TokensOf(more) \in Seq(Nat) /\ Len(TokensOf(more)) = n + 1
      /\ \A i \in 1..(n + 1) : /\ CharsOf(more)[i] = more[i].chars
                               /\ TokensOf(more)[i] = Tokens(more[i].cand.chunk, more[i].chars)
  BY <1>1, GrantedIs
<1>4. n + 1 \in 1..(n + 1) /\ \A i \in 1..n : i \in 1..(n + 1)
  BY <1>1
<1>5. e.chars \in Nat /\ Tokens(e.cand.chunk, e.chars) \in Nat
  <2>1. e.chars \in Nat /\ e.cand.chunk \in Chunks
    BY DEF Grants, Candidates
  <2> QED BY <2>1, TokensIs
<1>6. CharsOf(more) = Append(CharsOf(chunks), e.chars)
  <2> DEFINE a == CharsOf(chunks)
             b == CharsOf(more)
  <2>1. a \in Seq(Nat) /\ b \in Seq(Nat) /\ Len(b) = Len(a) + 1 /\ b[Len(a) + 1] = e.chars
    BY <1>1, <1>2, <1>3, <1>4
  <2>2. \A i \in 1..Len(a) : b[i] = a[i]
    BY <1>1, <1>2, <1>3, <1>4
  <2> HIDE DEF a, b
  <2>3. b = Append(a, e.chars)
    BY <1>5, <2>1, <2>2, AppendedList
  <2> QED BY <2>3 DEF a, b
<1>7. TokensOf(more) = Append(TokensOf(chunks), Tokens(e.cand.chunk, e.chars))
  <2> DEFINE a == TokensOf(chunks)
             b == TokensOf(more)
             x == Tokens(e.cand.chunk, e.chars)
  <2>1. a \in Seq(Nat) /\ b \in Seq(Nat) /\ Len(b) = Len(a) + 1 /\ b[Len(a) + 1] = x
    BY <1>1, <1>2, <1>3, <1>4
  <2>2. \A i \in 1..Len(a) : b[i] = a[i]
    BY <1>1, <1>2, <1>3, <1>4
  <2>3. x \in Nat
    BY <1>5
  <2> HIDE DEF a, b, x
  <2>4. b = Append(a, x)
    BY <2>1, <2>2, <2>3, AppendedList
  <2> QED BY <2>4 DEF a, b, x
<1> QED BY <1>2, <1>5, <1>6, <1>7, TotalIs DEF more

\* A prompt keeps its budget and takes each of the first k that were chosen at most once.
Spends(acc) ==
  /\ acc.chars <= MaxChars /\ Total(CharsOf(acc.chunks)) = acc.chars
  /\ MaxTokens > 0 => acc.tokens <= MaxTokens
  /\ Total(TokensOf(acc.chunks)) = acc.tokens
Draws(chunks, chosen, k) ==
  /\ Len(chunks) <= k
  /\ \A i \in DOMAIN chunks : \E j \in 1..k : chunks[i].cand = chosen[j]
  /\ \A i, j \in DOMAIN chunks : chunks[i].cand.chunk = chunks[j].cand.chunk => i = j
Prompts(C, chosen, k) == {acc \in Contexts(C) : Spends(acc) /\ Draws(acc.chunks, chosen, k)}

LEMMA PromptGrows ==
  ASSUME NEW C \in SUBSET Chunks, NEW chosen \in Seq(Candidates(C)), Distinct(chosen), NEW k \in 1..Len(chosen),
         NEW acc \in Prompts(C, chosen, k - 1), NEW cs \in Int, NEW ts \in Int
  PROVE  Grant(acc, chosen[k], cs, ts) \in Prompts(C, chosen, k)
<1> DEFINE c == chosen[k]
           r == Grant(acc, c, cs, ts)
           s == acc.chunks
           m == Len(s)
<1>1. /\ c \in Candidates(C) /\ acc \in Contexts(C) /\ Spends(acc) /\ Draws(s, chosen, k - 1) /\ k \in Nat
      /\ s \in Seq(Grants(C)) /\ m \in Nat /\ DOMAIN s = 1..m /\ DOMAIN chosen = 1..Len(chosen)
  <2>1. acc \in Contexts(C) /\ Spends(acc) /\ Draws(s, chosen, k - 1)
    BY DEF Prompts
  <2>2. s \in Seq(Grants(C))
    BY <2>1 DEF Contexts
  <2>3. c \in Candidates(C) /\ k \in Nat /\ DOMAIN chosen = 1..Len(chosen)
    BY LenProperties, ElementOfSeq
  <2> HIDE DEF s, c
  <2> QED BY <2>1, <2>2, <2>3, LenProperties
<1> HIDE DEF c
<1>2. r \in Contexts(C) /\ GrantsTo(acc, c, r)
  BY <1>1, GrantIs
<1> HIDE DEF r
<1>3. ASSUME r.chunks = s, r.chars = acc.chars, r.tokens = acc.tokens PROVE r \in Prompts(C, chosen, k)
  <2>1. Spends(r)
    BY <1>1, <1>3 DEF Spends
  <2>2. Draws(s, chosen, k)
    <3>1. \A j \in 1..(k - 1) : j \in 1..k
      BY <1>1
    <3> HIDE DEF s
    <3>2. m <= k
      BY <1>1 DEF Draws
    <3> QED BY <1>1, <3>1, <3>2 DEF Draws
  <2> QED BY <1>2, <1>3, <2>1, <2>2 DEF Prompts
<1>4. ASSUME NEW n \in Nat,
             r.chunks = Append(s, [cand |-> c, chars |-> n]),
             r.chars = acc.chars + n, r.tokens = acc.tokens + Tokens(c.chunk, n),
             acc.chars + n <= MaxChars,
             MaxTokens > 0 => acc.tokens + Tokens(c.chunk, n) <= MaxTokens
      PROVE  r \in Prompts(C, chosen, k)
  <2> DEFINE e == [cand |-> c, chars |-> n]
             t == Append(s, e)
  <2>1. e \in Grants(C) /\ e.cand = c /\ e.chars = n
    BY <1>1 DEF Grants
  <2> HIDE DEF e
  <2>2. /\ Total(CharsOf(t)) = Total(CharsOf(s)) + n
        /\ Total(TokensOf(t)) = Total(TokensOf(s)) + Tokens(c.chunk, n)
    BY <1>1, <2>1, GrantAdds
  <2>3. r.chunks = t
    BY <1>4 DEF e
  <2>4. /\ DOMAIN t = 1..(m + 1) /\ Len(t) = m + 1 /\ t[m + 1] = e /\ \A i \in 1..m : t[i] = s[i]
    BY <1>1, <2>1, AppendProperties, LenProperties
  <2> HIDE DEF t
  <2>5. Spends(r)
    BY <1>1, <1>4, <2>2, <2>3 DEF Spends
  <2> HIDE DEF s, m
  <2>6. \A i \in 1..(m + 1) : i \in 1..m \/ i = m + 1
    BY <1>1
  <2>7. \A i \in 1..m : s[i].cand.chunk # c.chunk
    <3>1. ASSUME NEW i \in 1..m PROVE s[i].cand.chunk # c.chunk
      <4>1. PICK j \in 1..(k - 1) : s[i].cand = chosen[j]
        BY <1>1 DEF Draws
      <4>2. j \in DOMAIN chosen /\ k \in DOMAIN chosen /\ j # k
        BY <1>1, LenProperties
      <4> QED BY <4>1, <4>2 DEF Distinct, c
    <3> QED BY <3>1
  <2>8. ASSUME NEW i \in DOMAIN t PROVE \E j \in 1..k : t[i].cand = chosen[j]
    <3>1. CASE i \in 1..m
      <4>1. PICK j \in 1..(k - 1) : s[i].cand = chosen[j]
        BY <1>1, <3>1 DEF Draws
      <4>2. j \in 1..k
        BY <1>1
      <4> QED BY <2>4, <3>1, <4>1, <4>2
    <3>2. CASE i = m + 1
      <4>1. k \in 1..k
        BY <1>1
      <4> QED BY <2>1, <2>4, <3>2, <4>1 DEF c
    <3> QED BY <2>4, <2>6, <3>1, <3>2
  <2>9. ASSUME NEW i \in DOMAIN t, NEW j \in DOMAIN t, t[i].cand.chunk = t[j].cand.chunk PROVE i = j
    BY <1>1, <2>1, <2>4, <2>6, <2>7, <2>9 DEF Draws
  <2>10. Len(t) <= k
    <3>1. m <= k - 1
      BY <1>1 DEF Draws, m
    <3> QED BY <1>1, <2>4, <3>1
  <2>11. Draws(t, chosen, k)
    BY <2>8, <2>9, <2>10 DEF Draws
  <2> QED BY <1>2, <2>3, <2>5, <2>11 DEF Prompts
<1>5. r \in Prompts(C, chosen, k)
  BY <1>2, <1>3, <1>4 DEF GrantsTo
<1> QED BY <1>5 DEF r, c

LEMMA BuildContextIs ==
  ASSUME NEW C \in SUBSET Chunks, NEW cands \in Seq(Candidates(C)), Distinct(cands)
  PROVE  LET chosen == SelectItems(cands)
         IN  chosen \in Selections(C) /\ BuildContext(cands) \in Prompts(C, chosen, Len(chosen))
<1> DEFINE chosen == SelectItems(cands)
           n == Len(chosen)
           cs == Split(MaxChars, chosen)
           ts == Split(MaxTokens, chosen)
           A == Contexts(C)
           base == NoContext
           step == [p \in A \X (1..n) |-> Grant(p[1], chosen[p[2]], cs, ts)]
           Is(f) == f = [k \in 0..n |-> IF k = 0 THEN NoContext ELSE Grant(f[k - 1], chosen[k], cs, ts)]
<1>a. chosen \in Selections(C)
  BY SelectItemsIs
<1> HIDE DEF chosen
<1>b. chosen \in Seq(Candidates(C)) /\ Distinct(chosen)
  BY <1>a DEF Selections
<1>1. n \in Nat /\ \A i \in 1..n : chosen[i] \in Candidates(C)
  BY <1>b, LenProperties, ElementOfSeq
<1>c. cs \in Int /\ ts \in Int
  <2>1. \A b \in Nat : Split(b, chosen) \in Int
    <3>1. ASSUME NEW b \in Nat PROVE Split(b, chosen) \in Int
      <4>1. CASE Cardinality(Parts(chosen)) <= 1
        BY <4>1 DEF Split
      <4>2. CASE ~(Cardinality(Parts(chosen)) <= 1)
        <5>1. n # 0
          <6>1. ASSUME n = 0 PROVE FALSE
            <7>1. Parts(chosen) = {}
              BY <1>b, <6>1, LenProperties DEF Parts
            <7> QED BY <4>2, <7>1, FS_EmptySet
          <6> QED BY <6>1
        <5>2. b \div n \in Int
          <6> HIDE DEF n
          <6> QED BY <1>1, <5>1
        <5> QED BY <4>2, <5>2 DEF Split
      <4> QED BY <4>1, <4>2
    <3> QED BY <3>1
  <2> QED BY <2>1, ContextAssumption
<1>d. NoContext \in Contexts(C) /\ NoContext \in Prompts(C, chosen, 0)
  <2> DEFINE empty == <<>>
  <2>1. empty \in Seq(Grants(C)) /\ empty \in Seq(Nat) /\ Len(empty) = 0 /\ DOMAIN empty = {}
    BY EmptySeq
  <2>2. CharsOf(empty) = empty /\ TokensOf(empty) = empty
    BY <2>1 DEF CharsOf, TokensOf
  <2>3. NoContext \in Contexts(C) /\ NoContext.chunks = empty /\ NoContext.chars = 0 /\ NoContext.tokens = 0
    BY <2>1 DEF NoContext, Contexts
  <2>4. MaxChars \in Nat /\ MaxTokens \in Nat
    BY ContextAssumption
  <2> HIDE DEF empty
  <2>5. Total(empty) = 0
    BY TotalIs DEF empty
  <2>6. Spends(NoContext)
    BY <2>2, <2>3, <2>4, <2>5 DEF Spends
  <2>7. Draws(empty, chosen, 0)
    BY <2>1 DEF Draws
  <2> QED BY <2>3, <2>6, <2>7 DEF Prompts
<1> HIDE DEF cs, ts
<1>2. step \in [A \X (1..n) -> A] /\ base \in A
  <2>1. ASSUME NEW p \in A \X (1..n) PROVE Grant(p[1], chosen[p[2]], cs, ts) \in A
    BY <1>1, <1>c, GrantIs
  <2> QED BY <2>1, <1>d
<1>3. \E f : Is(f)
  <2>1. PICK run : Follows(run, n, A, base, step)
    <3>1. n \in Nat
      BY <1>1
    <3> HIDE DEF step, A, n, base
    <3> QED BY <3>1, <1>2, RunExists
  <2>2. ASSUME NEW i \in 1..n PROVE run[i] = Grant(run[i - 1], chosen[i], cs, ts)
    <3>1. run[i - 1] \in A /\ run[i] = step[<<run[i - 1], i>>]
      BY <2>1 DEF Follows
    <3> HIDE DEF A, n
    <3>2. <<run[i - 1], i>> \in A \X (1..n)
      BY <3>1
    <3> QED BY <3>1, <3>2
  <2>3. run[0] = NoContext /\ run \in [0..n -> A]
    BY <2>1 DEF Follows
  <2> HIDE DEF A, n
  <2>4. Is(run)
    <3>1. \A k \in 0..n : run[k] = IF k = 0 THEN NoContext ELSE Grant(run[k - 1], chosen[k], cs, ts)
      <4>1. ASSUME NEW k \in 0..n, k # 0 PROVE k \in 1..n
        BY <1>1, <4>1
      <4> QED BY <4>1, <2>2, <2>3
    <3>2. run = [k \in 0..n |-> run[k]]
      BY <2>3
    <3> QED BY <3>1, <3>2
  <2> QED BY <2>4
<1> DEFINE f == CHOOSE f : Is(f)
<1>4. Is(f)
  <2> HIDE DEF Is
  <2> QED BY <1>3
<1>5. BuildContext(cands) = f[n]
  BY Zenon DEF BuildContext, chosen, cs, ts
<1> HIDE DEF f
<1>6. f[0] = NoContext /\ \A i \in 1..n : f[i] = Grant(f[i - 1], chosen[i], cs, ts)
  <2> HIDE DEF n
  <2>1. \A k \in 0..n : f[k] = IF k = 0 THEN NoContext ELSE Grant(f[k - 1], chosen[k], cs, ts)
    BY <1>4
  <2>2. f[0] = NoContext
    <3>1. 0 \in 0..n
      BY <1>1
    <3> QED BY <2>1, <3>1
  <2>3. ASSUME NEW i \in 1..n PROVE f[i] = Grant(f[i - 1], chosen[i], cs, ts)
    <3>1. i \in 0..n /\ i # 0
      BY <1>1
    <3> QED BY <2>1, <3>1
  <2> QED BY <2>2, <2>3
<1>7. \A k \in 0..n : f[k] \in Prompts(C, chosen, k)
  <2> DEFINE B == [k \in 0..n |-> Prompts(C, chosen, k)]
  <2>1. f[0] \in B[0]
    BY <1>1, <1>6, <1>d
  <2>2. ASSUME NEW k \in 1..n, f[k - 1] \in B[k - 1] PROVE f[k] \in B[k]
    <3>1. k \in 0..n /\ k - 1 \in 0..n
      BY <1>1
    <3>2. f[k - 1] \in Prompts(C, chosen, k - 1)
      BY <2>2, <3>1
    <3>3. Grant(f[k - 1], chosen[k], cs, ts) \in Prompts(C, chosen, k)
      BY <1>b, <1>c, <3>2, PromptGrows
    <3> QED BY <1>6, <3>1, <3>3
  <2>3. \A k \in 0..n : f[k] \in B[k]
    <3> HIDE DEF n, B
    <3> QED BY <1>1, <2>1, <2>2, RunStays
  <2> QED BY <2>3
<1>8. n \in 0..n
  BY <1>1
<1>9. BuildContext(cands) \in Prompts(C, chosen, n)
  BY <1>5, <1>7, <1>8
<1> QED BY <1>a, <1>9 DEF chosen

\* What is at most so often in a list is so in a part of it.
LEMMA AtMostOfSome ==
  ASSUME NEW S, NEW chosen \in Seq(S), NEW u \in Seq(S), NEW E, NEW max \in Nat, AtMost(E, chosen, max),
         \A i \in DOMAIN u : \E j \in DOMAIN chosen : u[i] = chosen[j],
         \A i, j \in DOMAIN u : u[i] = u[j] => i = j
  PROVE  AtMost(E, u, max)
<1> SUFFICES ASSUME NEW i \in DOMAIN u PROVE Cardinality(Alike(E, u, u[i])) <= max
  BY DEF AtMost
<1> DEFINE h == [j \in DOMAIN u |-> CHOOSE q \in DOMAIN chosen : u[j] = chosen[q]]
           X == Alike(E, u, u[i])
<1>1. \A j \in DOMAIN u : h[j] \in DOMAIN chosen /\ u[j] = chosen[h[j]]
  OBVIOUS
<1> HIDE DEF h
<1> DEFINE Y == Alike(E, chosen, u[i])
           g == [j \in X |-> h[j]]
<1>2. IsFiniteSet(Y) /\ Cardinality(Y) \in Nat
  <2>1. Y \in SUBSET (1..Len(chosen)) /\ Len(chosen) \in Nat
    BY LenProperties DEF Alike
  <2> QED BY <2>1, Interval, FS_Subset, FS_CardinalityType
<1>3. g \in Injection(X, Y)
  <2>1. g \in [X -> Y]
    BY <1>1 DEF Alike
  <2>2. ASSUME NEW a \in X, NEW b \in X, g[a] = g[b] PROVE a = b
    <3>1. a \in DOMAIN u /\ b \in DOMAIN u /\ h[a] = h[b]
      BY <2>2 DEF Alike
    <3>2. u[a] = u[b]
      BY <1>1, <3>1
    <3> QED BY <3>1, <3>2
  <2> QED BY <2>1, <2>2 DEF Injection, IsInjective
<1> HIDE DEF g, X
<1>4. IsFiniteSet(X) /\ Cardinality(X) <= Cardinality(Y)
  <2> HIDE DEF Y
  <2> QED BY <1>2, <1>3, FS_Injection
<1>5. Cardinality(Y) <= max
  BY <1>1 DEF AtMost
<1>6. Cardinality(X) \in Nat
  BY <1>4, FS_CardinalityType
<1> HIDE DEF Y
<1> QED BY <1>2, <1>4, <1>5, <1>6 DEF X

LEMMA PromptKeepsLimits ==
  ASSUME NEW chosen \in Selections(Chunks), context \in Prompts(Chunks, chosen, Len(chosen))
  PROVE  PromptWithinLimits
<1> DEFINE s == context.chunks
           m == Len(s)
           n == Len(chosen)
           u == Used
<1>1. /\ chosen \in Seq(Candidates(Chunks)) /\ n <= MaxChunks /\ n \in Nat /\ DOMAIN chosen = 1..n
      /\ AtMost(OfDocument, chosen, MaxPerDocument) /\ AtMost(OfSection, chosen, MaxPerSection)
  BY LenProperties DEF Selections
<1>2. /\ s \in Seq(Grants(Chunks)) /\ Spends(context) /\ Draws(s, chosen, n)
      /\ m \in Nat /\ DOMAIN s = 1..m /\ \A i \in 1..m : s[i] \in Grants(Chunks)
  <2>1. s \in Seq(Grants(Chunks)) /\ Spends(context) /\ Draws(s, chosen, n)
    BY DEF Prompts, Contexts
  <2> QED BY <2>1, LenProperties, ElementOfSeq
<1>3. /\ u \in Seq(Candidates(Chunks)) /\ Len(u) = m /\ DOMAIN u = 1..m /\ \A i \in 1..m : u[i] = s[i].cand
  <2>1. \A i \in 1..m : s[i].cand \in Candidates(Chunks)
    BY <1>2 DEF Grants
  <2> HIDE DEF m
  <2>2. u = [i \in 1..m |-> s[i].cand]
    BY <1>2 DEF Used
  <2> HIDE DEF s, u
  <2>3. u \in [1..m -> Candidates(Chunks)] /\ \A i \in 1..m : u[i] = s[i].cand
    BY <2>1, <2>2
  <2> QED BY <1>2, <2>3, ListOf
<1> HIDE DEF u
<1>4. Len(u) <= MaxChunks
  <2>1. m <= n /\ MaxChunks \in Nat
    BY <1>2, ContextAssumption DEF Draws
  <2> HIDE DEF m, n
  <2> QED BY <1>1, <1>2, <1>3, <2>1
<1>5. \A i, j \in DOMAIN u : u[i].chunk = u[j].chunk => i = j
  BY <1>2, <1>3 DEF Draws
<1>6. Once(u)
  <2> DEFINE f == [i \in 1..m |-> u[i].chunk]
  <2>1. ChunksOf(u) = {f[i] : i \in 1..m}
    BY <1>3 DEF ChunksOf
  <2>2. \A i, j \in 1..m : f[i] = f[j] => i = j
    BY <1>3, <1>5
  <2>3. IsFiniteSet(1..m) /\ Cardinality(1..m) = m
    BY <1>2, Interval
  <2> DEFINE P == 1..m
  <2>4. IsFiniteSet(P) /\ \A i, j \in P : f[i] = f[j] => i = j
    BY <2>2, <2>3
  <2> HIDE DEF f, m, P
  <2>5. Cardinality({f[i] : i \in P}) = Cardinality(P)
    BY <2>4, ImageIs
  <2> QED BY <1>3, <2>1, <2>3, <2>5 DEF Once, P
<1>7. AtMost(OfDocument, u, MaxPerDocument) /\ AtMost(OfSection, u, MaxPerSection)
  <2>1. \A i \in DOMAIN u : \E j \in DOMAIN chosen : u[i] = chosen[j]
    <3>1. \A i \in 1..m : \E j \in 1..n : s[i].cand = chosen[j]
      BY <1>2 DEF Draws
    <3> HIDE DEF m, n, s
    <3> QED BY <1>1, <1>3, <3>1
  <2>2. \A i, j \in DOMAIN u : u[i] = u[j] => i = j
    BY <1>5
  <2>3. MaxPerDocument \in Nat /\ MaxPerSection \in Nat
    BY ContextAssumption
  <2>4. ASSUME NEW E, NEW max \in Nat, AtMost(E, chosen, max) PROVE AtMost(E, u, max)
    BY <1>1, <1>3, <2>1, <2>2, <2>4, AtMostOfSome
  <2> QED BY <1>1, <2>3, <2>4
<1>8. ASSUME NEW i \in DOMAIN u
      PROVE  /\ Cardinality({j \in DOMAIN u : SameDocument(u[i], u[j])}) <= MaxPerDocument
             /\ Cardinality({j \in DOMAIN u : SameSection(u[i], u[j])}) <= MaxPerSection
  <2>1. \A j \in DOMAIN u : u[j] \in Candidates(Chunks)
    BY <1>3, ElementOfSeq
  <2>2. /\ Alike(OfDocument, u, u[i]) = {j \in DOMAIN u : SameDocument(u[i], u[j])}
        /\ Alike(OfSection, u, u[i]) = {j \in DOMAIN u : SameSection(u[i], u[j])}
    BY <2>1, Pairs DEF Alike
  <2> QED BY <1>7, <2>2 DEF AtMost
<1>9. /\ Total(CharsOf(s)) <= MaxChars
      /\ MaxTokens > 0 => Total(TokensOf(s)) <= MaxTokens
  BY <1>2 DEF Spends
<1>10. /\ [i \in DOMAIN u |-> context.chunks[i].chars] = CharsOf(s)
       /\ [i \in DOMAIN u |-> Tokens(u[i].chunk, context.chunks[i].chars)] = TokensOf(s)
  BY <1>2, <1>3 DEF CharsOf, TokensOf
<1>11. /\ Total([i \in DOMAIN u |-> context.chunks[i].chars]) <= MaxChars
       /\ MaxTokens > 0 => Total([i \in DOMAIN u |-> Tokens(u[i].chunk, context.chunks[i].chars)]) <= MaxTokens
  <2>1. Total([i \in DOMAIN u |-> context.chunks[i].chars]) = Total(CharsOf(s))
    BY <1>10
  <2>2. Total([i \in DOMAIN u |-> Tokens(u[i].chunk, context.chunks[i].chars)]) = Total(TokensOf(s))
    BY <1>10
  <2> QED BY <1>9, <2>1, <2>2
<1>12. u = Used
  BY DEF u
<1> QED BY <1>4, <1>6, <1>8, <1>11, <1>12 DEF PromptWithinLimits

-----------------------------------------------------------------------------
(* The invariant of a question: what it searches for, whose chunks it      *)
(* holds at every stage, and what it has said.                             *)

Searched ==
  /\ queries \in Seq(Query) /\ (stage # "rewrite" => queries # <<>>)
  /\ fused \in Seq(Candidates(Chunks)) /\ offered \in Seq(Candidates(Chunks))

HoldsOnly(P) ==
  /\ admitted \in Seq(Candidates(P)) /\ reranked.list \in Seq(Candidates(P))
  /\ primary \in Seq(Candidates(P)) /\ expanded \in Seq(Candidates(P)) /\ read \in Seq(Candidates(P))
  /\ context \in Contexts(P)

Passing ==
  /\ passed \subseteq Chunks /\ (stage \in {"rewrite", "recall", "gate"} => passed = {})
  /\ HoldsOnly(passed) /\ (stage = "build" => Distinct(expanded))

Prompted == \E chosen \in Selections(Chunks) : context \in Prompts(Chunks, chosen, Len(chosen))

Answered ==
  /\ stage # "done" => answer.spoken = "none"
  /\ answer.spoken = "model" => (answer.refs \subseteq Cited \/ answer.malformed)
  /\ answer.spoken = "nothing" => (~answer.text /\ answer.refs \subseteq Cited)
  /\ answer.spoken = "refusal" => reasons # {}

RankingInv == Searched /\ Passing /\ Prompted /\ Answered

LEMMA EmptyPrompt ==
  \A P \in SUBSET Chunks : NoContext \in Contexts(P) /\ \E chosen \in Selections(Chunks) : NoContext \in Prompts(Chunks, chosen, Len(chosen))
<1> DEFINE empty == <<>>
<1>1. \A S : empty \in Seq(S) /\ Len(empty) = 0 /\ DOMAIN empty = {}
  BY EmptySeq
<1>2. empty \in Selections(Chunks)
  <2>1. 0 <= MaxChunks
    BY ContextAssumption
  <2>2. Distinct(empty) /\ AtMost(OfDocument, empty, MaxPerDocument) /\ AtMost(OfSection, empty, MaxPerSection)
    BY <1>1 DEF Distinct, AtMost
  <2> HIDE DEF empty
  <2> QED BY <1>1, <2>1, <2>2 DEF Selections
<1>3. \A P : NoContext \in Contexts(P)
  BY <1>1 DEF NoContext, Contexts
<1>4. NoContext.chunks = empty /\ NoContext.chars = 0 /\ NoContext.tokens = 0
  BY DEF NoContext
<1>5. CharsOf(empty) = empty /\ TokensOf(empty) = empty
  BY <1>1 DEF CharsOf, TokensOf
<1>6. Total(empty) = 0
  BY TotalIs
<1> HIDE DEF empty
<1>7. Spends(NoContext)
  BY <1>4, <1>5, <1>6, ContextAssumption DEF Spends
<1>8. Draws(empty, empty, Len(empty))
  BY <1>1 DEF Draws
<1>9. NoContext \in Prompts(Chunks, empty, Len(empty))
  BY <1>3, <1>4, <1>7, <1>8 DEF Prompts
<1> QED BY <1>2, <1>3, <1>9

LEMMA HoldsMore ==
  ASSUME NEW P, NEW D, P \subseteq D, HoldsOnly(P) PROVE HoldsOnly(D)
<1>1. Seq(Candidates(P)) \subseteq Seq(Candidates(D)) /\ Candidates(P) \subseteq Candidates(D)
  BY Widens
<1>2. Contexts(P) \subseteq Contexts(D)
  <2>1. Grants(P) \subseteq Grants(D)
    BY <1>1 DEF Grants
  <2> HIDE DEF Grants
  <2>2. ASSUME NEW s \in Seq(Grants(P)) PROVE s \in Seq(Grants(D))
    <3>1. Len(s) \in Nat /\ s \in [1..Len(s) -> Grants(D)]
      BY <2>1, SeqDef, LenProperties
    <3> QED BY <3>1, SeqDef
  <2>3. Seq(Grants(P)) \subseteq Seq(Grants(D))
    BY <2>2
  <2> QED BY <2>3 DEF Contexts
<1> QED BY <1>1, <1>2 DEF HoldsOnly

LEMMA ChunksHeld ==
  ASSUME NEW S, NEW list \in Seq(Candidates(S))
  PROVE  /\ ChunksOf(list) \subseteq S
         /\ list \in Seq(Candidates(ChunksOf(list)))
<1>1. Len(list) \in Nat /\ DOMAIN list = 1..Len(list) /\ \A i \in DOMAIN list : list[i] \in Candidates(S)
  BY LenProperties, ElementOfSeq
<1>2. ChunksOf(list) \subseteq S
  BY <1>1 DEF ChunksOf, Candidates
<1>3. \A i \in DOMAIN list : list[i].chunk \in ChunksOf(list)
  BY DEF ChunksOf
<1>4. \A i \in DOMAIN list : list[i] \in Candidates(ChunksOf(list))
  BY <1>1, <1>3 DEF Candidates
<1>5. list \in [1..Len(list) -> Candidates(ChunksOf(list))]
  <2>1. list \in [1..Len(list) -> Candidates(S)]
    BY SeqDef, LenProperties
  <2> HIDE DEF ChunksOf, Candidates
  <2> QED BY <1>1, <1>4, <2>1
<1> QED BY <1>1, <1>2, <1>5, SeqDef

LEMMA SublistKeeps ==
  ASSUME NEW S, NEW list \in Seq(Candidates(S)), Distinct(list), NEW chunks
  PROVE  Of(list, chunks) \in Seq(Candidates(S)) /\ Distinct(Of(list, chunks))
<1> DEFINE I == {i \in DOMAIN list : list[i].chunk \in chunks}
<1>1. I \in SUBSET DOMAIN list /\ \A i, j \in I : list[i].chunk = list[j].chunk => i = j
  BY DEF Distinct
<1>2. Of(list, chunks) = Sublist(list, I)
  BY DEF Of
<1> HIDE DEF I
<1> QED BY <1>1, <1>2, SublistIs, SublistDistinct

LEMMA RankingStarts == RankingInit => RankingInv
<1> SUFFICES ASSUME RankingInit PROVE RankingInv
  OBVIOUS
<1> DEFINE empty == <<>>
<1>1. \A S : empty \in Seq(S)
  BY EmptySeq
<1>2. /\ stage = "rewrite" /\ queries = empty /\ fused = empty /\ offered = empty /\ admitted = empty
      /\ passed = {} /\ reranked.list = empty /\ primary = empty /\ expanded = empty /\ read = empty
      /\ context = NoContext /\ answer.spoken = "none"
  BY DEF RankingInit, Nothing, Reranked, NoReply
<1>3. \A P \in SUBSET Chunks : NoContext \in Contexts(P) /\ \E chosen \in Selections(Chunks) : NoContext \in Prompts(Chunks, chosen, Len(chosen))
  BY EmptyPrompt
<1> HIDE DEF empty
<1>4. Searched
  BY <1>1, <1>2 DEF Searched
<1>5. Passing
  <2>1. {} \in SUBSET Chunks
    OBVIOUS
  <2>2. HoldsOnly({})
    BY <1>1, <1>2, <1>3, <2>1 DEF HoldsOnly
  <2> QED BY <1>2, <2>2 DEF Passing
<1>6. Prompted
  <2>1. {} \in SUBSET Chunks
    OBVIOUS
  <2> QED BY <1>2, <1>3, <2>1 DEF Prompted
<1>7. Answered
  BY <1>2 DEF Answered
<1> QED BY <1>4, <1>5, <1>6, <1>7 DEF RankingInv

LEMMA CovIs ==
  ASSUME Searched, stage # "rewrite"
  PROVE  Cov \in Covers /\ GateLimit \in Nat /\ AtLeast(TopK, Len(Cov)) \in Nat
         /\ AtLeast(Len(admitted), TopK) \in {Len(admitted), TopK}
<1>1. Cov \in Covers
  BY CoverageIs DEF Searched, Cov
<1>2. Len(Cov) \in Nat
  BY <1>1, CoversIs
<1> QED BY <1>1, <1>2, QuestionAssumption DEF GateLimit, AtLeast

LEMMA RewriteKeeps ==
  ASSUME RankingInv, NEW texts \in Fallbacks, NEW r \in Responses \cup {Nothing}, Rewrite(FallbackItems(texts), r)
  PROVE  RankingInv'
<1>1. queries' \in Seq(Query) \ {<<>>}
  BY QueriesAre DEF Rewrite
<1>2. Searched'
  BY <1>1 DEF RankingInv, Searched, Rewrite
<1>3. Passing'
  BY DEF RankingInv, Passing, HoldsOnly, Rewrite
<1>4. Prompted'
  BY DEF RankingInv, Prompted, Rewrite
<1>5. Answered'
  BY DEF RankingInv, Answered, Rewrite
<1> QED BY <1>2, <1>3, <1>4, <1>5 DEF RankingInv

LEMMA RecallKeeps ==
  ASSUME RankingInv, NEW found \in Recalls, Recall(found)
  PROVE  RankingInv'
<1>1. stage = "recall" /\ Searched
  BY DEF Recall, RankingInv
<1>2. RawCandidates(found) \in Seq(Candidates(Chunks))
  BY <1>1, RawIs DEF Searched
<1>3. fused' \in Seq(Candidates(Chunks))
  BY <1>2, FuseIs DEF Recall
<1>4. offered' \in Seq(Candidates(Chunks))
  <2>1. Cov \in Covers
    BY <1>1, CovIs
  <2>2. QuotaOf(RerankInput, Cov) \in Nat
    BY <2>1, CoversIs, QuestionAssumption
  <2>3. offered' = PrioritizeQuota(fused', Cov, QuotaOf(RerankInput, Cov))
    BY DEF Recall
  <2> QED BY <1>3, <2>1, <2>2, <2>3, PrioritizeQuotaIs
<1>5. Searched'
  BY <1>1, <1>3, <1>4 DEF Searched, Recall
<1>6. Passing'
  BY DEF RankingInv, Passing, HoldsOnly, Recall
<1>7. Prompted'
  BY DEF RankingInv, Prompted, Recall
<1>8. Answered'
  BY DEF RankingInv, Answered, Recall
<1> QED BY <1>5, <1>6, <1>7, <1>8 DEF RankingInv

LEMMA GateKeeps ==
  ASSUME RankingInv, NEW readable, Gate(readable)
  PROVE  RankingInv'
<1> DEFINE let == Prefix(Of(offered, readable), GateLimit)
<1>1. stage = "gate" /\ Searched /\ Passing
  BY DEF Gate, RankingInv
<1>2. let \in Seq(Candidates(Chunks))
  <2>1. GateLimit \in Nat
    BY <1>1, CovIs
  <2>2. Of(offered, readable) \in Seq(Candidates(Chunks))
    BY <1>1, Subsets DEF Searched
  <2> QED BY <2>1, <2>2, PrefixIn
<1>3. admitted' = let /\ passed' = ChunksOf(let)
  BY DEF Gate
<1> HIDE DEF let
<1>4. ChunksOf(let) \subseteq Chunks /\ let \in Seq(Candidates(ChunksOf(let)))
  BY <1>2, ChunksHeld
<1>5. HoldsOnly(ChunksOf(let))
  <2>1. HoldsOnly({})
    BY <1>1 DEF Passing
  <2>2. {} \subseteq ChunksOf(let)
    OBVIOUS
  <2> QED BY <2>1, <2>2, HoldsMore
<1>6. Passing'
  BY <1>3, <1>4, <1>5 DEF Passing, HoldsOnly, Gate
<1>7. Searched'
  BY <1>1 DEF Searched, Gate
<1>8. Prompted'
  BY DEF RankingInv, Prompted, Gate
<1>9. Answered'
  BY DEF RankingInv, Answered, Gate
<1> QED BY <1>6, <1>7, <1>8, <1>9 DEF RankingInv

LEMMA RerankKeeps ==
  ASSUME RankingInv, NEW reply \in [ToSet(Cov) -> Replies], RerankAdmitted(reply)
  PROVE  RankingInv'
<1>1. stage = "rerank" /\ Searched /\ Passing
  BY DEF RerankAdmitted, RankingInv
<1>2. Cov \in Covers /\ AtLeast(Len(admitted), TopK) \in Nat /\ QuotaOf(TopK, Cov) \in Nat
  <2>1. Len(admitted) \in Nat
    BY <1>1, LenProperties DEF Passing, HoldsOnly
  <2>2. Cov \in Covers /\ AtLeast(Len(admitted), TopK) \in Nat
    BY <1>1, <2>1, CovIs, QuestionAssumption
  <2> QED BY <2>2, CoversIs, QuestionAssumption
<1>3. reranked'.list \in Seq(Candidates(passed))
  <2>1. admitted \in Seq(Candidates(passed))
    BY <1>1 DEF Passing, HoldsOnly
  <2>2. reranked' = RerankForQueries(admitted, Cov, reply, AtLeast(Len(admitted), TopK), QuotaOf(TopK, Cov))
    BY DEF RerankAdmitted
  <2> QED BY <1>2, <2>1, <2>2, RerankForQueriesIs
<1>4. Passing'
  BY <1>1, <1>3 DEF Passing, HoldsOnly, RerankAdmitted
<1>5. Searched'
  BY <1>1 DEF Searched, RerankAdmitted
<1>6. Prompted'
  BY DEF RankingInv, Prompted, RerankAdmitted
<1>7. Answered'
  BY DEF RankingInv, Answered, RerankAdmitted
<1> QED BY <1>4, <1>5, <1>6, <1>7 DEF RankingInv

LEMMA FilterKeeps ==
  ASSUME RankingInv, Filter
  PROVE  RankingInv'
<1> DEFINE limit    == AtLeast(TopK, Len(Cov))
           relevant == RelevanceGate(reranked)
           selected == SelectWithCoverage(relevant.list, Cov, limit)
           good     == QualityGate(selected, reranked)
           S        == Candidates(passed)
<1>1. stage = "filter" /\ Searched /\ Passing
  BY DEF Filter, RankingInv
<1>2. Cov \in Covers /\ limit \in Nat /\ reranked.list \in Seq(S)
  BY <1>1, CovIs DEF Passing, HoldsOnly
<1> HIDE DEF S, limit
<1>3. relevant.list \in Seq(S)
  BY <1>2, GatesKeep
<1>4. selected \in Seq(S)
  BY <1>2, <1>3, SelectWithCoverageIs
<1>5. good.list \in Seq(S)
  <2> HIDE DEF selected
  <2> QED BY <1>2, <1>4, GatesKeep
<1>6. SelectWithCoverage(good.list, Cov, limit) \in Seq(S)
  <2> HIDE DEF good
  <2> QED BY <1>2, <1>5, SelectWithCoverageIs
<1>7. primary' = SelectWithCoverage(good.list, Cov, limit)
  BY DEF Filter, limit
<1>8. primary' \in Seq(Candidates(passed))
  BY <1>6, <1>7 DEF S
<1>9. Passing'
  BY <1>1, <1>8 DEF Passing, HoldsOnly, Filter
<1>10. Searched'
  BY <1>1 DEF Searched, Filter
<1>11. Prompted'
  BY DEF RankingInv, Prompted, Filter
<1>12. Answered'
  BY DEF RankingInv, Answered, Filter
<1> QED BY <1>9, <1>10, <1>11, <1>12 DEF RankingInv

LEMMA ExpandKeeps ==
  ASSUME RankingInv, NEW readable, Expand(readable)
  PROVE  RankingInv'
<1> DEFINE near == IF ExpandWindow = 0 THEN Nothing
                   ELSE Prefix(Of(NeighbourCandidates(primary), readable), AtLeast(ExpandLimit - Len(primary), 0))
           D == passed \cup ChunksOf(near)
<1>1. stage = "expand" /\ Searched /\ Passing /\ passed \subseteq Chunks /\ primary \in Seq(Candidates(passed))
  BY DEF Expand, RankingInv, Passing, HoldsOnly
<1>2. near \in Seq(Candidates(Chunks))
  <2>1. primary \in Seq(Candidates(Chunks)) /\ Len(primary) \in Nat
    BY <1>1, Widens, LenProperties
  <2>2. NeighbourCandidates(primary) \in Seq(Candidates(Chunks))
    BY <2>1, NeighboursAre
  <2>3. Of(NeighbourCandidates(primary), readable) \in Seq(Candidates(Chunks))
    BY <2>2, Subsets
  <2>4. AtLeast(ExpandLimit - Len(primary), 0) \in Nat
    <3>1. ExpandWindow \in {0, 1} /\ MaxChunks \in Nat /\ TopK \in Nat
      BY QuestionAssumption, ContextAssumption
    <3>2. ExpandLimit \in Int
      <4>1. CASE ExpandWindow = 0
        BY <3>1, <4>1 DEF ExpandLimit, AtLeast
      <4>2. CASE ExpandWindow = 1
        BY <3>1, <4>2 DEF ExpandLimit, AtLeast
      <4> QED BY <3>1, <4>1, <4>2
    <3> QED BY <2>1, <3>2 DEF AtLeast
  <2>5. Nothing \in Seq(Candidates(Chunks))
    BY EmptySeq DEF Nothing
  <2> QED BY <2>3, <2>4, <2>5, PrefixIn
<1>3. expanded' = Merge(primary, near) /\ passed' = D
  BY DEF Expand
<1> HIDE DEF near
<1>4. D \subseteq Chunks /\ near \in Seq(Candidates(ChunksOf(near)))
  BY <1>1, <1>2, ChunksHeld
<1>5. passed \subseteq D /\ ChunksOf(near) \subseteq D
  OBVIOUS
<1> HIDE DEF D
<1>6. primary \in Seq(Candidates(D)) /\ near \in Seq(Candidates(D))
  BY <1>1, <1>4, <1>5, Widens
<1>7. Merge(primary, near) \in Seq(Candidates(D)) /\ Distinct(Merge(primary, near))
  <2>1. primary \o near \in Seq(Candidates(D))
    BY <1>6, ConcatProperties
  <2>2. Merge(primary, near) = OncePerChunk(primary \o near)
    BY DEF Merge
  <2> QED BY <2>1, <2>2, Subsets, OncePerChunkDistinct
<1>8. HoldsOnly(D)
  BY <1>1, <1>5, HoldsMore DEF Passing
<1>9. Distinct(expanded)'
  BY <1>3, <1>7 DEF Distinct
<1>10. Passing'
  BY <1>3, <1>4, <1>7, <1>8, <1>9 DEF Passing, HoldsOnly, Expand
<1>11. Searched'
  BY <1>1 DEF Searched, Expand
<1>12. Prompted'
  BY DEF RankingInv, Prompted, Expand
<1>13. Answered'
  BY DEF RankingInv, Answered, Expand
<1> QED BY <1>10, <1>11, <1>12, <1>13 DEF RankingInv

LEMMA CiteOnlyKeeps ==
  ASSUME RankingInv, CiteOnly
  PROVE  RankingInv'
<1>1. Searched'
  BY DEF RankingInv, Searched, CiteOnly
<1>2. Passing'
  BY DEF RankingInv, Passing, HoldsOnly, CiteOnly
<1>3. Prompted'
  BY DEF RankingInv, Prompted, CiteOnly
<1>4. Answered'
  BY DEF RankingInv, Answered, CiteOnly
<1> QED BY <1>1, <1>2, <1>3, <1>4 DEF RankingInv

LEMMA BuildKeeps ==
  ASSUME RankingInv, NEW loaded, Build(loaded)
  PROVE  RankingInv'
<1> DEFINE r == Of(expanded, loaded)
<1>1. /\ stage = "build" /\ Searched /\ Passing /\ passed \in SUBSET Chunks
      /\ expanded \in Seq(Candidates(passed)) /\ Distinct(expanded)
  BY DEF Build, RankingInv, Passing, HoldsOnly
<1>2. r \in Seq(Candidates(passed)) /\ Distinct(r)
  BY <1>1, SublistKeeps
<1>3. read' = r /\ context' = BuildContext(r)
  BY DEF Build
<1> HIDE DEF r
<1>4. BuildContext(r) \in Contexts(passed)
  BY <1>1, <1>2, BuildContextIs DEF Prompts
<1>5. \E chosen \in Selections(Chunks) : BuildContext(r) \in Prompts(Chunks, chosen, Len(chosen))
  <2>1. r \in Seq(Candidates(Chunks)) /\ Chunks \in SUBSET Chunks
    BY <1>1, <1>2, Widens
  <2> QED BY <1>2, <2>1, BuildContextIs
<1>6. Passing'
  BY <1>1, <1>2, <1>3, <1>4 DEF Passing, HoldsOnly, Build
<1>7. Prompted'
  BY <1>3, <1>5 DEF Prompted
<1>8. Searched'
  BY <1>1 DEF Searched, Build
<1>9. Answered'
  BY DEF RankingInv, Answered, Build
<1> QED BY <1>6, <1>7, <1>8, <1>9 DEF RankingInv

LEMMA GenerateKeeps ==
  ASSUME RankingInv, NEW said \in Said, Generate(said)
  PROVE  RankingInv'
<1>1. Cited' = Cited
  BY DEF Generate, Cited, ChunksOf
<1>2. /\ answer'.refs = said.refs /\ answer'.text = said.text /\ answer'.malformed = said.malformed
      /\ answer'.spoken = Spoken(said)
  BY DEF Generate, Said
<1>3. Spoken(said) = "model" => said.refs \subseteq Cited \/ said.malformed
  BY DEF Spoken, Verdict
<1>4. Spoken(said) = "nothing" => ~said.text /\ said.refs \subseteq Cited
  BY DEF Spoken, Verdict, Attachable
<1>5. Spoken(said) = "refusal" => reasons' # {}
  <2>1. Spoken(said) = "refusal" => Verdict(said) \in reasons'
    BY DEF Generate
  <2> QED BY <2>1
<1>6. stage' = "done"
  BY DEF Generate
<1>7. Answered'
  BY <1>1, <1>2, <1>3, <1>4, <1>5, <1>6 DEF Answered
<1>8. Searched'
  BY DEF RankingInv, Searched, Generate
<1>9. Passing'
  BY DEF RankingInv, Passing, HoldsOnly, Generate
<1>10. Prompted'
  BY DEF RankingInv, Prompted, Generate
<1> QED BY <1>7, <1>8, <1>9, <1>10 DEF RankingInv

LEMMA ExplainKeeps ==
  ASSUME RankingInv, Explain
  PROVE  RankingInv'
<1>1. answer'.spoken = "refusal" /\ reasons' # {} /\ stage' = "done"
  BY DEF Explain, NoReply
<1>2. Answered'
  BY <1>1 DEF Answered
<1>3. Searched'
  BY DEF RankingInv, Searched, Explain
<1>4. Passing'
  BY DEF RankingInv, Passing, HoldsOnly, Explain
<1>5. Prompted'
  BY DEF RankingInv, Prompted, Explain
<1> QED BY <1>2, <1>3, <1>4, <1>5 DEF RankingInv

-----------------------------------------------------------------------------
LEMMA RankingStep == RankingInv /\ [RankingNext]_rankingVars => RankingInv'
<1> SUFFICES ASSUME RankingInv, [RankingNext]_rankingVars PROVE RankingInv'
  OBVIOUS
<1>1. CASE \E texts \in Fallbacks, r \in Responses \cup {Nothing} : Rewrite(FallbackItems(texts), r)
  BY <1>1, RewriteKeeps
<1>2. CASE \E found \in Recalls : Recall(found)
  BY <1>2, RecallKeeps
<1>3. CASE \E readable \in Readable : Gate(readable)
  BY <1>3, GateKeeps
<1>4. CASE \E reply \in [ToSet(Cov) -> Replies] : RerankAdmitted(reply)
  BY <1>4, RerankKeeps
<1>5. CASE Filter
  BY <1>5, FilterKeeps
<1>6. CASE \E readable \in Readable : Expand(readable)
  BY <1>6, ExpandKeeps
<1>7. CASE CiteOnly
  BY <1>7, CiteOnlyKeeps
<1>8. CASE \E loaded \in {Chunks} \cup {Chunks \ {c} : c \in Chunks} : Build(loaded)
  BY <1>8, BuildKeeps
<1>9. CASE \E said \in Said : Generate(said)
  BY <1>9, GenerateKeeps
<1>10. CASE Explain
  BY <1>10, ExplainKeeps
<1>11. CASE UNCHANGED rankingVars
  <2>1. /\ queries' = queries /\ stage' = stage /\ fused' = fused /\ offered' = offered
        /\ passed' = passed /\ admitted' = admitted /\ reranked' = reranked /\ primary' = primary
        /\ expanded' = expanded /\ read' = read /\ context' = context /\ answer' = answer
        /\ reasons' = reasons /\ mode' = mode
    BY <1>11 DEF rankingVars
  <2>2. Searched' /\ Passing' /\ Prompted'
    BY <2>1 DEF RankingInv, Searched, Passing, HoldsOnly, Prompted
  <2>3. Cited' = Cited
    BY <2>1 DEF Cited, ChunksOf
  <2>4. Answered'
    BY <2>1, <2>3 DEF RankingInv, Answered
  <2> QED BY <2>2, <2>4 DEF RankingInv
<1> QED BY <1>1, <1>2, <1>3, <1>4, <1>5, <1>6, <1>7, <1>8, <1>9, <1>10, <1>11 DEF RankingNext

LEMMA RankingAlways == RankingSpec => []RankingInv
  BY RankingStarts, RankingStep, PTL DEF RankingSpec

\* What may be cited has passed a gate.
LEMMA GroundedFollows == RankingInv => AnswersGrounded
<1> SUFFICES ASSUME RankingInv PROVE AnswersGrounded
  OBVIOUS
<1>1. ChunksOf(expanded) \subseteq passed
  BY ChunksHeld DEF RankingInv, Passing, HoldsOnly
<1>2. {context.chunks[i].cand.chunk : i \in DOMAIN context.chunks} \subseteq passed
  <2> DEFINE s == context.chunks
  <2>1. s \in Seq(Grants(passed))
    BY DEF RankingInv, Passing, HoldsOnly, Contexts
  <2> HIDE DEF s
  <2>2. \A i \in DOMAIN s : s[i] \in Grants(passed)
    BY <2>1, LenProperties, ElementOfSeq
  <2>3. \A i \in DOMAIN s : s[i].cand.chunk \in passed
    BY <2>2 DEF Grants, Candidates
  <2> QED BY <2>3 DEF s
<1>3. Cited \subseteq passed
  BY <1>1, <1>2 DEF Cited
<1> QED BY <1>1, <1>3 DEF RankingInv, Answered, AnswersGrounded

\* What a reader is shown of a model's answer cites only chunks that some
\* permission gate let pass and that were among its sources; everything else
\* ends in a refusal with a reason, but a text with a malformed reference,
\* whose references are replaced by allowed ones (validate_answer_citations,
\* append_reference_sources and the degraded answer).
THEOREM AnswersAreGrounded == RankingSpec => []AnswersGrounded
  BY RankingAlways, GroundedFollows, PTL

LEMMA LimitsFollow == RankingInv => PromptWithinLimits
  BY PromptKeepsLimits DEF RankingInv, Prompted

\* A prompt keeps its limits on chunks, documents, sections, characters and
\* tokens at once, and repeats no chunk (ContextBuilder.build,
\* _select_items and the budget of each chunk).
THEOREM PromptsAreWithinLimits == RankingSpec => []PromptWithinLimits
  BY RankingAlways, LimitsFollow, PTL

-----------------------------------------------------------------------------
(* Nothing that is found is lost or starved.                               *)

LEMMA LeastIs ==
  ASSUME NEW S \in SUBSET Nat, S # {} PROVE \E x \in S : \A y \in S : x <= y
<1>1. PICK x \in S : \A y \in S : <<y, x>> \notin OpToRel(<, Nat)
  BY WFMin, NatLessThanWellFounded
<1>2. \A y \in S : ~(y < x)
  BY <1>1 DEF OpToRel
<1>3. ASSUME NEW y \in S PROVE x <= y
  <2>1. x \in Nat /\ y \in Nat /\ ~(y < x)
    BY <1>2
  <2> QED BY <2>1
<1> QED BY <1>3

LEMMA NthBeyond ==
  ASSUME NEW I, IsFiniteSet(I), I \subseteq Nat \ {0}
  PROVE  \A n \in 1..Cardinality(I) : n <= Nth(I, n)
<1> DEFINE c == Cardinality(I)
           S == {k \in 0..c : k = 0 \/ k <= Nth(I, k)}
<1>1. /\ c \in Nat /\ \A n \in 1..c : Nth(I, n) \in Nat /\ Nth(I, n) > 0
      /\ \A m, n \in 1..c : m < n => Nth(I, m) < Nth(I, n)
  <2>1. I \subseteq Int
    OBVIOUS
  <2>2. c \in Nat /\ \A n \in 1..c : Nth(I, n) \in I
    BY <2>1, NthIs
  <2>3. \A m, n \in 1..c : m < n => Nth(I, m) < Nth(I, n)
    BY <2>1, NthIs
  <2>4. \A n \in 1..c : Nth(I, n) \in Nat \ {0}
    BY <2>2
  <2> HIDE DEF c
  <2> QED BY <2>2, <2>3, <2>4
<1> HIDE DEF c
<1>2. 0 \in S
  BY <1>1
<1>3. ASSUME NEW k \in 1..c, k - 1 \in S PROVE k \in S
  <2>1. k \in 0..c /\ k \in Nat /\ Nth(I, k) \in Nat /\ Nth(I, k) > 0
    BY <1>1
  <2>2. CASE k = 1
    BY <2>1, <2>2
  <2>3. CASE k # 1
    <3>1. k - 1 \in 1..c /\ k - 1 < k
      BY <1>1, <2>3
    <3>2. k - 1 <= Nth(I, k - 1) /\ Nth(I, k - 1) < Nth(I, k) /\ Nth(I, k - 1) \in Nat
      BY <1>1, <1>3, <3>1
    <3> QED BY <2>1, <3>2
  <2> QED BY <2>2, <2>3
<1>4. 0..c \subseteq S
  <2> HIDE DEF S
  <2> QED BY <1>1, <1>2, <1>3, Inductive
<1>5. ASSUME NEW n \in 1..c PROVE n <= Nth(I, n)
  <2>1. n \in 0..c /\ n # 0
    BY <1>1
  <2> QED BY <1>4, <2>1
<1> QED BY <1>5 DEF c

\* Every element of a sublist is one of the list, and no later than there.
LEMMA SublistPlaces ==
  ASSUME NEW S, NEW list \in Seq(S), NEW I \in SUBSET DOMAIN list
  PROVE  /\ DOMAIN Sublist(list, I) = 1..Cardinality(I)
         /\ \A n \in DOMAIN Sublist(list, I) : \E i \in I : Sublist(list, I)[n] = list[i] /\ n <= i
         /\ \A i \in I : \E n \in DOMAIN Sublist(list, I) : Sublist(list, I)[n] = list[i] /\ n <= i
<1> DEFINE s == Sublist(list, I)
           c == Cardinality(I)
<1>1. /\ s \in Seq(S) /\ Len(s) = c /\ IsFiniteSet(I)
      /\ \A n \in 1..c : Nth(I, n) \in I /\ s[n] = list[Nth(I, n)]
      /\ \A i \in I : \E n \in 1..c : Nth(I, n) = i
  BY SublistIs
<1> HIDE DEF s
<1>2. DOMAIN s = 1..c
  BY <1>1, LenProperties
<1>3. \A n \in 1..c : n <= Nth(I, n)
  <2>1. I \subseteq Nat \ {0}
    BY LenProperties
  <2> QED BY <1>1, <2>1, NthBeyond
<1> HIDE DEF c
<1>4. \A n \in DOMAIN s : \E i \in I : s[n] = list[i] /\ n <= i
  BY <1>1, <1>2, <1>3
<1>5. \A i \in I : \E n \in DOMAIN s : s[n] = list[i] /\ n <= i
  BY <1>1, <1>2, <1>3
<1> QED BY <1>2, <1>4, <1>5 DEF s, c

LEMMA OncePerChunkKeeps ==
  ASSUME NEW C, NEW list \in Seq(Candidates(C))
  PROVE  /\ \A p \in DOMAIN list : \E n \in DOMAIN OncePerChunk(list) :
              n <= p /\ OncePerChunk(list)[n].chunk = list[p].chunk
         /\ \A n \in DOMAIN OncePerChunk(list) : \E p \in DOMAIN list : OncePerChunk(list)[n] = list[p]
<1> DEFINE I == {i \in DOMAIN list : \A j \in 1..(i - 1) : list[j].chunk # list[i].chunk}
           s == OncePerChunk(list)
<1>1. I \in SUBSET DOMAIN list /\ s = Sublist(list, I)
  BY DEF OncePerChunk
<1>2. DOMAIN list = 1..Len(list) /\ Len(list) \in Nat
  BY LenProperties
<1>3. ASSUME NEW p \in DOMAIN list PROVE \E i \in I : i <= p /\ list[i].chunk = list[p].chunk
  <2> DEFINE T == {j \in DOMAIN list : j <= p /\ list[j].chunk = list[p].chunk}
  <2>1. T \in SUBSET Nat /\ p \in T
    BY <1>2
  <2>2. PICK i \in T : \A j \in T : i <= j
    <3> HIDE DEF T
    <3> QED BY <2>1, LeastIs
  <2>3. i \in DOMAIN list /\ i <= p /\ list[i].chunk = list[p].chunk
    OBVIOUS
  <2>4. ASSUME NEW j \in 1..(i - 1), list[j].chunk = list[i].chunk PROVE FALSE
    <3>1. j \in DOMAIN list /\ j < i /\ j <= p /\ i \in Nat /\ j \in Nat
      BY <1>2, <2>3
    <3>2. j \in T
      BY <2>3, <2>4, <3>1
    <3> HIDE DEF T
    <3> QED BY <2>2, <3>1, <3>2
  <2>5. i \in I
    BY <2>3, <2>4
  <2> QED BY <2>3, <2>5
<1> HIDE DEF I, s
<1>4. ASSUME NEW p \in DOMAIN list PROVE \E n \in DOMAIN s : n <= p /\ s[n].chunk = list[p].chunk
  <2>1. PICK i \in I : i <= p /\ list[i].chunk = list[p].chunk
    BY <1>3
  <2>2. PICK n \in DOMAIN s : s[n] = list[i] /\ n <= i
    BY <1>1, SublistPlaces
  <2>3. n \in Int /\ i \in Int /\ p \in Int
    <3>1. DOMAIN s \subseteq Int
      <4>1. DOMAIN s = 1..Cardinality(I)
        BY <1>1, SublistPlaces
      <4> QED BY <4>1
    <3> QED BY <1>1, <1>2, <3>1
  <2> QED BY <2>1, <2>2, <2>3
<1>5. ASSUME NEW n \in DOMAIN s PROVE \E p \in DOMAIN list : s[n] = list[p]
  BY <1>1, SublistPlaces
<1> QED BY <1>4, <1>5 DEF s

LEMMA OnceIs ==
  ASSUME NEW C, NEW list \in Seq(Candidates(C)), Distinct(list) PROVE Once(list)
<1> DEFINE m == Len(list)
           f == [i \in 1..m |-> list[i].chunk]
           P == 1..m
<1>1. m \in Nat /\ DOMAIN list = P
  BY LenProperties
<1>2. IsFiniteSet(P) /\ Cardinality(P) = m
  BY <1>1, Interval
<1>3. ChunksOf(list) = {f[i] : i \in P}
  BY <1>1 DEF ChunksOf
<1>4. \A i, j \in P : f[i] = f[j] => i = j
  BY <1>1 DEF Distinct
<1> HIDE DEF f, m, P
<1>5. Cardinality({f[i] : i \in P}) = Cardinality(P)
  BY <1>2, <1>4, ImageIs
<1> QED BY <1>2, <1>3, <1>5 DEF Once, m

\* The n-th of the g-th group stands at place n * Len(groups), or earlier.
LEMMA RoundRobinPlaces ==
  ASSUME NEW S, NEW groups \in Seq(Seq(S)), NEW rounds \in Nat,
         NEW g \in 1..Len(groups), NEW n \in 1..Len(groups[g]), n <= rounds
  PROVE  \E p \in DOMAIN RoundRobin(groups, rounds) :
           p <= n * Len(groups) /\ RoundRobin(groups, rounds)[p] = groups[g][n]
<1> DEFINE l == Len(groups)
           m == rounds * l
           Pick(k) == LET offset == (k \div l) + 1
                          group  == groups[(k % l) + 1]
                      IN IF offset <= Len(group) THEN <<group[offset]>> ELSE <<>>
           picks == [k \in 1..m |-> Pick(k - 1)]
           k == (n - 1) * l + g
<1>1. l \in Nat \ {0} /\ \A i \in 1..l : groups[i] \in Seq(S) /\ Len(groups[i]) \in Nat
  <2>1. l \in Nat /\ \A i \in 1..l : groups[i] \in Seq(S)
    BY LenProperties, ElementOfSeq
  <2>2. \A i \in 1..l : Len(groups[i]) \in Nat
    BY <2>1, LenProperties
  <2> HIDE DEF l
  <2> QED BY <2>1, <2>2 DEF l
<1>2. n \in Nat \ {0} /\ g \in Nat \ {0} /\ g <= l /\ m \in Nat
  <2>1. n \in Nat \ {0} /\ g \in Nat \ {0} /\ g <= l
    BY <1>1
  <2> HIDE DEF l
  <2> QED BY <1>1, <2>1
<1> HIDE DEF l
<1>3. ASSUME NEW i \in 1..m
      PROVE  Pick(i - 1) \in Seq(S) /\ Len(Pick(i - 1)) \in {0, 1}
  <2> DEFINE h == i - 1
             offset == (h \div l) + 1
             place == (h % l) + 1
  <2>1. h \in Nat
    BY <1>2
  <2> HIDE DEF h
  <2>2. offset \in Nat \ {0} /\ place \in 1..l
    <3>1. h \div l \in Nat /\ h % l \in 0..(l - 1) /\ l \in Nat
      BY <1>1, <2>1, Division
    <3> QED BY <3>1
  <2> DEFINE group == groups[place]
  <2>3. group \in Seq(S)
    BY <1>1, <2>2
  <2>4. Pick(i - 1) = IF offset <= Len(group) THEN <<group[offset]>> ELSE <<>>
    BY DEF h
  <2> HIDE DEF Pick, group, offset, place
  <2>5. offset <= Len(group) => group[offset] \in S
    BY <2>2, <2>3, LenProperties, ElementOfSeq
  <2>6. <<>> \in Seq(S) /\ Len(<<>>) = 0 /\ \A x \in S : <<x>> \in Seq(S) /\ Len(<<x>>) = 1
    BY EmptySeq
  <2> QED BY <2>4, <2>5, <2>6
<1>4. Pick(k - 1) = <<groups[g][n]>> /\ k \in 1..m /\ k <= n * l
  <2>1. n - 1 \in Nat /\ g - 1 \in 0..(l - 1)
    BY <1>1, <1>2
  <2>2. /\ (n - 1) * l + (g - 1) \in Nat
        /\ ((n - 1) * l + (g - 1)) \div l = n - 1 /\ ((n - 1) * l + (g - 1)) % l = g - 1
    <3> DEFINE a == n - 1
               r == g - 1
    <3> HIDE DEF a, r
    <3>1. a * l + r \in Nat /\ (a * l + r) \div l = a /\ (a * l + r) % l = r
      BY <1>1, <2>1, Quotient DEF a, r
    <3> QED BY <3>1 DEF a, r
  <2>3. (n - 1) * l \in Nat /\ n * l = (n - 1) * l + l /\ n * l \in Nat
    BY <1>1, <1>2
  <2>4. n * l <= m
    BY <1>1, <1>2, Multiples
  <2> DEFINE b == (n - 1) * l
  <2>5. b \in Nat /\ n * l = b + l /\ k = b + g
    BY <2>3
  <2> HIDE DEF b, m, k
  <2>6. k - 1 = b + (g - 1) /\ k \in 1..m /\ k <= n * l
    BY <1>1, <1>2, <2>4, <2>5
  <2>7. (k - 1) \div l = n - 1 /\ (k - 1) % l = g - 1
    BY <2>2, <2>6 DEF b
  <2>8. (n - 1) + 1 = n /\ (g - 1) + 1 = g /\ n <= Len(groups[g])
    BY <1>1, <1>2
  <2>9. Pick(k - 1) = <<groups[g][n]>>
    BY <2>7, <2>8
  <2> QED BY <2>6, <2>9
<1> HIDE DEF Pick, m, k
<1>5. picks \in [1..m -> Seq(S)] /\ \A i \in 1..m : picks[i] = Pick(i - 1)
  BY <1>3
<1>6. RoundRobin(groups, rounds) = Joined(picks)
  BY DEF RoundRobin, Pick, m, l
<1> HIDE DEF picks
<1>7. picks \in Seq(Seq(S)) /\ Len(picks) = m
  BY <1>2, <1>5, ListOf
<1>8. PICK p \in 1..Len(Joined(picks)) : p <= k /\ Joined(picks)[p] = picks[k][1]
  <2>1. \A i \in 1..Len(picks) : Len(picks[i]) \in {0, 1}
    BY <1>3, <1>5, <1>7
  <2>2. Len(picks[k]) = 1 /\ k \in 1..Len(picks)
    BY <1>4, <1>5, <1>7
  <2> QED BY <1>7, <2>1, <2>2, JoinedPlaces
<1>9. picks[k][1] = groups[g][n]
  BY <1>4, <1>5
<1>10. p <= n * l
  <2>1. n * l \in Nat
    BY <1>1, <1>2
  <2>2. k \in Nat /\ p \in Nat
    BY <1>4
  <2> QED BY <1>4, <1>8, <2>1, <2>2
<1>11. DOMAIN Joined(picks) = 1..Len(Joined(picks))
  <2>1. Joined(picks) \in Seq(S)
    BY <1>7, JoinedIs
  <2> QED BY <2>1, LenProperties
<1> QED BY <1>6, <1>8, <1>9, <1>10, <1>11 DEF l

\* Fusion keeps one entry per chunk, and orders them by their totals.
Apart(entries) == \A i, j \in DOMAIN entries : entries[i].best.chunk = entries[j].best.chunk => i = j

LEMMA AbsorbApart ==
  ASSUME NEW C, NEW entries \in Seq(Entries(C)), NEW c \in Candidates(C), Apart(entries)
  PROVE  Apart(Absorb(entries, c))
<1> DEFINE same == {i \in DOMAIN entries : entries[i].best.chunk = c.chunk}
           n == Len(entries)
<1>1. n \in Nat /\ DOMAIN entries = 1..n
  BY LenProperties
<1>2. CASE same = {}
  <2> DEFINE e == [best |-> c, total |-> Share(c), raw |-> c.score]
             t == Append(entries, e)
  <2>1. Absorb(entries, c) = t
    BY <1>2 DEF Absorb
  <2>2. e \in Entries(C) /\ e.best = c
    BY ShareIs DEF Entries, Candidates
  <2> HIDE DEF e, n
  <2>3. /\ t \in Seq(Entries(C)) /\ Len(t) = n + 1 /\ t[n + 1] = e /\ \A i \in 1..n : t[i] = entries[i]
    BY <2>2, AppendProperties, <1>1 DEF n
  <2>4. DOMAIN t = 1..(n + 1)
    BY <2>3, LenProperties
  <2> HIDE DEF t
  <2>5. \A i \in 1..n : entries[i].best.chunk # c.chunk
    BY <1>1, <1>2
  <2>6. ASSUME NEW i \in 1..(n + 1), NEW j \in 1..(n + 1), t[i].best.chunk = t[j].best.chunk PROVE i = j
    <3>1. (i = n + 1 \/ i \in 1..n) /\ (j = n + 1 \/ j \in 1..n)
      BY <1>1
    <3>2. CASE i \in 1..n /\ j \in 1..n
      BY <1>1, <2>3, <2>6, <3>2 DEF Apart
    <3>3. CASE i = n + 1 /\ j \in 1..n
      BY <2>2, <2>3, <2>5, <2>6, <3>3
    <3>4. CASE i \in 1..n /\ j = n + 1
      BY <2>2, <2>3, <2>5, <2>6, <3>4
    <3> QED BY <3>1, <3>2, <3>3, <3>4
  <2> QED BY <2>1, <2>4, <2>6 DEF Apart
<1>3. CASE same # {}
  <2> DEFINE i == CHOOSE i \in same : TRUE
             e == entries[i]
             takes == c.score > e.raw \/ (~e.best.emb /\ c.emb)
             new == [best |-> IF takes THEN c ELSE e.best, total |-> e.total + Share(c),
                     raw |-> AtLeast(e.raw, c.score)]
  <2>1. i \in DOMAIN entries /\ entries[i].best.chunk = c.chunk
    BY <1>3
  <2>2. Absorb(entries, c) = [entries EXCEPT ![i] = new]
    BY <1>3 DEF Absorb
  <2> HIDE DEF i
  <2>3. new.best.chunk = entries[i].best.chunk
    BY <2>1
  <2> HIDE DEF new
  <2> QED BY <2>1, <2>2, <2>3 DEF Apart
<1> QED BY <1>2, <1>3

LEMMA FuseOrders ==
  ASSUME NEW C, NEW raw \in Seq(Candidates(C))
  PROVE  /\ Distinct(Fuse(raw))
         /\ \A i, j \in DOMAIN Fuse(raw) : i < j => Fuse(raw)[i].score >= Fuse(raw)[j].score
<1>1. PICK f : FusesAs(f, raw, C) /\ Fuse(raw) = InOrder(f[Len(raw)])
  BY FuseRuns
<1> DEFINE n == Len(raw)
           T == {k \in 0..n : Apart(f[k])}
           entries == f[n]
<1>2. /\ n \in Nat /\ f[0] = <<>> /\ \A i \in 1..n : f[i] = Absorb(f[i - 1], raw[i]) /\ raw[i] \in Candidates(C)
      /\ \A i \in 0..n : f[i] \in Seq(Entries(C))
  BY <1>1, LenProperties, ElementOfSeq DEF FusesAs
<1> HIDE DEF n
<1>3. 0 \in T
  BY <1>2 DEF Apart
<1>4. ASSUME NEW k \in 1..n, k - 1 \in T PROVE k \in T
  <2>1. k - 1 \in 0..n /\ k \in 0..n
    BY <1>2
  <2>2. f[k - 1] \in Seq(Entries(C)) /\ Apart(f[k - 1]) /\ f[k] = Absorb(f[k - 1], raw[k])
    BY <1>2, <1>4, <2>1
  <2>3. Apart(f[k])
    BY <1>2, <2>2, AbsorbApart
  <2> QED BY <2>1, <2>3
<1>5. 0..n \subseteq T
  <2> HIDE DEF T
  <2> QED BY <1>2, <1>3, <1>4, Inductive
<1>6. entries \in Seq(Entries(C)) /\ Apart(entries) /\ Fuse(raw) = InOrder(entries)
  <2>1. n \in 0..n
    BY <1>2
  <2> QED BY <1>1, <1>2, <1>5, <2>1 DEF n
<1> HIDE DEF entries, T
<1> DEFINE s == InOrder(entries)
           D == DOMAIN entries
           P(k) == PlaceOf(entries, k)
<1>7. D = 1..Len(entries) /\ Len(entries) \in Nat /\ \A i \in D : entries[i] \in Entries(C)
  BY <1>6, LenProperties, ElementOfSeq
<1>8. DOMAIN s = D /\ \A k \in D : s[k] = [entries[P(k)].best EXCEPT !.score = entries[P(k)].total,
                                             !.base = entries[P(k)].raw, !.rank = k]
  BY DEF InOrder
<1>9. /\ \A k \in D : P(k) \in D
      /\ \A k, m \in D : k < m => Before(entries, P(k), P(m))
  BY <1>6, PlacesAre
<1> HIDE DEF s, P, D
<1>10. ASSUME NEW k \in D PROVE s[k].chunk = entries[P(k)].best.chunk /\ s[k].score = entries[P(k)].total
  <2>1. entries[P(k)] \in Entries(C)
    BY <1>7, <1>9
  <2>2. entries[P(k)].best \in Candidates(C)
    BY <2>1 DEF Entries
  <2> QED BY <1>8, <2>2 DEF Candidates
<1>11. ASSUME NEW i \in D, NEW j \in D, i < j
       PROVE  s[i].score >= s[j].score /\ P(i) # P(j)
  <2>1. Before(entries, P(i), P(j)) /\ P(i) \in D /\ P(j) \in D
    BY <1>9, <1>11
  <2>2. /\ entries[P(i)].total \in Nat /\ entries[P(j)].total \in Nat /\ P(i) \in Nat /\ P(j) \in Nat
        /\ entries[P(i)].best.rank \in Nat /\ entries[P(j)].best.rank \in Nat
    <3>1. entries[P(i)] \in Entries(C) /\ entries[P(j)] \in Entries(C)
      BY <1>7, <2>1
    <3>2. \A e \in Entries(C) : e.total \in Nat /\ e.best.rank \in Nat
      BY DEF Entries, Candidates
    <3>3. P(i) \in Nat /\ P(j) \in Nat
      BY <1>7, <2>1
    <3> QED BY <3>1, <3>2, <3>3
  <2>3. entries[P(i)].total >= entries[P(j)].total
    BY <2>1, <2>2 DEF Before
  <2>4. P(i) # P(j)
    BY <2>1, <2>2 DEF Before
  <2> QED BY <1>10, <2>3, <2>4
<1>12. ASSUME NEW i \in D, NEW j \in D, s[i].chunk = s[j].chunk PROVE i = j
  <2>1. P(i) = P(j)
    BY <1>6, <1>9, <1>10, <1>12 DEF Apart, D
  <2>2. ~(i < j) /\ ~(j < i)
    BY <1>11, <2>1
  <2> QED BY <1>7, <2>2
<1> QED BY <1>6, <1>8, <1>11, <1>12 DEF Distinct, s

LEMMA ElementsOf ==
  ASSUME NEW S, NEW list \in Seq(S)
  PROVE  /\ list \in Seq(ToSet(list)) /\ ToSet(list) \subseteq S
         /\ \A x \in ToSet(list) : \E i \in 1..Len(list) : list[i] = x
         /\ \A i \in 1..Len(list) : list[i] \in ToSet(list)
<1>1. Len(list) \in Nat /\ DOMAIN list = 1..Len(list) /\ list \in [1..Len(list) -> S]
  BY LenProperties, SeqDef
<1>2. \A i \in 1..Len(list) : list[i] \in ToSet(list)
  BY <1>1 DEF ToSet
<1>3. \A x \in ToSet(list) : \E i \in 1..Len(list) : list[i] = x
  BY <1>1 DEF ToSet
<1>4. ToSet(list) \subseteq S
  BY <1>1, <1>3
<1>5. list \in [1..Len(list) -> ToSet(list)]
  BY <1>1, <1>2
<1> QED BY <1>1, <1>2, <1>3, <1>4, <1>5, SeqDef

\* The first of a sub-question's candidates, as many as the quota, stand early.
Early(s, F, l, quota) ==
  \A n \in 1..Len(F) : n <= quota => \E p \in DOMAIN s : p <= n * l /\ s[p] = F[n]

\* The quotas lose no candidate, and put those within them first.
LEMMA PrioritizeQuotaKeeps ==
  ASSUME NEW C, NEW cands \in Seq(Candidates(C)), Distinct(cands), NEW cov \in Covers, NEW quota \in Nat
  PROVE  LET s == PrioritizeQuota(cands, cov, quota)
         IN /\ s \in Seq(Candidates(C)) /\ Distinct(s) /\ ToSet(s) = ToSet(cands)
            /\ Len(cov) > 1 => \A g \in DOMAIN cov : Early(s, FoundBy(cands, cov[g]), Len(cov), quota)
<1> DEFINE s == PrioritizeQuota(cands, cov, quota)
           T == ToSet(cands)
           groups == [i \in DOMAIN cov |-> FoundBy(cands, cov[i])]
           r == RoundRobin(groups, quota)
           all == r \o cands
           l == Len(cov)
           Stands(g, n) == \E p \in DOMAIN s : p <= n * l /\ s[p] = groups[g][n]
<1>1. /\ l \in Nat \ {0} /\ DOMAIN cov = 1..l
      /\ cands \in Seq(T) /\ T \subseteq Candidates(C)
      /\ \A x \in T : \E i \in 1..Len(cands) : cands[i] = x
  BY CoversIs, ElementsOf
<1>1a. /\ Len(cands) \in Nat /\ DOMAIN cands = 1..Len(cands)
       /\ \A i \in 1..Len(cands) : cands[i] \in T
  BY LenProperties, ElementsOf
<1>2. /\ groups \in Seq(Seq(T)) /\ Len(groups) = l
      /\ \A g \in 1..l : groups[g] = FoundBy(cands, cov[g]) /\ groups[g] \in Seq(T)
  <2>1. \A g \in 1..l : FoundBy(cands, cov[g]) \in Seq(T)
    BY <1>1, Subsets
  <2>2. groups = [g \in 1..l |-> FoundBy(cands, cov[g])]
    BY <1>1
  <2> HIDE DEF groups, l, T
  <2>3. groups \in [1..l -> Seq(T)]
    BY <2>1, <2>2
  <2> QED BY <1>1, <2>1, <2>2, <2>3, ListOf
<1>3. r \in Seq(T) /\ all \in Seq(T) /\ all \in Seq(Candidates(C))
  <2> HIDE DEF groups, T
  <2>1. r \in Seq(T)
    BY <1>2, RoundRobinIs
  <2>2. r \in Seq(Candidates(C))
    <3>1. Len(r) \in Nat /\ r \in [1..Len(r) -> T]
      BY <2>1, LenProperties, SeqDef
    <3>2. r \in [1..Len(r) -> Candidates(C)]
      BY <1>1, <3>1
    <3> QED BY <3>1, <3>2, SeqDef
  <2> HIDE DEF r
  <2> QED BY <1>1, <2>1, <2>2, ConcatProperties
<1>4. ASSUME NEW a \in T, NEW b \in T, a.chunk = b.chunk PROVE a = b
  <2>1. PICK i \in 1..Len(cands), j \in 1..Len(cands) : cands[i] = a /\ cands[j] = b
    BY <1>1
  <2>2. i \in DOMAIN cands /\ j \in DOMAIN cands
    BY <1>1a
  <2> HIDE DEF T
  <2> QED BY <1>4, <2>1, <2>2 DEF Distinct
<1>5. CASE l <= 1 \/ cands = <<>>
  <2>1. s = cands
    BY <1>5 DEF PrioritizeQuota
  <2>2. ASSUME l > 1, NEW g \in DOMAIN cov, NEW n \in 1..Len(FoundBy(cands, cov[g])) PROVE FALSE
    <3>1. cands = <<>>
      BY <1>1, <1>5, <2>2
    <3> DEFINE I == {i \in DOMAIN cands : cands[i].query = cov[g]}
    <3>2. FoundBy(cands, cov[g]) = Sublist(cands, I)
      BY DEF FoundBy
    <3>3. I = {}
      BY <3>1
    <3>4. I \in SUBSET DOMAIN cands
      OBVIOUS
    <3> HIDE DEF I
    <3>5. Len(Sublist(cands, I)) = Cardinality(I)
      BY <3>4, SublistIs
    <3>6. Len(FoundBy(cands, cov[g])) = 0
      BY <3>2, <3>3, <3>5, FS_EmptySet
    <3>7. 1..0 = {}
      OBVIOUS
    <3> QED BY <2>2, <3>6, <3>7
  <2>3. l > 1 => \A g \in DOMAIN cov : Early(s, FoundBy(cands, cov[g]), l, quota)
    BY <2>2 DEF Early
  <2>4. cands \in Seq(Candidates(C)) /\ Distinct(cands) /\ ToSet(cands) = ToSet(cands)
    OBVIOUS
  <2> HIDE DEF s
  <2> QED BY <2>1, <2>3, <2>4 DEF s, l
<1>6. CASE l > 1 /\ cands # <<>>
  <2>1. s = OncePerChunk(all)
    <3>1. ~(l <= 1)
      BY <1>1, <1>6
    <3> QED BY <1>6, <3>1 DEF PrioritizeQuota, Merge
  <2>2. s \in Seq(Candidates(C)) /\ s \in Seq(T) /\ Distinct(s)
    <3> HIDE DEF all, s, T
    <3> QED BY <1>3, <2>1, Subsets, OncePerChunkDistinct
  <2> HIDE DEF s, all
  <2>3. /\ \A p \in DOMAIN all : \E n \in DOMAIN s : n <= p /\ s[n].chunk = all[p].chunk
        /\ DOMAIN s = 1..Len(s) /\ Len(s) \in Nat /\ \A n \in 1..Len(s) : s[n] \in T
        /\ DOMAIN all = 1..Len(all) /\ \A p \in 1..Len(all) : all[p] \in T
    <3> HIDE DEF T
    <3>1. \A p \in DOMAIN all : \E n \in DOMAIN s : n <= p /\ s[n].chunk = all[p].chunk
      BY <1>3, <2>1, OncePerChunkKeeps
    <3>2. DOMAIN s = 1..Len(s) /\ Len(s) \in Nat /\ \A n \in 1..Len(s) : s[n] \in T
      BY <2>2, LenProperties, ElementOfSeq
    <3>3. DOMAIN all = 1..Len(all) /\ \A p \in 1..Len(all) : all[p] \in T
      BY <1>3, LenProperties, ElementOfSeq
    <3> QED BY <3>1, <3>2, <3>3
  <2>4. ASSUME NEW p \in 1..Len(all) PROVE \E n \in DOMAIN s : n <= p /\ s[n] = all[p]
    BY <1>4, <2>3
  <2>5. /\ Len(all) = Len(r) + Len(cands) /\ Len(r) \in Nat /\ DOMAIN r = 1..Len(r)
        /\ \A p \in 1..Len(r) : p \in 1..Len(all) /\ all[p] = r[p]
        /\ \A i \in 1..Len(cands) : Len(r) + i \in 1..Len(all) /\ all[Len(r) + i] = cands[i]
    <3> HIDE DEF T, r
    <3>1. /\ Len(all) = Len(r) + Len(cands) /\ Len(r) \in Nat /\ DOMAIN r = 1..Len(r)
          /\ \A p \in 1..(Len(r) + Len(cands)) : all[p] = IF p <= Len(r) THEN r[p] ELSE cands[p - Len(r)]
      BY <1>1, <1>3, ConcatProperties, LenProperties DEF all
    <3>2. ASSUME NEW p \in 1..Len(r) PROVE p \in 1..Len(all) /\ all[p] = r[p]
      BY <1>1a, <3>1
    <3>3. ASSUME NEW i \in 1..Len(cands) PROVE Len(r) + i \in 1..Len(all) /\ all[Len(r) + i] = cands[i]
      <4> DEFINE p == Len(r) + i
      <4>1. p \in 1..(Len(r) + Len(cands)) /\ ~(p <= Len(r)) /\ p - Len(r) = i
        BY <1>1a, <3>1
      <4> HIDE DEF p
      <4>2. all[p] = cands[i]
        BY <3>1, <4>1
      <4> QED BY <3>1, <4>1, <4>2 DEF p
    <3> QED BY <3>1, <3>2, <3>3
  <2>6. ToSet(s) = T
    <3>1. ToSet(s) \subseteq T
      BY <2>2, ElementsOf
    <3>2. ASSUME NEW x \in T PROVE x \in ToSet(s)
      <4>1. PICK i \in 1..Len(cands) : cands[i] = x
        BY <1>1
      <4>2. PICK n \in DOMAIN s : s[n] = all[Len(r) + i]
        BY <2>4, <2>5
      <4>3. s[n] = x
        BY <2>5, <4>1, <4>2
      <4> QED BY <4>3 DEF ToSet
    <3> QED BY <3>1, <3>2
  <2>7. ASSUME NEW g \in 1..l, NEW n \in 1..Len(groups[g]), n <= quota
        PROVE  Stands(g, n)
    <3>1. PICK p \in DOMAIN r : p <= n * l /\ r[p] = groups[g][n]
      <4> HIDE DEF T, groups
      <4>1. g \in 1..Len(groups)
        BY <1>2
      <4> QED BY <1>2, <2>7, <4>1, RoundRobinPlaces
    <3>2. p \in 1..Len(all) /\ all[p] = r[p]
      BY <2>5
    <3>3. PICK m \in DOMAIN s : m <= p /\ s[m] = all[p]
      BY <2>4, <3>2
    <3>4. m <= n * l
      <4>1. n \in Nat /\ l \in Nat
        BY <1>1
      <4> HIDE DEF l
      <4>2. n * l \in Nat
        BY <4>1
      <4>3. m \in Nat /\ p \in Nat
        BY <2>3, <3>2
      <4> HIDE DEF groups, r
      <4> QED BY <3>1, <3>3, <4>2, <4>3
    <3> HIDE DEF r, groups
    <3> QED BY <3>1, <3>2, <3>3, <3>4
  <2> HIDE DEF T, groups, l, Stands
  <2>8. ASSUME NEW g \in DOMAIN cov, NEW n \in 1..Len(FoundBy(cands, cov[g])), n <= quota
        PROVE  \E p \in DOMAIN s : p <= n * l /\ s[p] = FoundBy(cands, cov[g])[n]
    <3>1. groups[g] = FoundBy(cands, cov[g]) /\ g \in 1..l
      BY <1>1, <1>2
    <3> QED BY <2>7, <2>8, <3>1 DEF Stands
  <2>9. \A g \in DOMAIN cov : Early(s, FoundBy(cands, cov[g]), l, quota)
    BY <2>8 DEF Early
  <2> QED BY <2>2, <2>6, <2>9 DEF s, T, l
<1> QED BY <1>1, <1>5, <1>6

LEMMA ShareIsWithinQuota ==
  ASSUME NEW cov \in Covers, NEW total \in Nat \ {0}
  PROVE  /\ total \div Len(cov) \in Nat /\ (total \div Len(cov)) * Len(cov) <= total
         /\ total \div Len(cov) <= QuotaOf(total, cov)
<1> DEFINE l == Len(cov)
           a == total \div l
           t == total + l - 1
           b == t \div l
           r == total % l
           r2 == t % l
<1>1. l \in Nat \ {0}
  BY CoversIs
<1> HIDE DEF l
<1>2. t \in Nat /\ total \in Nat
  BY <1>1
<1> HIDE DEF t
<1>3. a \in Nat /\ b \in Nat /\ r \in 0..(l - 1) /\ r2 \in 0..(l - 1)
  BY <1>1, <1>2, Division
<1>4. total = l * a + r /\ t = l * b + r2
  BY <1>1, <1>2
<1> HIDE DEF a, b, r, r2
<1>5. l * a \in Nat /\ a * l = l * a /\ l * b = b * l /\ l * b \in Nat
  BY <1>1, <1>3
<1>6. a * l <= total
  BY <1>1, <1>3, <1>4, <1>5
<1>7. ASSUME b < a PROVE FALSE
  <2>1. b + 1 \in Nat /\ b + 1 <= a /\ l \in Nat
    BY <1>1, <1>3, <1>7
  <2>2. (b + 1) * l <= a * l
    BY <1>3, <2>1, Multiples
  <2>3. (b + 1) * l = b * l + l
    BY <1>3, <2>1
  <2> QED BY <1>1, <1>2, <1>3, <1>4, <1>5, <2>2, <2>3 DEF t
<1>8. QuotaOf(total, cov) = AtLeast(b, 1)
  <2>1. AtLeast(total, 1) = total
    BY <1>2 DEF AtLeast
  <2> QED BY <2>1 DEF QuotaOf, b, t, l
<1>9. a <= QuotaOf(total, cov)
  BY <1>3, <1>7, <1>8 DEF AtLeast
<1> QED BY <1>3, <1>6, <1>9 DEF a, l

LEMMA FoundByIs ==
  ASSUME NEW C, NEW cands \in Seq(Candidates(C)), Distinct(cands), NEW q
  PROVE  LET F == FoundBy(cands, q)
         IN /\ F \in Seq(Candidates(C)) /\ Distinct(F) /\ \A n \in 1..Len(F) : F[n].query = q
            /\ \A x \in ToSet(cands) : x.query = q => \E n \in 1..Len(F) : F[n] = x
<1> DEFINE I == {i \in DOMAIN cands : cands[i].query = q}
           F == FoundBy(cands, q)
<1>1. F = Sublist(cands, I) /\ I \in SUBSET DOMAIN cands
  BY DEF FoundBy
<1>2. \A i, j \in I : cands[i].chunk = cands[j].chunk => i = j
  BY DEF Distinct
<1> HIDE DEF F
<1>3. /\ \A i \in I : cands[i].query = q
      /\ \A x \in ToSet(cands) : x.query = q => \E i \in I : cands[i] = x
  BY DEF ToSet
<1> HIDE DEF I
<1>4. /\ F \in Seq(Candidates(C)) /\ Len(F) = Cardinality(I) /\ Distinct(F)
      /\ \A n \in 1..Cardinality(I) : Nth(I, n) \in I /\ F[n] = cands[Nth(I, n)]
      /\ \A i \in I : \E n \in 1..Cardinality(I) : Nth(I, n) = i
  BY <1>1, <1>2, SublistIs, SublistDistinct
<1>5. \A n \in 1..Len(F) : F[n].query = q
  BY <1>3, <1>4
<1>6. ASSUME NEW x \in ToSet(cands), x.query = q PROVE \E n \in 1..Len(F) : F[n] = x
  <2>1. PICK i \in I : cands[i] = x
    BY <1>3, <1>6
  <2>2. PICK n \in 1..Cardinality(I) : Nth(I, n) = i
    BY <1>4
  <2> QED BY <1>4, <2>1, <2>2
<1> QED BY <1>4, <1>5, <1>6 DEF F

\* So many of a sub-question's candidates, or all of them, come before the limit.
LEMMA QuotaKept ==
  ASSUME NEW C, NEW cands \in Seq(Candidates(C)), Distinct(cands), NEW cov \in Covers, Len(cov) > 1,
         NEW total \in Nat \ {0}, NEW limit \in Nat, total <= limit, NEW q \in ToSet(cov)
  PROVE  LET s == PrioritizeQuota(cands, cov, QuotaOf(total, cov))
             quota == total \div Len(cov)
             all   == Cardinality(Found(s, q))
         IN Cardinality(Found(Prefix(s, limit), q)) >= (IF all < quota THEN all ELSE quota)
<1> DEFINE s == PrioritizeQuota(cands, cov, QuotaOf(total, cov))
           F == FoundBy(cands, q)
           l == Len(cov)
           quota == total \div l
           head == Prefix(s, limit)
           all == Cardinality(Found(s, q))
           m == IF all < quota THEN all ELSE quota
           Q == Found(head, q)
<1>1. PICK g \in DOMAIN cov : cov[g] = q
  BY DEF ToSet
<1>2. /\ quota \in Nat /\ quota * l <= total /\ quota <= QuotaOf(total, cov) /\ QuotaOf(total, cov) \in Nat
      /\ l \in Nat \ {0}
  BY ShareIsWithinQuota, CoversIs
<1>3. /\ F \in Seq(Candidates(C)) /\ Distinct(F) /\ \A n \in 1..Len(F) : F[n].query = q
      /\ \A x \in ToSet(cands) : x.query = q => \E n \in 1..Len(F) : F[n] = x
  BY FoundByIs
<1>4. /\ s \in Seq(Candidates(C)) /\ Distinct(s) /\ ToSet(s) = ToSet(cands)
      /\ Early(s, F, l, QuotaOf(total, cov))
  BY <1>1, <1>2, PrioritizeQuotaKeeps
<1> HIDE DEF s, F, quota, l
<1>5. Len(s) \in Nat /\ DOMAIN s = 1..Len(s) /\ Len(F) \in Nat /\ DOMAIN F = 1..Len(F)
  BY <1>3, <1>4, LenProperties
<1>6. all \in Nat /\ all <= Len(F)
  <2> DEFINE A == Found(s, q)
             h == [i \in A |-> CHOOSE n \in 1..Len(F) : F[n] = s[i]]
  <2>1. A \subseteq 1..Len(s) /\ \A i \in A : s[i].query = q /\ s[i] \in ToSet(cands)
    BY <1>4, <1>5 DEF Found, ToSet
  <2>2. IsFiniteSet(A)
    <3>1. IsFiniteSet(1..Len(s))
      BY <1>5, Interval
    <3> HIDE DEF A
    <3> QED BY <2>1, <3>1, FS_Subset
  <2>3. ASSUME NEW i \in A PROVE h[i] \in 1..Len(F) /\ F[h[i]] = s[i]
    <3>1. \E n \in 1..Len(F) : F[n] = s[i]
      BY <1>3, <2>1
    <3> QED BY <3>1
  <2> HIDE DEF A
  <2>4. h \in [A -> 1..Len(F)]
    BY <2>3
  <2> HIDE DEF h
  <2>5. ASSUME NEW i \in A, NEW j \in A, h[i] = h[j] PROVE i = j
    <3>1. s[i] = s[j] /\ i \in DOMAIN s /\ j \in DOMAIN s
      BY <1>5, <2>1, <2>3, <2>5
    <3> QED BY <1>4, <3>1 DEF Distinct
  <2>6. h \in Injection(A, 1..Len(F))
    BY <2>4, <2>5 DEF Injection, IsInjective
  <2>7. IsFiniteSet(1..Len(F)) /\ Cardinality(1..Len(F)) = Len(F)
    BY <1>5, Interval
  <2>8. Cardinality(A) <= Cardinality(1..Len(F))
    BY <2>6, <2>7, FS_Injection
  <2>9. Cardinality(A) \in Nat
    BY <2>2, FS_CardinalityType
  <2> QED BY <2>7, <2>8, <2>9 DEF A
<1> HIDE DEF all
<1>7. m \in Nat /\ m <= quota /\ m <= Len(F)
  BY <1>2, <1>5, <1>6
<1>8. /\ head \in Seq(Candidates(C)) /\ Len(head) = IF limit < Len(s) THEN limit ELSE Len(s)
      /\ \A i \in 1..Len(head) : head[i] = s[i]
  BY <1>4, PrefixIs
<1> HIDE DEF m, head
<1>9. Len(head) \in Nat /\ DOMAIN head = 1..Len(head)
  BY <1>8, LenProperties
<1>10. ASSUME NEW n \in 1..m PROVE \E p \in Q : head[p] = F[n]
  <2>1. n \in 1..Len(F) /\ n <= QuotaOf(total, cov) /\ n <= quota /\ n \in Nat
    BY <1>2, <1>5, <1>7
  <2>2. PICK p \in DOMAIN s : p <= n * l /\ s[p] = F[n]
    BY <1>4, <2>1 DEF Early
  <2>3. n * l <= quota * l
    BY <1>2, <2>1, Multiples
  <2>4. n * l \in Nat /\ quota * l \in Nat
    BY <1>2, <2>1
  <2>5. p \in 1..Len(s) /\ p <= limit
    BY <1>2, <1>5, <2>2, <2>3, <2>4
  <2>6. p \in 1..Len(head)
    BY <1>5, <1>8, <2>5
  <2>7. head[p] = F[n] /\ F[n].query = q
    BY <1>3, <1>8, <2>1, <2>2, <2>6
  <2> QED BY <1>9, <2>6, <2>7 DEF Found
<1> DEFINE k == [n \in 1..m |-> CHOOSE p \in Q : head[p] = F[n]]
<1>11. ASSUME NEW n \in 1..m PROVE k[n] \in Q /\ head[k[n]] = F[n]
  <2> HIDE DEF Q
  <2> QED BY <1>10
<1>12. IsFiniteSet(Q) /\ Cardinality(Q) \in Nat
  <2>1. Q \subseteq 1..Len(head)
    BY <1>9 DEF Found
  <2>2. IsFiniteSet(1..Len(head))
    BY <1>9, Interval
  <2> HIDE DEF Q
  <2> QED BY <2>1, <2>2, FS_Subset, FS_CardinalityType
<1> HIDE DEF Q
<1>13. k \in [1..m -> Q]
  BY <1>11
<1> HIDE DEF k
<1>14. ASSUME NEW n \in 1..m, NEW o \in 1..m, k[n] = k[o] PROVE n = o
  <2>1. F[n] = F[o] /\ n \in DOMAIN F /\ o \in DOMAIN F
    BY <1>5, <1>7, <1>11, <1>14
  <2> QED BY <1>3, <2>1 DEF Distinct
<1>15. k \in Injection(1..m, Q)
  BY <1>13, <1>14 DEF Injection, IsInjective
<1>16. Cardinality(1..m) <= Cardinality(Q) /\ Cardinality(1..m) = m
  BY <1>7, <1>12, <1>15, FS_Injection, Interval
<1> QED BY <1>7, <1>12, <1>16 DEF m, Q, head, s, quota, l, all

LEMMA RecallStarvesNone ==
  ASSUME RankingInv, NEW found \in Recalls, Recall(found)
  PROVE  NothingStarved'
<1> DEFINE raw == RawCandidates(found)
           f == fused'
           o == offered'
<1>1. stage = "recall" /\ Searched /\ queries' = queries /\ Cov' = Cov /\ GateLimit' = GateLimit
  BY DEF Recall, RankingInv, Cov, GateLimit
<1>2. Cov \in Covers /\ GateLimit \in Nat /\ RerankInput \in Nat \ {0} /\ RerankInput <= GateLimit /\ Len(Cov) \in Nat
  <2>1. Cov \in Covers /\ GateLimit \in Nat
    BY <1>1, CovIs
  <2>2. Len(Cov) \in Nat
    BY <2>1, CoversIs
  <2> QED BY <2>1, <2>2, QuestionAssumption DEF GateLimit, AtLeast
<1>3. /\ f \in Seq(Candidates(Chunks)) /\ Distinct(f)
      /\ \A i, j \in DOMAIN f : i < j => f[i].score >= f[j].score
  <2>1. raw \in Seq(Candidates(Chunks))
    BY <1>1, RawIs DEF Searched
  <2>2. f = Fuse(raw)
    BY DEF Recall
  <2> HIDE DEF raw, f
  <2> QED BY <2>1, <2>2, FuseIs, FuseOrders
<1>4. o = PrioritizeQuota(f, Cov, QuotaOf(RerankInput, Cov))
  BY DEF Recall
<1> HIDE DEF f, o, raw
<1>5. QuotaOf(RerankInput, Cov) \in Nat
  BY <1>2, CoversIs
<1>6. o \in Seq(Candidates(Chunks)) /\ Distinct(o) /\ ToSet(o) = ToSet(f)
  BY <1>2, <1>3, <1>4, <1>5, PrioritizeQuotaKeeps
<1>7. Once(f) /\ Once(o)
  BY <1>3, <1>6, OnceIs
<1>8. FusionKeepsAll'
  BY <1>3, <1>6, <1>7 DEF FusionKeepsAll, f, o
<1>9. ASSUME Len(Cov) > 1, NEW q \in ToSet(Cov)
      PROVE  LET quota == RerankInput \div Len(Cov)
                 all   == Cardinality(Found(o, q))
             IN Cardinality(Found(Prefix(o, GateLimit), q)) >= (IF all < quota THEN all ELSE quota)
  BY <1>2, <1>3, <1>4, <1>9, QuotaKept
<1>10. QuotaBeforeLimit'
  BY <1>1, <1>9 DEF QuotaBeforeLimit, o
<1> QED BY <1>8, <1>10 DEF NothingStarved

LEMMA StarvationStep == RankingInv /\ NothingStarved /\ [RankingNext]_rankingVars => NothingStarved'
<1> SUFFICES ASSUME RankingInv, NothingStarved, [RankingNext]_rankingVars PROVE NothingStarved'
  OBVIOUS
<1>1. CASE \E found \in Recalls : Recall(found)
  BY <1>1, RecallStarvesNone
<1>2. CASE stage' # "gate"
  BY <1>2 DEF NothingStarved, FusionKeepsAll, QuotaBeforeLimit
<1>3. CASE UNCHANGED rankingVars
  <2>1. queries' = queries /\ stage' = stage /\ fused' = fused /\ offered' = offered
    BY <1>3 DEF rankingVars
  <2>2. Cov' = Cov
    BY <2>1 DEF Cov
  <2>3. GateLimit' = GateLimit
    BY <2>2 DEF GateLimit
  <2>4. FusionKeepsAll'
    BY <2>1 DEF NothingStarved, FusionKeepsAll, Once, ChunksOf
  <2>5. QuotaBeforeLimit'
    BY <2>1, <2>2, <2>3 DEF NothingStarved, QuotaBeforeLimit
  <2> QED BY <2>4, <2>5 DEF NothingStarved
<1>4. ASSUME RankingNext, ~ \E found \in Recalls : Recall(found) PROVE stage' # "gate"
  <2>1. CASE \E texts \in Fallbacks, r \in Responses \cup {Nothing} : Rewrite(FallbackItems(texts), r)
    BY <2>1 DEF Rewrite
  <2>2. CASE \E readable \in Readable : Gate(readable)
    BY <2>2 DEF Gate
  <2>3. CASE \E reply \in [ToSet(Cov) -> Replies] : RerankAdmitted(reply)
    BY <2>3 DEF RerankAdmitted
  <2>4. CASE Filter
    BY <2>4 DEF Filter
  <2>5. CASE \E readable \in Readable : Expand(readable)
    BY <2>5 DEF Expand
  <2>6. CASE CiteOnly
    BY <2>6 DEF CiteOnly
  <2>7. CASE \E loaded \in {Chunks} \cup {Chunks \ {c} : c \in Chunks} : Build(loaded)
    BY <2>7 DEF Build
  <2>8. CASE \E said \in Said : Generate(said)
    BY <2>8 DEF Generate
  <2>9. CASE Explain
    BY <2>9 DEF Explain
  <2> QED BY <1>4, <2>1, <2>2, <2>3, <2>4, <2>5, <2>6, <2>7, <2>8, <2>9 DEF RankingNext
<1> QED BY <1>1, <1>2, <1>3, <1>4

LEMMA NoneStarvedAtFirst == RankingInit => NothingStarved
  BY DEF RankingInit, NothingStarved, FusionKeepsAll, QuotaBeforeLimit

\* The ranking loses no candidate between fusion and the permission gate, and
\* keeps every sub-question's share before the place where the gate stops
\* (fuse, _prioritize_query_quota and the limit of the candidate gate).
THEOREM NothingIsStarved == RankingSpec => []NothingStarved
<1>1. RankingInv /\ NothingStarved /\ [RankingNext]_rankingVars => NothingStarved'
  BY StarvationStep
<1>2. RankingInit => NothingStarved
  BY NoneStarvedAtFirst
<1> QED BY <1>1, <1>2, RankingAlways, PTL DEF RankingSpec

-----------------------------------------------------------------------------
(* A sub-question that has an answer keeps it.                             *)

\* MadeAt most one first candidate per query that has to be covered.
LEMMA FirstOfQueries ==
  ASSUME NEW C, NEW list \in Seq(Candidates(C)), NEW cov \in Covers
  PROVE  LET I == {i \in DOMAIN list : /\ list[i].query \in ToSet(cov)
                                       /\ \A j \in 1..(i - 1) : list[j].query # list[i].query}
         IN /\ I \in SUBSET DOMAIN list /\ FirstPerQuery(list, cov) = Sublist(list, I)
            /\ Cardinality(I) <= Len(cov)
<1> DEFINE I == {i \in DOMAIN list : /\ list[i].query \in ToSet(cov)
                                     /\ \A j \in 1..(i - 1) : list[j].query # list[i].query}
           h == [i \in I |-> CHOOSE g \in 1..Len(cov) : cov[g] = list[i].query]
<1>1. I \in SUBSET DOMAIN list /\ FirstPerQuery(list, cov) = Sublist(list, I)
  BY DEF FirstPerQuery
<1>2. Len(cov) \in Nat /\ DOMAIN cov = 1..Len(cov) /\ DOMAIN list = 1..Len(list) /\ Len(list) \in Nat
  BY CoversIs, LenProperties
<1>3. ASSUME NEW i \in I PROVE h[i] \in 1..Len(cov) /\ cov[h[i]] = list[i].query
  <2>1. \E g \in 1..Len(cov) : cov[g] = list[i].query
    BY <1>2 DEF ToSet
  <2> QED BY <2>1
<1>4. ASSUME NEW i \in I, NEW j \in I, list[i].query = list[j].query PROVE i = j
  <2>1. i \in Nat /\ j \in Nat /\ i >= 1 /\ j >= 1
    BY <1>2
  <2>2. i < j => i \in 1..(j - 1)
    BY <2>1
  <2>3. j < i => j \in 1..(i - 1)
    BY <2>1
  <2> QED BY <1>4, <2>1, <2>2, <2>3
<1> HIDE DEF I
<1>5. h \in [I -> 1..Len(cov)]
  BY <1>3
<1> HIDE DEF h
<1>6. ASSUME NEW i \in I, NEW j \in I, h[i] = h[j] PROVE i = j
  BY <1>3, <1>4, <1>6
<1>7. h \in Injection(I, 1..Len(cov))
  BY <1>5, <1>6 DEF Injection, IsInjective
<1>8. IsFiniteSet(1..Len(cov)) /\ Cardinality(1..Len(cov)) = Len(cov)
  BY <1>2, Interval
<1>9. Cardinality(I) <= Len(cov)
  BY <1>7, <1>8, FS_Injection
<1> QED BY <1>1, <1>9 DEF I

CoversFirsts(s, list, cov) ==
  \A i \in DOMAIN list :
    list[i].query \in ToSet(cov) /\ (\A j \in 1..(i - 1) : list[j].query # list[i].query)
      => \E n \in DOMAIN s : s[n] = list[i]

\* The selection repeats no chunk and keeps the first candidate of a query.
LEMMA SelectionCovers ==
  ASSUME NEW C, NEW list \in Seq(Candidates(C)), Distinct(list), NEW cov \in Covers, NEW limit \in Nat, 1 <= limit
  PROVE  LET s == SelectWithCoverage(list, cov, limit)
         IN s \in Seq(Candidates(C)) /\ Distinct(s) /\ CoversFirsts(s, list, cov)
<1> DEFINE s == SelectWithCoverage(list, cov, limit)
           I == {i \in DOMAIN list : /\ list[i].query \in ToSet(cov)
                                     /\ \A j \in 1..(i - 1) : list[j].query # list[i].query}
           T == ToSet(list)
           first == Sublist(list, I)
           all == first \o list
           once == OncePerChunk(all)
           most == AtLeast(limit, AtLeast(Len(cov), 1))
<1>1. I \in SUBSET DOMAIN list /\ FirstPerQuery(list, cov) = first /\ Cardinality(I) <= Len(cov)
  BY FirstOfQueries
<1>2. Len(cov) \in Nat /\ most \in Nat /\ Len(cov) <= most
  <2>1. Len(cov) \in Nat /\ most \in Nat
    BY CoversIs
  <2> QED BY <2>1 DEF AtLeast
<1>3. s = IF list = <<>> THEN <<>> ELSE Prefix(once, most)
  <2>1. ~(limit <= 0)
    OBVIOUS
  <2> HIDE DEF first, I
  <2> QED BY <1>1, <2>1 DEF SelectWithCoverage, Merge
<1>4. CASE list = <<>>
  <2>1. s = <<>> /\ DOMAIN list = {}
    BY <1>3, <1>4
  <2>2. s \in Seq(Candidates(C)) /\ Distinct(s)
    BY <2>1, EmptySeq DEF Distinct
  <2>3. CoversFirsts(s, list, cov)
    BY <2>1 DEF CoversFirsts
  <2> HIDE DEF s
  <2> QED BY <2>2, <2>3 DEF s
<1>5. CASE list # <<>>
  <2>1. /\ list \in Seq(T) /\ T \subseteq Candidates(C)
        /\ \A x \in T : \E i \in 1..Len(list) : list[i] = x
        /\ \A i \in 1..Len(list) : list[i] \in T
        /\ Len(list) \in Nat /\ DOMAIN list = 1..Len(list)
    BY ElementsOf, LenProperties
  <2>2. ASSUME NEW a \in T, NEW b \in T, a.chunk = b.chunk PROVE a = b
    <3>1. PICK i \in 1..Len(list), j \in 1..Len(list) : list[i] = a /\ list[j] = b
      BY <2>1
    <3>2. i \in DOMAIN list /\ j \in DOMAIN list
      BY <2>1
    <3> HIDE DEF T
    <3> QED BY <2>2, <3>1, <3>2 DEF Distinct
  <2> HIDE DEF T, I
  <2>3. /\ first \in Seq(T) /\ first \in Seq(Candidates(C)) /\ Len(first) = Cardinality(I) /\ Len(first) \in Nat
        /\ \A i \in I : \E n \in 1..Len(first) : first[n] = list[i]
    <3>1. /\ first \in Seq(T) /\ Len(first) = Cardinality(I) /\ first \in Seq(Candidates(C))
          /\ \A n \in 1..Cardinality(I) : Nth(I, n) \in I /\ first[n] = list[Nth(I, n)]
          /\ \A i \in I : \E n \in 1..Cardinality(I) : Nth(I, n) = i
      BY <1>1, <2>1, SublistIs
    <3> HIDE DEF first
    <3>2. \A i \in I : \E n \in 1..Len(first) : first[n] = list[i]
      BY <3>1
    <3> QED BY <3>1, <3>2, LenProperties
  <2> HIDE DEF first
  <2>4. /\ all \in Seq(T) /\ all \in Seq(Candidates(C)) /\ Len(all) = Len(first) + Len(list)
        /\ \A p \in 1..Len(first) : p \in 1..Len(all) /\ all[p] = first[p]
    <3>1. /\ all \in Seq(T) /\ all \in Seq(Candidates(C)) /\ Len(all) = Len(first) + Len(list)
          /\ \A p \in 1..(Len(first) + Len(list)) : all[p] = IF p <= Len(first) THEN first[p] ELSE list[p - Len(first)]
      BY <2>1, <2>3, ConcatProperties
    <3> HIDE DEF all
    <3> QED BY <2>1, <2>3, <3>1
  <2> HIDE DEF all
  <2>5. /\ once \in Seq(T) /\ once \in Seq(Candidates(C)) /\ Distinct(once)
        /\ \A p \in DOMAIN all : \E n \in DOMAIN once : n <= p /\ once[n].chunk = all[p].chunk
    BY <2>4, Subsets, OncePerChunkDistinct, OncePerChunkKeeps
  <2> HIDE DEF once
  <2>6. /\ DOMAIN once = 1..Len(once) /\ Len(once) \in Nat /\ \A n \in 1..Len(once) : once[n] \in T
        /\ DOMAIN all = 1..Len(all) /\ \A p \in 1..Len(all) : all[p] \in T
    BY <2>4, <2>5, LenProperties, ElementOfSeq
  <2>7. s = Prefix(once, most)
    BY <1>3, <1>5
  <2> HIDE DEF s, most
  <2>8. /\ s \in Seq(Candidates(C)) /\ Distinct(s) /\ Len(s) = (IF most < Len(once) THEN most ELSE Len(once))
        /\ \A n \in 1..Len(s) : s[n] = once[n]
    BY <1>2, <2>5, <2>7, PrefixIs, PrefixDistinct
  <2>9. ASSUME NEW i \in I PROVE \E n \in DOMAIN s : s[n] = list[i]
    <3>1. PICK p \in 1..Len(first) : first[p] = list[i]
      BY <2>3
    <3>2. p \in 1..Len(all) /\ all[p] = list[i] /\ p <= most /\ p \in Nat
      BY <1>1, <1>2, <2>3, <2>4, <3>1
    <3>3. PICK n \in DOMAIN once : n <= p /\ once[n].chunk = all[p].chunk
      BY <2>5, <2>6, <3>2
    <3>4. once[n] = all[p]
      BY <2>2, <2>6, <3>2, <3>3
    <3>5. n \in 1..Len(s)
      BY <1>2, <2>6, <2>8, <3>2, <3>3
    <3>6. DOMAIN s = 1..Len(s)
      BY <2>8, LenProperties
    <3> QED BY <2>8, <3>2, <3>4, <3>5, <3>6
  <2>10. CoversFirsts(s, list, cov)
    BY <2>9 DEF CoversFirsts, I
  <2> QED BY <2>8, <2>10 DEF s
<1> QED BY <1>4, <1>5

LEMMA GatesDistinct ==
  ASSUME NEW C, NEW r, r.list \in Seq(Candidates(C)), Distinct(r.list),
         NEW cands \in Seq(Candidates(C)), Distinct(cands)
  PROVE  /\ Distinct(RelevanceGate(r).list) /\ Distinct(QualityGate(cands, r).list)
         /\ \A i \in DOMAIN cands :
              Trusted(r) \/ (cands[i].score >= MinFusion /\ cands[i].base >= MinSource)
                => \E n \in DOMAIN QualityGate(cands, r).list : QualityGate(cands, r).list[n] = cands[i]
<1>1. \A list \in Seq(Candidates(C)) : Distinct(list) => \A I \in SUBSET DOMAIN list : Distinct(Sublist(list, I))
  <2>1. ASSUME NEW list \in Seq(Candidates(C)), Distinct(list), NEW I \in SUBSET DOMAIN list
        PROVE  Distinct(Sublist(list, I))
    <3>1. \A i, j \in I : list[i].chunk = list[j].chunk => i = j
      BY <2>1 DEF Distinct
    <3> QED BY <3>1, SublistDistinct
  <2> QED BY <2>1
<1>2. Distinct(RelevanceGate(r).list)
  BY <1>1 DEF RelevanceGate
<1> DEFINE I == {i \in DOMAIN cands : cands[i].score >= MinFusion /\ cands[i].base >= MinSource}
           good == QualityGate(cands, r).list
           accepted == Sublist(cands, I)
<1>3. I \in SUBSET DOMAIN cands
  OBVIOUS
<1>4. good = IF cands = <<>> \/ Trusted(r) THEN cands ELSE accepted
  BY DEF QualityGate
<1> HIDE DEF I
<1>5. /\ DOMAIN accepted = 1..Cardinality(I) /\ Distinct(accepted)
      /\ \A i \in I : \E n \in DOMAIN accepted : accepted[n] = cands[i]
  <2>1. DOMAIN accepted = 1..Cardinality(I)
    BY DEF Sublist
  <2>2. \A i \in I : \E n \in 1..Cardinality(I) : Nth(I, n) = i /\ accepted[n] = cands[i]
    <3> HIDE DEF accepted
    <3>1. /\ \A i \in I : \E n \in 1..Cardinality(I) : Nth(I, n) = i
          /\ \A n \in 1..Cardinality(I) : accepted[n] = cands[Nth(I, n)]
      BY <1>3, SublistIs DEF accepted
    <3> QED BY <3>1
  <2>3. Distinct(accepted)
    BY <1>1, <1>3
  <2> HIDE DEF accepted
  <2> QED BY <2>1, <2>2, <2>3
<1> HIDE DEF good, accepted
<1>6. Distinct(good)
  BY <1>4, <1>5
<1>7. ASSUME NEW i \in DOMAIN cands,
             Trusted(r) \/ (cands[i].score >= MinFusion /\ cands[i].base >= MinSource)
      PROVE  \E n \in DOMAIN good : good[n] = cands[i]
  <2>1. CASE cands = <<>> \/ Trusted(r)
    BY <1>4, <2>1
  <2>2. CASE ~(cands = <<>> \/ Trusted(r))
    <3>1. i \in I
      BY <1>7, <2>2 DEF I
    <3> QED BY <1>4, <1>5, <2>2, <3>1
  <2> QED BY <2>1, <2>2
<1> QED BY <1>2, <1>6, <1>7 DEF good

\* What the gates and both selections leave of a sub-question that passes.
LEMMA SelectionsCover ==
  ASSUME NEW C, NEW r, r.list \in Seq(Candidates(C)), Distinct(r.list),
         NEW cov \in Covers, NEW limit \in Nat, 1 <= limit, NEW q \in ToSet(cov),
         NEW i \in Found(RelevanceGate(r).list, q),
         \A j \in Found(RelevanceGate(r).list, q) : i <= j,
         LET c == RelevanceGate(r).list[i]
         IN Trusted(r) \/ (c.score >= MinFusion /\ c.base >= MinSource)
  PROVE  LET selected == SelectWithCoverage(RelevanceGate(r).list, cov, limit)
         IN Found(SelectWithCoverage(QualityGate(selected, r).list, cov, limit), q) # {}
<1> DEFINE list == RelevanceGate(r).list
           selected == SelectWithCoverage(list, cov, limit)
           good == QualityGate(selected, r).list
           last == SelectWithCoverage(good, cov, limit)
<1>1. list \in Seq(Candidates(C)) /\ Distinct(list)
  BY GatesKeep, GatesDistinct
<1>2. /\ i \in DOMAIN list /\ list[i].query = q
      /\ Trusted(r) \/ (list[i].score >= MinFusion /\ list[i].base >= MinSource)
      /\ \A j \in DOMAIN list : list[j].query = q => i <= j
  BY DEF Found
<1> HIDE DEF list
<1>3. /\ selected \in Seq(Candidates(C)) /\ Distinct(selected)
      /\ \E n \in DOMAIN selected : selected[n] = list[i]
  <2>1. ASSUME NEW j \in 1..(i - 1) PROVE list[j].query # list[i].query
    <3>1. DOMAIN list = 1..Len(list) /\ Len(list) \in Nat
      BY <1>1, LenProperties
    <3>2. j \in DOMAIN list /\ ~(i <= j)
      BY <1>2, <3>1
    <3> QED BY <1>2, <3>2
  <2>2. selected \in Seq(Candidates(C)) /\ Distinct(selected) /\ CoversFirsts(selected, list, cov)
    BY <1>1, SelectionCovers
  <2> HIDE DEF selected
  <2> QED BY <1>2, <2>1, <2>2 DEF CoversFirsts
<1> HIDE DEF selected
<1>4. PICK n \in DOMAIN selected : selected[n] = list[i]
  BY <1>3
<1>5. good \in Seq(Candidates(C)) /\ Distinct(good) /\ \E m \in DOMAIN good : good[m] = list[i]
  <2>1. good \in Seq(Candidates(C)) /\ Distinct(good)
    BY <1>3, GatesKeep, GatesDistinct
  <2>2. Trusted(r) \/ (selected[n].score >= MinFusion /\ selected[n].base >= MinSource)
    BY <1>2, <1>4
  <2>3. \E m \in DOMAIN good : good[m] = selected[n]
    BY <1>3, <2>2, GatesDistinct
  <2> HIDE DEF good
  <2> QED BY <1>4, <2>1, <2>3
<1> HIDE DEF good
<1> DEFINE Q == {j \in DOMAIN good : good[j].query = q}
<1>6. Q \in SUBSET Nat /\ Q # {} /\ DOMAIN good = 1..Len(good) /\ Len(good) \in Nat
  <2>1. DOMAIN good = 1..Len(good) /\ Len(good) \in Nat
    BY <1>5, LenProperties
  <2> QED BY <1>2, <1>5, <2>1
<1>7. PICK k \in Q : \A j \in Q : k <= j
  <2> HIDE DEF Q
  <2> QED BY <1>6, LeastIs
<1>8. /\ k \in DOMAIN good /\ good[k].query \in ToSet(cov)
      /\ \A j \in 1..(k - 1) : good[j].query # good[k].query
  <2>1. k \in DOMAIN good /\ good[k].query = q
    OBVIOUS
  <2>2. ASSUME NEW j \in 1..(k - 1), good[j].query = q PROVE FALSE
    <3>1. j \in DOMAIN good /\ ~(k <= j)
      BY <1>6, <2>1
    <3> QED BY <1>7, <2>2, <3>1
  <2> QED BY <2>1, <2>2
<1>9. \E m \in DOMAIN last : last[m] = good[k]
  <2>1. CoversFirsts(last, good, cov)
    BY <1>5, SelectionCovers
  <2> HIDE DEF last
  <2> QED BY <1>8, <2>1 DEF CoversFirsts
<1>10. good[k].query = q
  OBVIOUS
<1> HIDE DEF last, Q
<1>11. Found(last, q) # {}
  BY <1>9, <1>10 DEF Found
<1> QED BY <1>11 DEF last, good, selected, list

\* What the candidates are, from the gate to the end of the filters.
Survival ==
  /\ stage = "gate" => Distinct(offered)
  /\ stage = "rerank" => Distinct(admitted)
  /\ stage \in {"filter", "expand"} => Distinct(reranked.list) /\ ChunksOf(reranked.list) \subseteq ChunksOf(admitted)
  /\ SubQuestionsSurvive

LEMMA RecallSurvives ==
  ASSUME RankingInv, NEW found \in Recalls, Recall(found)
  PROVE  Survival'
<1>1. stage = "recall" /\ Searched
  BY DEF Recall, RankingInv
<1>2. Cov \in Covers
  BY <1>1, CovIs
<1>3. RawCandidates(found) \in Seq(Candidates(Chunks))
  BY <1>1, RawIs DEF Searched
<1>4. fused' \in Seq(Candidates(Chunks)) /\ Distinct(fused')
  BY <1>3, FuseIs, FuseOrders DEF Recall
<1>5. QuotaOf(RerankInput, Cov) \in Nat
  BY <1>2, CoversIs, QuestionAssumption
<1>6. offered' = PrioritizeQuota(fused', Cov, QuotaOf(RerankInput, Cov)) /\ stage' = "gate"
  BY DEF Recall
<1>7. Distinct(offered')
  BY <1>2, <1>4, <1>5, <1>6, PrioritizeQuotaKeeps
<1> QED BY <1>6, <1>7 DEF Survival, SubQuestionsSurvive, Distinct

LEMMA GateSurvives ==
  ASSUME RankingInv, Survival, NEW readable, Gate(readable)
  PROVE  Survival'
<1>1. stage = "gate" /\ Searched /\ Distinct(offered) /\ offered \in Seq(Candidates(Chunks))
  BY DEF Gate, RankingInv, Survival, Searched
<1>2. GateLimit \in Nat
  BY <1>1, CovIs
<1>3. admitted' = Prefix(Of(offered, readable), GateLimit) /\ stage' = "rerank"
  BY DEF Gate
<1>4. Distinct(admitted')
  BY <1>1, <1>2, <1>3, SublistKeeps, PrefixDistinct
<1> QED BY <1>3, <1>4 DEF Survival, SubQuestionsSurvive, Distinct

LEMMA RerankSurvives ==
  ASSUME RankingInv, Survival, NEW reply \in [ToSet(Cov) -> Replies], RerankAdmitted(reply)
  PROVE  Survival'
<1> DEFINE C == ChunksOf(admitted)
<1>1. stage = "rerank" /\ Searched /\ Passing /\ Distinct(admitted)
  BY DEF RerankAdmitted, RankingInv, Survival
<1>2. admitted \in Seq(Candidates(C)) /\ Len(admitted) \in Nat
  BY <1>1, ChunksHeld, LenProperties DEF Passing, HoldsOnly
<1>3. Cov \in Covers /\ AtLeast(Len(admitted), TopK) \in Nat /\ QuotaOf(TopK, Cov) \in Nat
  <2>1. Cov \in Covers /\ AtLeast(Len(admitted), TopK) \in Nat
    BY <1>1, <1>2, CovIs, QuestionAssumption
  <2> QED BY <2>1, CoversIs, QuestionAssumption
<1> HIDE DEF C
<1>4. /\ reranked' = RerankForQueries(admitted, Cov, reply, AtLeast(Len(admitted), TopK), QuotaOf(TopK, Cov))
      /\ admitted' = admitted /\ stage' = "filter"
  BY DEF RerankAdmitted
<1>5. reranked'.list \in Seq(Candidates(C)) /\ Distinct(reranked'.list)
  BY <1>1, <1>2, <1>3, <1>4, RerankForQueriesIs
<1>6. ChunksOf(reranked'.list) \subseteq ChunksOf(admitted')
  BY <1>4, <1>5, ChunksHeld DEF C
<1> QED BY <1>4, <1>5, <1>6 DEF Survival, SubQuestionsSurvive, Distinct, ChunksOf

LEMMA FilterSurvives ==
  ASSUME RankingInv, Survival, Filter
  PROVE  Survival'
<1> DEFINE limit    == AtLeast(TopK, Len(Cov))
           relevant == RelevanceGate(reranked)
           selected == SelectWithCoverage(relevant.list, Cov, limit)
           good     == QualityGate(selected, reranked)
           C        == ChunksOf(admitted)
<1>1. /\ stage = "filter" /\ Searched /\ Passing
      /\ Distinct(reranked.list) /\ ChunksOf(reranked.list) \subseteq C
  BY DEF Filter, RankingInv, Survival
<1>2. Cov \in Covers /\ limit \in Nat /\ reranked.list \in Seq(Candidates(passed))
  BY <1>1, CovIs DEF Passing, HoldsOnly
<1>3. 1 <= limit
  <2>1. Len(Cov) \in Nat
    BY <1>2, CoversIs
  <2> QED BY <2>1, QuestionAssumption DEF AtLeast
<1>4. /\ primary' = SelectWithCoverage(good.list, Cov, limit) /\ reranked' = reranked /\ admitted' = admitted
      /\ queries' = queries /\ stage' = "expand" /\ Cov' = Cov
  BY DEF Filter, Cov
<1> HIDE DEF limit
<1>5. ASSUME NEW q \in ToSet(Cov), NEW i \in Found(relevant.list, q),
             Trusted(reranked) \/ (relevant.list[i].score >= MinFusion /\ relevant.list[i].base >= MinSource),
             \A j \in Found(relevant.list, q) : i <= j
      PROVE  Found(SelectWithCoverage(good.list, Cov, limit), q) # {}
  BY <1>1, <1>2, <1>3, <1>5, SelectionsCover
<1>6. Once(reranked.list)
  BY <1>1, <1>2, OnceIs
<1> DEFINE p == primary'
<1>7. p = SelectWithCoverage(good.list, Cov, limit)
  BY <1>4
<1> HIDE DEF selected, good, p
<1>8. ASSUME NEW q \in ToSet(Cov), NEW i \in Found(relevant.list, q),
             Trusted(reranked) \/ (relevant.list[i].score >= MinFusion /\ relevant.list[i].base >= MinSource),
             \A j \in Found(relevant.list, q) : i <= j
      PROVE  Found(p, q) # {}
  BY <1>5, <1>7, <1>8
<1>9. SubQuestionsSurvive'
  <2>1. SubQuestionsSurvive' =
          (stage' = "expand" =>
            /\ ChunksOf(reranked'.list) \subseteq ChunksOf(admitted') /\ Once(reranked'.list)
            /\ \A q \in ToSet(Cov') : \A i \in Found(RelevanceGate(reranked').list, q) :
                 ((Trusted(reranked') \/ (RelevanceGate(reranked').list[i].score >= MinFusion
                                           /\ RelevanceGate(reranked').list[i].base >= MinSource))
                   /\ \A j \in Found(RelevanceGate(reranked').list, q) : i <= j)
                 => Found(primary', q) # {})
    BY DEF SubQuestionsSurvive
  <2> QED BY <1>1, <1>4, <1>6, <1>8, <2>1 DEF p
<1> QED BY <1>1, <1>4, <1>9 DEF Survival

LEMMA SurvivalStep == RankingInv /\ Survival /\ [RankingNext]_rankingVars => Survival'
<1> SUFFICES ASSUME RankingInv, Survival, [RankingNext]_rankingVars PROVE Survival'
  OBVIOUS
<1>1. ASSUME stage' \notin {"gate", "rerank", "filter", "expand"} PROVE Survival'
  BY <1>1 DEF Survival, SubQuestionsSurvive
<1>2. CASE \E texts \in Fallbacks, r \in Responses \cup {Nothing} : Rewrite(FallbackItems(texts), r)
  BY <1>1, <1>2 DEF Rewrite
<1>3. CASE \E found \in Recalls : Recall(found)
  BY <1>3, RecallSurvives
<1>4. CASE \E readable \in Readable : Gate(readable)
  BY <1>4, GateSurvives
<1>5. CASE \E reply \in [ToSet(Cov) -> Replies] : RerankAdmitted(reply)
  BY <1>5, RerankSurvives
<1>6. CASE Filter
  BY <1>6, FilterSurvives
<1>7. CASE \E readable \in Readable : Expand(readable)
  BY <1>1, <1>7 DEF Expand
<1>8. CASE CiteOnly
  BY <1>1, <1>8 DEF CiteOnly
<1>9. CASE \E loaded \in {Chunks} \cup {Chunks \ {c} : c \in Chunks} : Build(loaded)
  BY <1>1, <1>9 DEF Build
<1>10. CASE \E said \in Said : Generate(said)
  BY <1>1, <1>10 DEF Generate
<1>11. CASE Explain
  BY <1>1, <1>11 DEF Explain
<1>12. CASE UNCHANGED rankingVars
  <2>1. /\ queries' = queries /\ stage' = stage /\ offered' = offered /\ admitted' = admitted
        /\ reranked' = reranked /\ primary' = primary
    BY <1>12 DEF rankingVars
  <2>2. Cov' = Cov
    BY <2>1 DEF Cov
  <2>3. SubQuestionsSurvive' <=> SubQuestionsSurvive
    BY <2>1, <2>2, Zenon DEF SubQuestionsSurvive
  <2> QED BY <2>1, <2>3, Zenon DEF Survival
<1> QED BY <1>2, <1>3, <1>4, <1>5, <1>6, <1>7, <1>8, <1>9, <1>10, <1>11, <1>12 DEF RankingNext

LEMMA SurvivalStarts == RankingInit => Survival
  BY DEF RankingInit, Survival, SubQuestionsSurvive

LEMMA SurvivalFollows == Survival => SubQuestionsSurvive
  BY DEF Survival

\* Reranking adds no chunk and repeats none, and a sub-question whose best
\* candidate passes the thresholds is still represented among the candidates
\* of the answer (_interleave_reranked_groups,
\* _select_candidates_with_query_coverage, the relevance and quality gates).
THEOREM SubQuestionsAreCovered == RankingSpec => []SubQuestionsSurvive
<1>1. RankingInv /\ Survival /\ [RankingNext]_rankingVars => Survival'
  BY SurvivalStep
<1>2. RankingInit => Survival
  BY SurvivalStarts
<1>3. Survival => SubQuestionsSurvive
  BY SurvivalFollows
<1> QED BY <1>1, <1>2, <1>3, RankingAlways, PTL DEF RankingSpec

-----------------------------------------------------------------------------
(* Streams: the stages of a request, and the rows of its answer.           *)

Stages == {"idle", "asked", "loaded", "planning", "opening", "streaming", "finalizing", "failing",
           "committed", "apologizing", "closed"}
Outcomes == {"none", "refused", "failed", "denied", "answered", "unmarked", "abandoned", "crashed"}
Handler == [stage : Stages, kind : {"stream", "plain"}, mode : {"answer", "search"},
            conv : Conversations \cup {New}, fresh : BOOLEAN, outcome : Outcomes]

(* The rows of one answer agree.                                           *)
Agree(row, log) ==
  /\ row = Row(row.status, row.text)
  /\ row.status = "done" <=> QueryLog("success") \in log
  /\ ModelCallLog("failed") \in log => row = Row("done", Refusal) /\ AuditLog("llm_degraded") \in log
  /\ ModelCallLog("success") \in log /\ row.text = Refusal => AuditLog("citation_validation_failed") \in log
  /\ DenialLogs \cap log # {} => row.status = "error" /\ log = DenialLogs

-----------------------------------------------------------------------------
(* The invariants, request by request.                                     *)

Typed ==
  /\ DOMAIN srv = Requests /\ \A r \in Requests : srv[r] \in Handler
  /\ DOMAIN conv = Conversations /\ DOMAIN msg = Requests /\ DOMAIN logs = Requests /\ DOMAIN stream = Requests
  /\ DOMAIN wire = Requests /\ DOMAIN heard = Requests /\ DOMAIN screen = Requests
  /\ \A r \in Requests :
       /\ DOMAIN stream[r] = {"todo", "filter", "said", "sent", "text", "rows"}
       /\ DOMAIN screen[r] = {"status", "text", "known"}
       /\ wire[r] \in Seq(Range(wire[r]))

(* What is in the database at each stage of the handler, and what the      *)
(* stream is about to write.                                               *)
Progress(r) ==
  /\ srv[r].stage \in {"idle", "asked", "loaded", "planning"} => msg[r] = NoRow /\ logs[r] = {}
  /\ srv[r].stage \in {"opening", "streaming", "finalizing", "failing"} => msg[r] = Placeholder /\ logs[r] = {}
  /\ srv[r].stage \in {"idle", "asked", "loaded", "planning", "opening"} => stream[r].said = NoText
  /\ srv[r].stage = "streaming" =>
       /\ srv[r].mode = "answer"
       /\ stream[r].said \in Seq(STRING) /\ stream[r].todo \in Seq(STRING)
       /\ stream[r].said \o stream[r].todo \in Scripts[r]
  /\ srv[r].stage = "finalizing" => Agree(Row("done", stream[r].text), stream[r].rows)
  /\ srv[r].stage = "committed" => msg[r] = Row("done", stream[r].text)
  /\ srv[r].stage = "apologizing" => msg[r].status # "done"
  /\ msg[r].status = "error" => srv[r].stage \in {"apologizing", "closed"}

(* The question r will not be answered any more.                           *)
Undone(r) == msg[r].status # "done" /\ srv[r].stage \in {"apologizing", "closed"}

(* What says that r is answered, or that it is not, says the truth.        *)
Truthful(row, at, status, text) ==
  /\ status = "done" => row = Row("done", text)
  /\ status = "error" => row.status # "done" /\ at \in {"apologizing", "closed"}

(* The process died under the stream of r.                                 *)
Orphan(r) == srv[r].stage = "closed" /\ srv[r].kind = "stream" /\ srv[r].outcome = "crashed"

SentKinds == {"metadata", "token", "done", "error"}
Kinds == SentKinds \cup {"cut", "broken"}
Told(r) == \A i \in DOMAIN wire[r] :
             /\ wire[r][i].kind \in Kinds /\ (wire[r][i].kind = "cut" => Orphan(r))
             /\ Truthful(msg[r], srv[r].stage, wire[r][i].kind, wire[r][i].text)
Seen(r) ==
  /\ screen[r].status = "done" /\ ~heard[r] => msg[r] = Row("done", screen[r].text) \/ Orphan(r)
  /\ screen[r].status = "error" => Undone(r) \/ (screen[r].text = Lost /\ ~heard[r])
Read == \A r \in DOMAIN fetched.rows :
          /\ r \in Requests /\ DOMAIN fetched.rows[r] = {"status", "text", "known"}
          /\ Truthful(msg[r], srv[r].stage, fetched.rows[r].status, fetched.rows[r].text)

IInv ==
  /\ Typed /\ Read
  /\ \A r \in Requests : Agree(msg[r], logs[r]) /\ Progress(r) /\ Told(r) /\ Seen(r)


-----------------------------------------------------------------------------
(* Sequences, and the rows of an answer.                                   *)

(* Cutting a chunk off loses nothing.                                      *)
LEMMA ChunkJoins ==
  ASSUME NEW S, NEW s \in Seq(S), NEW t \in Seq(S), NEW n \in 1..Len(t)
  PROVE  /\ s \o SubSeq(t, 1, n) \in Seq(S) /\ From(t, n + 1) \in Seq(S)
         /\ (s \o SubSeq(t, 1, n)) \o From(t, n + 1) = s \o t
<1> DEFINE c == SubSeq(t, 1, n)
           f == SubSeq(t, n + 1, Len(t))
<1>0. Len(t) \in Nat /\ n \in Nat
  BY LenProperties
<1>1. c \in Seq(S) /\ f \in Seq(S)
  <2>1. \A i \in 1..Len(t) : t[i] \in S
    BY ElementOfSeq
  <2> QED  BY <1>0, <2>1, SubSeqProperties
<1>2. c \o f = t
  BY <1>0, ConcatAdjacentSubSeq, SubSeqFull
<1>3. f = From(t, n + 1)
  BY DEF From
<1> HIDE DEF c, f
<1>4. (s \o c) \o f = s \o t
  <2>1. (s \o c) \o f = s \o (c \o f)
    BY <1>1
  <2> QED  BY <2>1, <1>2, Zenon
<1>5. s \o c \in Seq(S)
  BY <1>1, ConcatProperties
<1> QED  BY <1>1, <1>3, <1>4, <1>5 DEF c

LEMMA Appended ==
  ASSUME NEW w, w \in Seq(Range(w)), NEW e
  PROVE  /\ Append(w, e) \in Seq(Range(Append(w, e)))
         /\ \A i \in DOMAIN Append(w, e) : Append(w, e)[i] = e \/ (i \in DOMAIN w /\ Append(w, e)[i] = w[i])
<1> DEFINE S == Range(w) \cup {e}
<1>1. w \in Seq(S) /\ e \in S
  BY SeqMonotonic
<1>2. Append(w, e) \in Seq(S) /\ Len(Append(w, e)) = Len(w) + 1 /\ Append(w, e)[Len(w) + 1] = e
      /\ \A i \in 1..Len(w) : Append(w, e)[i] = w[i]
  BY <1>1, AppendProperties
<1> HIDE DEF S
<1>3. DOMAIN w = 1..Len(w) /\ DOMAIN Append(w, e) = 1..Len(w) + 1 /\ Len(w) \in Nat
  BY <1>1, <1>2, LenProperties
<1>4. Append(w, e) \in Seq(Range(Append(w, e)))
  BY <1>2, SeqOfRange
<1>5. \A i \in DOMAIN Append(w, e) : Append(w, e)[i] = e \/ (i \in DOMAIN w /\ Append(w, e)[i] = w[i])
  BY <1>2, <1>3
<1> QED  BY <1>4, <1>5

LEMMA Tailed ==
  ASSUME NEW w, w \in Seq(Range(w)), w # <<>>
  PROVE  /\ Tail(w) \in Seq(Range(Tail(w)))
         /\ \A i \in DOMAIN Tail(w) : i + 1 \in DOMAIN w /\ Tail(w)[i] = w[i + 1]
         /\ 1 \in DOMAIN w /\ Head(w) = w[1]
<1> DEFINE S == Range(w)
<1> HIDE DEF S
<1>0. w \in Seq(S)
  BY DEF S
<1>1. Tail(w) \in Seq(S) /\ Len(Tail(w)) = Len(w) - 1 /\ \A i \in 1..Len(Tail(w)) : Tail(w)[i] = w[i + 1]
  BY <1>0, HeadTailProperties
<1>2. DOMAIN w = 1..Len(w) /\ Len(w) \in Nat \ {0} /\ DOMAIN Tail(w) = 1..Len(Tail(w))
  BY <1>0, <1>1, LenProperties, EmptySeq
<1>3. Head(w) = w[1]
  BY <1>0
<1>4. Tail(w) \in Seq(Range(Tail(w)))
  BY <1>1, SeqOfRange
<1>5. \A i \in DOMAIN Tail(w) : i + 1 \in DOMAIN w /\ Tail(w)[i] = w[i + 1]
  BY <1>1, <1>2
<1> QED  BY <1>2, <1>3, <1>4, <1>5

(* The logs of an answer say of it what they should.                       *)
LEMMA LogFacts ==
  ASSUME NEW r \in Requests, NEW called, NEW said
  PROVE  /\ QueryLog("success") \in SuccessLogs(r, called, said)
         /\ DenialLogs \cap SuccessLogs(r, called, said) = {}
         /\ ModelCallLog("failed") \in SuccessLogs(r, called, said) =>
              srv[r].mode = "answer" /\ Silent(said) /\ AuditLog("llm_degraded") \in SuccessLogs(r, called, said)
         /\ ModelCallLog("success") \in SuccessLogs(r, called, said) =>
              /\ srv[r].mode = "answer" /\ ~Silent(said)
              /\ ~Valid(StripThinking(said)) => AuditLog("citation_validation_failed") \in SuccessLogs(r, called, said)
<1> DEFINE L == SuccessLogs(r, called, said)
           A == AnswerLogs(called, said)
<1> USE DEF QueryLog, ModelCallLog, AuditLog
<1>1. /\ A \subseteq {ModelCallLog("failed"), AuditLog("llm_degraded"), ModelCallLog("success"),
                      AuditLog("citation_validation_failed")}
      /\ ModelCallLog("failed") \in A => Silent(said) /\ AuditLog("llm_degraded") \in A
      /\ ModelCallLog("success") \in A =>
           ~Silent(said) /\ (~Valid(StripThinking(said)) => AuditLog("citation_validation_failed") \in A)
  BY DEF AnswerLogs
<1> HIDE DEF A
<1>2. L = {QueryLog("success"), ModelCallLog("retrieval")} \cup (IF srv[r].mode = "answer" THEN A ELSE {})
  BY DEF SuccessLogs, RetrievalLogs, A
<1> HIDE DEF L
<1>3. DenialLogs = {QueryLog("denied"), AuditLog("denied")}
  BY DEF DenialLogs
<1> QED  BY <1>1, <1>2, <1>3 DEF L

LEMMA AnswerAgrees ==
  ASSUME NEW r \in Requests, NEW called, NEW said \in Scripts[r] \cup {NoText}
  PROVE  Agree(Row("done", TextFor(r, said)), SuccessLogs(r, called, said))
<1>1. FinalText[said] =
        IF Silent(said) \/ Unauthorized(StripThinking(said))
           \/ (Display(StripThinking(said)) = <<>> /\ ~Valid(StripThinking(said)))
        THEN Refusal ELSE Display(StripThinking(said))
  BY DEF FinalText
<1>2. Silent(said) => FinalText[said] = Refusal
  BY <1>1
<1>3. ~Silent(said) /\ FinalText[said] = Refusal => ~Valid(StripThinking(said))
  <2>1. ~Silent(said) => Display(StripThinking(said)) # Refusal
    BY ScriptsAssumption DEF Silent
  <2>2. Unauthorized(StripThinking(said)) => ~Valid(StripThinking(said))
    BY DEF Unauthorized, Valid
  <2> QED  BY <1>1, <2>1, <2>2
<1>4. srv[r].mode = "answer" => TextFor(r, said) = FinalText[said]
  BY DEF TextFor
<1> QED  BY <1>2, <1>3, <1>4, LogFacts DEF Agree, Row

LEMMA RefusalAgrees ==
  ASSUME NEW r \in Requests, NEW called
  PROVE  Agree(Row("done", Refusal), SuccessLogs(r, called, NoText))
BY LogFacts DEF Agree, Row, Silent

LEMMA OtherRows ==
  /\ Agree(NoRow, {}) /\ Agree(Placeholder, {}) /\ Agree(Row("error", Refusal), {})
  /\ Agree(Row("error", Refusal), DenialLogs)
BY DEF Agree, NoRow, Placeholder, Row, DenialLogs, QueryLog, ModelCallLog, AuditLog


-----------------------------------------------------------------------------
(* Handlers.                                                               *)

(* A step of the handler of r leaves everything else alone.                *)
Local(r) ==
  /\ UNCHANGED <<heard, screen, fetched>>
  /\ DOMAIN conv' = Conversations /\ DOMAIN msg' = Requests /\ DOMAIN logs' = Requests /\ DOMAIN stream' = Requests
  /\ DOMAIN srv' = Requests
  /\ \A q \in Requests \ {r} :
       srv'[q] = srv[q] /\ msg'[q] = msg[q] /\ logs'[q] = logs[q] /\ stream'[q] = stream[q]

(* The truth about r, once told, remains.                                  *)
Keeps(r) ==
  /\ msg[r].status = "done" => msg'[r] = msg[r]
  /\ Undone(r) => Undone(r)'

(* An event that tells the truth about the state after the step.           *)
Tells(r, e) ==
  /\ e.kind \in SentKinds
  /\ e.kind = "done" => msg'[r] = Row("done", e.text)
  /\ e.kind = "error" => msg'[r].status # "done" /\ srv'[r].stage \in {"apologizing", "closed"}
Says(r) == wire' = wire \/ \E e : Emit(r, e) /\ Tells(r, e)

Good(r) ==
  /\ srv'[r] \in Handler /\ DOMAIN stream'[r] = {"todo", "filter", "said", "sent", "text", "rows"}
  /\ Agree(msg'[r], logs'[r]) /\ Progress(r)' /\ Keeps(r)

LEMMA EventFields == \A k, t : Event(k, t).kind = k /\ Event(k, t).text = t
BY DEF Event

LEMMA RowFields ==
  /\ \A s, t : Row(s, t).status = s /\ Row(s, t).text = t
  /\ NoRow.status = "none" /\ Placeholder.status = "running"
BY DEF Row, NoRow, Placeholder

LEMMA ToStage ==
  ASSUME Typed, NEW r \in Requests, NEW s \in Stages, To(r, s)
  PROVE  /\ srv'[r] \in Handler /\ srv'[r].stage = s /\ srv'[r].mode = srv[r].mode
         /\ DOMAIN srv' = Requests /\ \A q \in Requests \ {r} : srv'[q] = srv[q]
<1>1. srv[r] \in Handler /\ DOMAIN srv = Requests
  BY DEF Typed
<1>2. srv' = [srv EXCEPT ![r] = [srv[r] EXCEPT !.stage = s]]
  BY DEF To
<1> DEFINE row == [srv[r] EXCEPT !.stage = s]
<1>3. row \in Handler /\ row.stage = s /\ row.mode = srv[r].mode
  BY <1>1 DEF Handler
<1> HIDE DEF row
<1> QED  BY <1>1, <1>2, <1>3 DEF row

LEMMA PrepareGood ==
  ASSUME Typed, NEW r \in Requests, Agree(msg[r], logs[r]), Progress(r), Prepare(r)
  PROVE  Local(r) /\ Good(r) /\ Says(r)
<1>0. srv[r] \in Handler /\ DOMAIN srv = Requests /\ r \in Requests
  BY DEF Typed
<1>1. CASE LoadOwned(r) \/ CreateOwn(r) \/ InsertMessages(r)
  <2>1. /\ srv'[r] \in Handler /\ srv'[r].stage \in {"loaded", "planning"} /\ DOMAIN srv' = Requests
        /\ \A q \in Requests \ {r} : srv'[q] = srv[q]
    <3>1. CASE LoadOwned(r) \/ InsertMessages(r)
      BY <3>1, ToStage DEF LoadOwned, InsertMessages, Stages
    <3>2. CASE CreateOwn(r)
      <4>1. (CHOOSE c \in Unused : TRUE) \in Conversations
        BY <3>2 DEF CreateOwn, Unused
      <4> QED  BY <1>0, <3>2, <4>1 DEF CreateOwn, Handler, Stages
    <3> QED  BY <1>1, <3>1, <3>2
  <2>2. UNCHANGED <<conv, msg, logs, stream, wire, heard, screen, fetched>> /\ srv[r].stage \in {"asked", "loaded"}
    BY <1>1 DEF LoadOwned, CreateOwn, InsertMessages, db, client
  <2>3. msg[r] = NoRow /\ logs[r] = {}
    BY <2>2 DEF Progress
  <2>4. Progress(r)' /\ Keeps(r)
    BY <2>1, <2>2, <2>3, RowFields DEF Progress, Keeps, Undone
  <2> QED  BY <2>1, <2>2, <2>4 DEF Typed, Local, Good, Says
<1>2. CASE NotFound(r) \/ PlanFails(r) \/ StreamDenied(r)
  <2>1. /\ srv'[r] \in Handler /\ srv'[r].stage = "closed" /\ DOMAIN srv' = Requests
        /\ \A q \in Requests \ {r} : srv'[q] = srv[q]
    BY <1>0, <1>2 DEF NotFound, PlanFails, StreamDenied, Ended, Handler, Stages, Outcomes
  <2>2. /\ UNCHANGED <<conv, msg, logs, stream, heard, screen, fetched>> /\ Send(r, "error", NoText)
        /\ srv[r].stage \in {"asked", "loaded", "planning"}
    BY <1>2 DEF NotFound, PlanFails, StreamDenied, db, client
  <2>3. msg[r] = NoRow /\ logs[r] = {}
    BY <2>2 DEF Progress
  <2>4. Progress(r)' /\ Keeps(r)
    BY <2>1, <2>2, <2>3, RowFields DEF Progress, Keeps, Undone
  <2>5. Says(r)
    BY <2>1, <2>2, <2>3, RowFields, EventFields DEF Send, Says, Tells, SentKinds
  <2> QED  BY <2>1, <2>2, <2>4, <2>5 DEF Typed, Local, Good
<1>3. CASE PlainDenied(r)
  <2>1. /\ srv'[r] \in Handler /\ srv'[r].stage = "closed" /\ DOMAIN srv' = Requests
        /\ \A q \in Requests \ {r} : srv'[q] = srv[q]
    BY <1>0, <1>3 DEF PlainDenied, Ended, Handler, Stages, Outcomes
  <2>2. /\ UNCHANGED <<stream, heard, screen, fetched>> /\ Send(r, "error", NoText) /\ srv[r].stage = "planning"
        /\ msg' = [msg EXCEPT ![r] = Row("error", Refusal)] /\ logs' = [logs EXCEPT ![r] = DenialLogs]
        /\ conv' = Opened(r)
    BY <1>3 DEF PlainDenied, Failed, Finished, client
  <2>3. msg[r] = NoRow /\ msg'[r] = Row("error", Refusal) /\ logs'[r] = DenialLogs
    BY <2>2 DEF Progress, Typed
  <2>4. Progress(r)' /\ Keeps(r)
    BY <2>1, <2>2, <2>3, RowFields DEF Progress, Keeps, Undone
  <2>5. Says(r)
    BY <2>1, <2>2, <2>3, RowFields, EventFields DEF Send, Says, Tells, SentKinds
  <2>6. DOMAIN conv' = Conversations
    BY <2>2 DEF Opened, Typed
  <2> QED  BY <2>1, <2>2, <2>3, <2>4, <2>5, <2>6, OtherRows DEF Typed, Local, Good
<1>4. ASSUME NEW s \in Scripts[r] \cup {NoText}, NEW called \in BOOLEAN, PlainAnswered(r, called, s)
      PROVE  Local(r) /\ Good(r) /\ Says(r)
  <2> DEFINE text == TextFor(r, s)
             log  == SuccessLogs(r, called, s)
  <2>1. /\ srv'[r] \in Handler /\ srv'[r].stage = "closed" /\ DOMAIN srv' = Requests
        /\ \A q \in Requests \ {r} : srv'[q] = srv[q]
    BY <1>0, <1>4 DEF PlainAnswered, Ended, Handler, Stages, Outcomes
  <2>2. /\ UNCHANGED <<stream, heard, screen, fetched>> /\ Send(r, "done", text) /\ srv[r].stage = "planning"
        /\ msg' = [msg EXCEPT ![r] = Row("done", text)] /\ logs' = [logs EXCEPT ![r] = log]
        /\ conv' = Opened(r)
    BY <1>4 DEF PlainAnswered, Completed, Finished, client
  <2>3. Agree(Row("done", text), log)
    BY AnswerAgrees
  <2> HIDE DEF text, log
  <2>4. msg[r] = NoRow /\ msg'[r] = Row("done", text) /\ logs'[r] = log
    BY <2>2 DEF Progress, Typed
  <2>5. Progress(r)' /\ Keeps(r)
    <3>1. ~Undone(r) /\ msg[r].status # "done"
      BY <2>2, <2>4, RowFields DEF Undone
    <3>2. msg'[r].status = "done"
      BY <2>4, RowFields
    <3> QED  BY <2>1, <3>1, <3>2 DEF Progress, Keeps
  <2>6. Says(r)
    BY <2>1, <2>2, <2>4, EventFields DEF Send, Says, Tells, SentKinds
  <2>7. DOMAIN conv' = Conversations
    BY <2>2 DEF Opened, Typed
  <2> QED  BY <2>1, <2>2, <2>3, <2>4, <2>5, <2>6, <2>7 DEF Typed, Local, Good
<1>5. CASE PlanReady(r)
  <2>1. /\ srv'[r] \in Handler /\ srv'[r].stage = "opening" /\ DOMAIN srv' = Requests
        /\ \A q \in Requests \ {r} : srv'[q] = srv[q]
    BY <1>5, ToStage DEF PlanReady, Stages
  <2>2. /\ UNCHANGED <<logs, stream, wire, heard, screen, fetched>> /\ srv[r].stage = "planning"
        /\ msg' = [msg EXCEPT ![r] = Placeholder] /\ conv' = Opened(r)
    BY <1>5 DEF PlanReady, client
  <2>3. msg[r] = NoRow /\ msg'[r] = Placeholder /\ logs[r] = {}
    BY <2>2 DEF Progress, Typed
  <2>4. Progress(r)' /\ Keeps(r)
    BY <2>1, <2>2, <2>3, RowFields DEF Progress, Keeps, Undone
  <2>5. DOMAIN conv' = Conversations
    BY <2>2 DEF Opened, Typed
  <2> QED  BY <2>1, <2>2, <2>3, <2>4, <2>5, OtherRows DEF Typed, Local, Good, Says
<1> QED  BY <1>1, <1>2, <1>3, <1>4, <1>5 DEF Prepare


(* What the steps of an answer do to the database and to the stream.       *)
LEMMA StreamSaid ==
  ASSUME Typed, NEW r \in Requests, Progress(r), srv[r].stage = "streaming", stream[r].todo = <<>>
  PROVE  stream[r].said \in Scripts[r]
<1>1. stream[r].said \in Seq(STRING) /\ stream[r].said \o stream[r].todo \in Scripts[r]
  BY DEF Progress
<1> DEFINE said == stream[r].said
<1> HIDE DEF said
<1>2. said \in Seq(STRING) => said \o <<>> = said
  BY ConcatEmptySeq
<1> QED  BY <1>1, <1>2 DEF said

(* The same of an answer.                                                  *)
LEMMA MetadataGood ==
  ASSUME Typed, NEW r \in Requests, Agree(msg[r], logs[r]), Progress(r), NEW s \in Scripts[r], SendMetadata(r, s)
  PROVE  Local(r) /\ Good(r) /\ Says(r)
<1> DEFINE asked == srv[r].mode
           next == IF asked = "answer" THEN "streaming" ELSE "finalizing"
           todo == IF asked = "answer" THEN s ELSE <<>>
           rows == IF asked = "answer" THEN {} ELSE SuccessLogs(r, FALSE, NoText)
<1>1. /\ stream' = [stream EXCEPT ![r] = [stream[r] EXCEPT !.todo = todo, !.rows = rows]]
      /\ To(r, next) /\ Send(r, "metadata", NoText) /\ srv[r].stage = "opening"
      /\ UNCHANGED <<conv, msg, logs, heard, screen, fetched>>
  BY DEF SendMetadata, db, client
<1>2. /\ srv'[r] \in Handler /\ srv'[r].stage = next /\ srv'[r].mode = asked /\ DOMAIN srv' = Requests
      /\ \A q \in Requests \ {r} : srv'[q] = srv[q]
  <2>1. next \in Stages
    BY DEF Stages
  <2> HIDE DEF next
  <2> QED  BY <1>1, <2>1, ToStage
<1>3. asked # "answer" => Agree(Row("done", stream[r].text), SuccessLogs(r, FALSE, NoText))
  BY LogFacts DEF Agree, Row
<1>4. s \in Seq(STRING) /\ NoText \in Seq(STRING) /\ NoText \o s = s
  BY ScriptsAssumption, ConcatEmptySeq DEF NoText
<1>5. stream[r].said = NoText /\ msg[r] = Placeholder /\ logs[r] = {}
  BY <1>1 DEF Progress
<1> HIDE DEF rows, todo
<1>6. /\ DOMAIN stream' = Requests /\ DOMAIN stream'[r] = {"todo", "filter", "said", "sent", "text", "rows"}
      /\ stream'[r].todo = todo /\ stream'[r].rows = rows
      /\ stream'[r].said = stream[r].said /\ stream'[r].text = stream[r].text
      /\ \A q \in Requests \ {r} : stream'[q] = stream[q]
  <2> DEFINE row == [stream[r] EXCEPT !.todo = todo, !.rows = rows]
  <2>1. /\ DOMAIN row = {"todo", "filter", "said", "sent", "text", "rows"} /\ row.todo = todo /\ row.rows = rows
        /\ row.said = stream[r].said /\ row.text = stream[r].text
    BY DEF Typed
  <2>2. DOMAIN stream = Requests /\ stream' = [stream EXCEPT ![r] = row]
    BY <1>1 DEF Typed
  <2> HIDE DEF row
  <2> QED  BY <2>1, <2>2
<1>7. Progress(r)'
  <2>1. CASE asked = "answer"
    BY <1>1, <1>2, <1>4, <1>5, <1>6, <2>1, RowFields DEF Progress, todo
  <2>2. CASE asked # "answer"
    BY <1>1, <1>2, <1>3, <1>5, <1>6, <2>2, RowFields DEF Progress, rows
  <2> QED  BY <2>1, <2>2
<1>8. Keeps(r)
  BY <1>1, <1>2, <1>5, RowFields DEF Keeps, Undone
<1>9. Says(r)
  BY <1>1, EventFields DEF Send, Says, Tells, SentKinds
<1> QED  BY <1>1, <1>2, <1>6, <1>7, <1>8, <1>9 DEF Typed, Local, Good

LEMMA VisibleSays ==
  ASSUME NEW r \in Requests, NEW out, Visible(r, out)
  PROVE  Says(r)
BY EventFields DEF Visible, Send, Says, Tells, SentKinds

LEMMA ChunkGood ==
  ASSUME Typed, NEW r \in Requests, Agree(msg[r], logs[r]), Progress(r), NEW n \in 1..MaxChunk, NextChunk(r, n)
  PROVE  Local(r) /\ Good(r) /\ Says(r)
<1> DEFINE chunk == SubSeq(stream[r].todo, 1, n)
           seen  == ThinkingFeed(stream[r].filter, chunk)
           rest  == SourceFeed(stream[r].filter.held, seen.out)
           out   == Trimmed(rest.out, stream[r].sent)
<1>1. /\ stream' = [stream EXCEPT ![r] =
           [stream[r] EXCEPT !.todo = From(@, n + 1), !.said = @ \o chunk, !.sent = @ \o out,
                     !.filter = [buffer |-> seen.buffer, inside |-> seen.inside, held |-> rest.held]]]
      /\ Visible(r, out)
  BY DEF NextChunk
<1> HIDE DEF seen, rest, out
<1>2. /\ srv[r].stage = "streaming" /\ n \in 1..Len(stream[r].todo)
      /\ UNCHANGED <<conv, msg, logs, srv, heard, screen, fetched>>
  BY DEF NextChunk, db, client
<1>3. /\ stream[r].said \in Seq(STRING) /\ stream[r].todo \in Seq(STRING)
      /\ stream[r].said \o stream[r].todo \in Scripts[r]
  BY <1>2 DEF Progress
<1> DEFINE said == stream[r].said \o chunk
           todo == From(stream[r].todo, n + 1)
<1>4. said \in Seq(STRING) /\ todo \in Seq(STRING) /\ said \o todo \in Scripts[r]
  <2> DEFINE before == stream[r].said
             after  == stream[r].todo
  <2>1. before \in Seq(STRING) /\ after \in Seq(STRING) /\ n \in 1..Len(after) /\ before \o after \in Scripts[r]
    BY <1>2, <1>3
  <2>2. said = before \o SubSeq(after, 1, n) /\ todo = From(after, n + 1)
    OBVIOUS
  <2> HIDE DEF before, after, said, todo
  <2>3. /\ before \o SubSeq(after, 1, n) \in Seq(STRING) /\ From(after, n + 1) \in Seq(STRING)
        /\ (before \o SubSeq(after, 1, n)) \o From(after, n + 1) = before \o after
    <3>1. \A s, t \in Seq(STRING) : \A k \in 1..Len(t) :
            /\ s \o SubSeq(t, 1, k) \in Seq(STRING) /\ From(t, k + 1) \in Seq(STRING)
            /\ (s \o SubSeq(t, 1, k)) \o From(t, k + 1) = s \o t
      BY ChunkJoins, Zenon
    <3> QED BY <2>1, <3>1, Zenon
  <2> QED  BY <2>1, <2>2, <2>3, Zenon
<1> HIDE DEF said, todo
<1>5. /\ DOMAIN stream' = Requests /\ DOMAIN stream'[r] = {"todo", "filter", "said", "sent", "text", "rows"}
      /\ stream'[r].todo = todo /\ stream'[r].said = said
      /\ \A q \in Requests \ {r} : stream'[q] = stream[q]
  <2> DEFINE filter == [buffer |-> seen.buffer, inside |-> seen.inside, held |-> rest.held]
             row    == [stream[r] EXCEPT !.todo = From(@, n + 1), !.said = @ \o chunk, !.sent = @ \o out, !.filter = filter]
  <2>1. DOMAIN stream = Requests /\ DOMAIN stream[r] = {"todo", "filter", "said", "sent", "text", "rows"}
    BY DEF Typed
  <2>2. stream' = [stream EXCEPT ![r] = row]
    BY <1>1
  <2> HIDE DEF filter, chunk
  <2>3. DOMAIN row = {"todo", "filter", "said", "sent", "text", "rows"} /\ row.todo = todo /\ row.said = said
    BY <2>1 DEF todo, said
  <2> HIDE DEF row
  <2> QED  BY <2>1, <2>2, <2>3
<1>6. Progress(r)' /\ Keeps(r)
  BY <1>2, <1>4, <1>5 DEF Progress, Keeps, Undone
<1>7. Says(r)
  BY <1>1, VisibleSays
<1> QED  BY <1>2, <1>5, <1>6, <1>7 DEF Typed, Local, Good


(* The end of the stream, told by the model or by its failure: what is     *)
(* about to be stored agrees with what is about to be logged.              *)
LEMMA EndGood ==
  ASSUME Typed, NEW r \in Requests, Agree(msg[r], logs[r]), Progress(r), srv[r].stage = "streaming",
         UNCHANGED <<conv, msg, logs, heard, screen, fetched>>, To(r, "finalizing"),
         DOMAIN stream' = Requests, DOMAIN stream'[r] = {"todo", "filter", "said", "sent", "text", "rows"},
         \A q \in Requests \ {r} : stream'[q] = stream[q],
         Agree(Row("done", stream'[r].text), stream'[r].rows)
  PROVE  Local(r) /\ Good(r)
<1>1. /\ srv'[r] \in Handler /\ srv'[r].stage = "finalizing" /\ DOMAIN srv' = Requests
      /\ \A q \in Requests \ {r} : srv'[q] = srv[q]
  BY ToStage DEF Stages
<1>2. msg[r] = Placeholder /\ logs[r] = {}
  BY DEF Progress
<1>3. Progress(r)' /\ Keeps(r)
  BY <1>1, <1>2, RowFields DEF Progress, Keeps, Undone
<1> QED  BY <1>1, <1>3 DEF Typed, Local, Good

LEMMA EndOfStreamGood ==
  ASSUME Typed, NEW r \in Requests, Agree(msg[r], logs[r]), Progress(r), EndOfStream(r)
  PROVE  Local(r) /\ Good(r) /\ Says(r)
<1> DEFINE tail == ThinkingFlush(stream[r].filter)
           rest == SourceFeed(stream[r].filter.held, tail)
           out  == Trimmed(rest.out \o StripRefs(rest.held), stream[r].sent)
           said == stream[r].said
           text == TextFor(r, said)
           rows == SuccessLogs(r, TRUE, said)
           row  == [stream[r] EXCEPT !.filter = NewFilter, !.sent = @ \o out, !.said = NoText, !.text = text, !.rows = rows]
<1>1. stream' = [stream EXCEPT ![r] = row] /\ Visible(r, out)
  BY DEF EndOfStream
<1>2. /\ srv[r].stage = "streaming" /\ stream[r].todo = <<>> /\ To(r, "finalizing")
      /\ UNCHANGED <<conv, msg, logs, heard, screen, fetched>>
  BY DEF EndOfStream, db, client
<1>3. Agree(Row("done", text), rows)
  BY <1>2, StreamSaid, AnswerAgrees
<1> HIDE DEF out, said, text, rows
<1>4. DOMAIN row = {"todo", "filter", "said", "sent", "text", "rows"} /\ row.text = text /\ row.rows = rows
  BY DEF Typed
<1> HIDE DEF row
<1>5. DOMAIN stream = Requests
  BY DEF Typed
<1>6. /\ DOMAIN stream' = Requests /\ DOMAIN stream'[r] = {"todo", "filter", "said", "sent", "text", "rows"}
      /\ \A q \in Requests \ {r} : stream'[q] = stream[q]
      /\ stream'[r].text = text /\ stream'[r].rows = rows
  BY <1>1, <1>4, <1>5
<1>7. Says(r)
  BY <1>1, VisibleSays
<1> QED  BY <1>2, <1>3, <1>6, <1>7, EndGood

LEMMA ModelFailsGood ==
  ASSUME Typed, NEW r \in Requests, Agree(msg[r], logs[r]), Progress(r), NEW called, ModelFails(r, called)
  PROVE  Local(r) /\ Good(r) /\ Says(r)
<1> DEFINE rows == SuccessLogs(r, called, NoText)
           row  == [stream[r] EXCEPT !.todo = <<>>, !.filter = NewFilter, !.said = NoText, !.text = Refusal, !.rows = rows]
<1>1. /\ stream' = [stream EXCEPT ![r] = row] /\ wire' = wire
      /\ srv[r].stage = "streaming" /\ To(r, "finalizing")
      /\ UNCHANGED <<conv, msg, logs, heard, screen, fetched>>
  BY DEF ModelFails, db, client
<1>2. Agree(Row("done", Refusal), rows)
  BY RefusalAgrees
<1> HIDE DEF rows
<1>3. DOMAIN row = {"todo", "filter", "said", "sent", "text", "rows"} /\ row.text = Refusal /\ row.rows = rows
  BY DEF Typed
<1> HIDE DEF row
<1>4. DOMAIN stream = Requests
  BY DEF Typed
<1>5. /\ DOMAIN stream' = Requests /\ DOMAIN stream'[r] = {"todo", "filter", "said", "sent", "text", "rows"}
      /\ \A q \in Requests \ {r} : stream'[q] = stream[q]
      /\ stream'[r].text = Refusal /\ stream'[r].rows = rows
  BY <1>1, <1>3, <1>4
<1> QED  BY <1>1, <1>2, <1>5, EndGood DEF Says

(* The answer is stored with its logs, or it is not and the message is     *)
(* marked, and then the browser is told.                                   *)
LEMMA ClosingGood ==
  ASSUME Typed, NEW r \in Requests, Agree(msg[r], logs[r]), Progress(r),
         Finalize(r) \/ FinalizeFails(r) \/ SendError(r) \/ SendDone(r)
  PROVE  Local(r) /\ Good(r) /\ Says(r)
<1>0. srv[r] \in Handler /\ DOMAIN srv = Requests /\ r \in Requests
  BY DEF Typed
<1>1. CASE Finalize(r)
  <2>1. /\ srv'[r] \in Handler /\ srv'[r].stage = "committed" /\ DOMAIN srv' = Requests
        /\ \A q \in Requests \ {r} : srv'[q] = srv[q]
    BY <1>1, ToStage DEF Finalize, Stages
  <2> DEFINE text == stream[r].text
             rows == stream[r].rows
  <2>2. /\ UNCHANGED <<conv, stream, wire, heard, screen, fetched>> /\ srv[r].stage = "finalizing"
        /\ msg' = [msg EXCEPT ![r] = Row("done", text)] /\ logs' = [logs EXCEPT ![r] = rows]
    BY <1>1 DEF Finalize, Completed, Finished, client
  <2>3. msg[r] = Placeholder /\ Agree(Row("done", text), rows)
    BY <2>2 DEF Progress
  <2>4. msg'[r] = Row("done", text) /\ logs'[r] = rows /\ stream'[r].text = text
    BY <2>2 DEF Typed
  <2> HIDE DEF text, rows
  <2>5. Progress(r)'
    <3>1. msg'[r].status = "done"
      BY <2>4, RowFields
    <3> QED  BY <2>1, <2>4, <3>1 DEF Progress
  <2>6. Keeps(r)
    BY <2>2, <2>3, RowFields DEF Keeps, Undone
  <2> QED  BY <2>1, <2>2, <2>3, <2>4, <2>5, <2>6 DEF Typed, Local, Good, Says
<1>2. CASE FinalizeFails(r)
  <2>1. /\ srv'[r] \in Handler /\ srv'[r].stage = "failing" /\ DOMAIN srv' = Requests
        /\ \A q \in Requests \ {r} : srv'[q] = srv[q]
    BY <1>2, ToStage DEF FinalizeFails, Stages
  <2>2. UNCHANGED <<conv, msg, logs, stream, wire, heard, screen, fetched>> /\ srv[r].stage = "finalizing"
    BY <1>2 DEF FinalizeFails, db, client
  <2>3. msg[r] = Placeholder /\ logs[r] = {}
    BY <2>2 DEF Progress
  <2>4. Progress(r)' /\ Keeps(r)
    BY <2>1, <2>2, <2>3, RowFields DEF Progress, Keeps, Undone
  <2> QED  BY <2>1, <2>2, <2>4 DEF Typed, Local, Good, Says
<1>3. CASE SendError(r)
  <2>1. /\ srv'[r] \in Handler /\ srv'[r].stage = "closed" /\ DOMAIN srv' = Requests
        /\ \A q \in Requests \ {r} : srv'[q] = srv[q]
    BY <1>3, ToStage DEF SendError, Stages
  <2>2. /\ UNCHANGED <<conv, msg, logs, stream, heard, screen, fetched>> /\ Send(r, "error", NoText)
        /\ srv[r].stage = "apologizing"
    BY <1>3 DEF SendError, db, client
  <2>3. msg[r].status # "done"
    BY <2>2 DEF Progress
  <2>4. Progress(r)' /\ Keeps(r)
    BY <2>1, <2>2, <2>3 DEF Progress, Keeps, Undone
  <2>5. Says(r)
    BY <2>1, <2>2, <2>3, EventFields DEF Send, Says, Tells, SentKinds
  <2> QED  BY <2>1, <2>2, <2>4, <2>5 DEF Typed, Local, Good
<1>4. CASE SendDone(r)
  <2>1. /\ srv'[r] \in Handler /\ srv'[r].stage = "closed" /\ DOMAIN srv' = Requests
        /\ \A q \in Requests \ {r} : srv'[q] = srv[q]
    BY <1>0, <1>4 DEF SendDone, Ended, Handler, Stages, Outcomes
  <2> DEFINE text == stream[r].text
  <2>2. /\ UNCHANGED <<conv, msg, logs, stream, heard, screen, fetched>> /\ Send(r, "done", text)
        /\ srv[r].stage = "committed"
    BY <1>4 DEF SendDone, db, client
  <2>3. msg[r] = Row("done", text)
    BY <2>2 DEF Progress
  <2> HIDE DEF text
  <2>4. Progress(r)' /\ Keeps(r)
    BY <2>1, <2>2, <2>3, RowFields DEF Progress, Keeps, Undone
  <2>5. Says(r)
    BY <2>2, <2>3, EventFields DEF Send, Says, Tells, SentKinds
  <2> QED  BY <2>1, <2>2, <2>4, <2>5 DEF Typed, Local, Good
<1> QED  BY <1>1, <1>2, <1>3, <1>4

LEMMA MarkingGood ==
  ASSUME Typed, NEW r \in Requests, Agree(msg[r], logs[r]), Progress(r), NEW stored \in BOOLEAN, MarkFailed(r, stored)
  PROVE  Local(r) /\ Good(r) /\ Says(r)
<1>0. srv[r] \in Handler /\ DOMAIN srv = Requests /\ r \in Requests
  BY DEF Typed
<1>1. /\ srv'[r] \in Handler /\ srv'[r].stage = "apologizing" /\ DOMAIN srv' = Requests
      /\ \A q \in Requests \ {r} : srv'[q] = srv[q]
  BY <1>0 DEF MarkFailed, Handler, Stages, Outcomes
<1>2. /\ UNCHANGED <<conv, logs, stream, wire, heard, screen, fetched>> /\ srv[r].stage = "failing"
      /\ msg' = msg \/ msg' = [msg EXCEPT ![r] = Row("error", Refusal)]
  BY DEF MarkFailed, Failed, Finished, client
<1>3. msg[r] = Placeholder /\ logs[r] = {}
  BY <1>2 DEF Progress
<1>4. /\ DOMAIN msg' = Requests /\ \A q \in Requests \ {r} : msg'[q] = msg[q]
      /\ msg'[r] = Placeholder \/ msg'[r] = Row("error", Refusal)
  BY <1>2, <1>3 DEF Typed
<1>5. Progress(r)' /\ Keeps(r)
  BY <1>1, <1>3, <1>4, RowFields DEF Progress, Keeps, Undone
<1>6. Agree(msg'[r], logs'[r])
  BY <1>2, <1>3, <1>4, OtherRows
<1> QED  BY <1>1, <1>2, <1>4, <1>5, <1>6 DEF Typed, Local, Good, Says

LEMMA AbandonGood ==
  ASSUME Typed, NEW r \in Requests, Agree(msg[r], logs[r]), Progress(r), Abandon(r)
  PROVE  Local(r) /\ Good(r) /\ Says(r)
<1>0. srv[r] \in Handler /\ DOMAIN srv = Requests /\ r \in Requests
  BY DEF Typed
<1>1. /\ srv'[r] \in Handler /\ srv'[r].stage = "closed" /\ DOMAIN srv' = Requests
      /\ \A q \in Requests \ {r} : srv'[q] = srv[q]
  BY <1>0 DEF Abandon, Handler, Stages, Outcomes
<1>2. UNCHANGED <<conv, msg, logs, wire, heard, screen, fetched>> /\ stream' = [stream EXCEPT ![r] = NoStream]
  BY DEF Abandon, db, client
<1>3. /\ DOMAIN stream' = Requests /\ DOMAIN stream'[r] = {"todo", "filter", "said", "sent", "text", "rows"}
      /\ \A q \in Requests \ {r} : stream'[q] = stream[q]
  BY <1>2 DEF Typed, NoStream
<1>4. Progress(r)' /\ Keeps(r)
  BY <1>1, <1>2 DEF Progress, Keeps, Undone
<1> QED  BY <1>1, <1>2, <1>3, <1>4 DEF Typed, Local, Good, Says

LEMMA HandleGood ==
  ASSUME Typed, NEW r \in Requests, Agree(msg[r], logs[r]), Progress(r), Handle(r)
  PROVE  Local(r) /\ Good(r) /\ Says(r)
<1>1. CASE Prepare(r)
  BY <1>1, PrepareGood
<1>2. CASE Answer(r)
  <2>1. CASE \E called \in BOOLEAN : ModelFails(r, called)
    BY <2>1, ModelFailsGood
  <2>2. CASE EndOfStream(r)
    BY <2>2, EndOfStreamGood
  <2>3. CASE \E n \in 1..MaxChunk : NextChunk(r, n)
    BY <2>3, ChunkGood
  <2>4. CASE \E s \in Scripts[r] : SendMetadata(r, s)
    BY <2>4, MetadataGood
  <2>5. CASE Finalize(r) \/ FinalizeFails(r) \/ SendError(r) \/ SendDone(r)
    BY <2>5, ClosingGood
  <2>6. CASE \E b \in BOOLEAN : MarkFailed(r, b)
    BY <2>6, MarkingGood
  <2>7. CASE Abandon(r)
    BY <2>7, AbandonGood
  <2> QED  BY <1>2, <2>1, <2>2, <2>3, <2>4, <2>5, <2>6, <2>7 DEF Answer
<1> QED  BY <1>1, <1>2 DEF Handle


-----------------------------------------------------------------------------
(* Every step keeps the invariant.                                         *)

LEMMA Emitted ==
  ASSUME Typed, NEW r \in Requests, NEW e, Emit(r, e)
  PROVE  /\ DOMAIN wire' = Requests /\ \A q \in Requests \ {r} : wire'[q] = wire[q]
         /\ wire'[r] \in Seq(Range(wire'[r]))
         /\ \A i \in DOMAIN wire'[r] : wire'[r][i] = e \/ (i \in DOMAIN wire[r] /\ wire'[r][i] = wire[r][i])
<1>1. DOMAIN wire = Requests /\ wire[r] \in Seq(Range(wire[r]))
  BY DEF Typed
<1>2. CASE heard[r]
  <2> DEFINE w == Append(wire[r], e)
  <2>1. w \in Seq(Range(w)) /\ \A i \in DOMAIN w : w[i] = e \/ (i \in DOMAIN wire[r] /\ w[i] = wire[r][i])
    BY <1>1, Appended
  <2>2. wire' = [wire EXCEPT ![r] = w]
    BY <1>2 DEF Emit
  <2> HIDE DEF w
  <2>3. wire'[r] = w /\ DOMAIN wire' = Requests /\ \A q \in Requests \ {r} : wire'[q] = wire[q]
    BY <1>1, <2>2
  <2> QED  BY <2>1, <2>3
<1>3. CASE ~heard[r]
  BY <1>1, <1>3 DEF Emit
<1> QED  BY <1>2, <1>3

(* What a request keeps is kept for whoever was told of it.                *)
LEMMA TruthRemains ==
  ASSUME NEW r \in Requests, Keeps(r), NEW status, NEW text,
         Truthful(msg[r], srv[r].stage, status, text)
  PROVE  Truthful(msg'[r], srv'[r].stage, status, text)
BY RowFields DEF Truthful, Keeps, Undone

(* No handler takes a step for a request that is over.                     *)
LEMMA HandlerRuns ==
  ASSUME NEW r \in Requests, Handle(r)
  PROVE  srv[r].stage # "closed"
<1>1. CASE Prepare(r)
  BY <1>1 DEF Prepare, LoadOwned, CreateOwn, NotFound, InsertMessages, PlanFails, PlainDenied, StreamDenied,
              PlainAnswered, PlanReady
<1>2. CASE Answer(r)
  BY <1>2 DEF Answer, ModelFails, EndOfStream, NextChunk, SendMetadata, Finalize, FinalizeFails, MarkFailed,
              SendError, SendDone, Abandon
<1> QED  BY <1>1, <1>2 DEF Handle

LEMMA HandleKeeps ==
  ASSUME IInv, NEW r \in Requests, Handle(r)
  PROVE  IInv'
<1>1. Typed /\ Read /\ \A q \in Requests : Agree(msg[q], logs[q]) /\ Progress(q) /\ Told(q) /\ Seen(q)
  BY DEF IInv
<1>2. Local(r) /\ Good(r) /\ Says(r)
  BY <1>1, HandleGood
<1>3. \A q \in Requests \ {r} :
        srv'[q] = srv[q] /\ msg'[q] = msg[q] /\ logs'[q] = logs[q] /\ stream'[q] = stream[q] /\ Keeps(q)
  BY <1>2 DEF Local, Keeps, Undone
<1>4. \A q \in Requests : Keeps(q)
  BY <1>2, <1>3 DEF Good
<1> DEFINE Told_ ==
      /\ DOMAIN wire' = Requests /\ \A q \in Requests \ {r} : wire'[q] = wire[q]
      /\ wire'[r] \in Seq(Range(wire'[r]))
      /\ \A i \in DOMAIN wire'[r] :
           \/ i \in DOMAIN wire[r] /\ wire'[r][i] = wire[r][i]
           \/ Tells(r, wire'[r][i])
<1>5. Told_
  <2>1. CASE wire' = wire
    BY <1>1, <2>1 DEF Typed
  <2>2. ASSUME NEW e, Emit(r, e), Tells(r, e)
        PROVE  Told_
    BY <1>1, <2>2, Emitted
  <2> QED  BY <1>2, <2>1, <2>2 DEF Says
<1>6. Typed'
  <2>1. DOMAIN srv' = Requests /\ \A q \in Requests : srv'[q] \in Handler
    BY <1>1, <1>2, <1>3 DEF Typed, Local, Good
  <2>2. \A q \in Requests : DOMAIN stream'[q] = {"todo", "filter", "said", "sent", "text", "rows"}
    BY <1>1, <1>2, <1>3 DEF Typed, Good
  <2>3. \A q \in Requests : wire'[q] \in Seq(Range(wire'[q]))
    BY <1>1, <1>5 DEF Typed
  <2> QED  BY <1>1, <1>2, <1>5, <2>1, <2>2, <2>3 DEF Typed, Local
<1>7. Read'
  <2>1. fetched' = fetched
    BY <1>2 DEF Local
  <2> QED  BY <1>1, <1>4, <2>1, TruthRemains DEF Read
<1>8. \A q \in Requests : Agree(msg'[q], logs'[q]) /\ Progress(q)'
  BY <1>1, <1>2, <1>3 DEF Good, Progress
<1>o. \A q \in Requests : Orphan(q) => Orphan(q)'
  BY <1>3, HandlerRuns DEF Orphan
<1>9. \A q \in Requests : Told(q)'
  <2>1. ASSUME NEW q \in Requests, NEW i \in DOMAIN wire'[q]
        PROVE  /\ wire'[q][i].kind \in Kinds /\ (wire'[q][i].kind = "cut" => Orphan(q)')
               /\ Truthful(msg'[q], srv'[q].stage, wire'[q][i].kind, wire'[q][i].text)
    <3> DEFINE e == wire'[q][i]
    <3>1. CASE q = r /\ Tells(r, e)
      BY <3>1 DEF Tells, Truthful, Kinds, SentKinds
    <3>2. CASE i \in DOMAIN wire[q] /\ e = wire[q][i]
      <4>1. Truthful(msg[q], srv[q].stage, e.kind, e.text) /\ e.kind \in Kinds /\ (e.kind = "cut" => Orphan(q))
        BY <1>1, <3>2 DEF Told
      <4> HIDE DEF e
      <4>2. Truthful(msg'[q], srv'[q].stage, e.kind, e.text)
        BY <1>4, <4>1, TruthRemains
      <4> QED  BY <1>o, <4>1, <4>2 DEF e
    <3> QED  BY <1>5, <3>1, <3>2
  <2> QED  BY <2>1 DEF Told
<1>10. \A q \in Requests : Seen(q)'
  BY <1>1, <1>2, <1>4, <1>o, RowFields DEF Local, Seen, Keeps
<1> QED  BY <1>6, <1>7, <1>8, <1>9, <1>10 DEF IInv


(* What the browser does changes neither the database nor a handler.       *)
LEMMA ClientKeeps ==
  ASSUME IInv, UNCHANGED <<msg, logs, srv, stream>>, DOMAIN conv' = Conversations,
         DOMAIN wire' = Requests, DOMAIN heard' = Requests, DOMAIN screen' = Requests,
         \A r \in Requests : DOMAIN screen'[r] = {"status", "text", "known"} /\ wire'[r] \in Seq(Range(wire'[r])),
         \A r \in Requests : Told(r)' /\ Seen(r)', Read'
  PROVE  IInv'
<1>1. Typed'
  BY DEF IInv, Typed
<1>2. \A r \in Requests : Agree(msg'[r], logs'[r]) /\ Progress(r)'
  BY DEF IInv, Progress
<1> QED  BY <1>1, <1>2 DEF IInv

LEMMA NoEvents == <<>> \in Seq(Range(<<>>)) /\ DOMAIN <<>> = {}
<1>1. <<>> \in Seq(Range(<<>>)) /\ Len(<<>>) = 0
  BY EmptySeq
<1>2. DOMAIN <<>> = 1..0
  BY <1>1, LenProperties
<1> QED  BY <1>1, <1>2

LEMMA AskKeeps ==
  ASSUME IInv, NEW r \in Requests, NEW w \in Ways[r], NEW t \in Conversations \cup {New}, Ask(r, w[1], w[2], t)
  PROVE  IInv'
<1>1. Typed /\ Read /\ \A q \in Requests : Agree(msg[q], logs[q]) /\ Progress(q) /\ Told(q) /\ Seen(q)
  BY DEF IInv
<1> DEFINE row  == [Unasked EXCEPT !.stage = "asked", !.kind = w[1], !.mode = w[2], !.conv = t]
           seen == [status |-> "running", text |-> NoText, known |-> t # New]
<1>2. /\ UNCHANGED <<conv, msg, logs, stream, wire, fetched>> /\ srv[r].stage = "idle"
      /\ srv' = [srv EXCEPT ![r] = row] /\ heard' = [heard EXCEPT ![r] = TRUE] /\ screen' = [screen EXCEPT ![r] = seen]
  BY DEF Ask, db
<1>3. row \in Handler /\ row.stage = "asked"
  <2>1. w[1] \in {"stream", "plain"} /\ w[2] \in {"answer", "search"}
    BY StreamsAssumption
  <2>2. Unasked \in Handler
    BY DEF Unasked, Handler, Stages, Outcomes
  <2> QED  BY <2>1, <2>2 DEF Handler, Stages
<1>4. DOMAIN seen = {"status", "text", "known"} /\ seen.status = "running"
  OBVIOUS
<1> HIDE DEF row, seen
<1>5. /\ DOMAIN srv' = Requests /\ srv'[r] = row /\ DOMAIN heard' = Requests /\ DOMAIN screen' = Requests
      /\ screen'[r] = seen
      /\ \A q \in Requests \ {r} : srv'[q] = srv[q] /\ heard'[q] = heard[q] /\ screen'[q] = screen[q]
  BY <1>1, <1>2 DEF Typed
<1>6. Typed'
  BY <1>1, <1>2, <1>3, <1>4, <1>5 DEF Typed
<1>7. \A q \in Requests : Keeps(q)
  BY <1>2, <1>5 DEF Keeps, Undone
<1>8. Read'
  BY <1>1, <1>2, <1>7, TruthRemains DEF Read
<1>9. \A q \in Requests : Agree(msg'[q], logs'[q]) /\ Progress(q)'
  BY <1>1, <1>2, <1>3, <1>5 DEF Progress
<1>o. \A q \in Requests : Orphan(q) => Orphan(q)'
  BY <1>2, <1>5 DEF Orphan
<1>10. \A q \in Requests : Told(q)'
  BY <1>1, <1>2, <1>7, <1>o, TruthRemains DEF Told
<1>11. \A q \in Requests : Seen(q)'
  BY <1>1, <1>2, <1>4, <1>5, <1>o DEF Seen, Undone, Orphan
<1> QED  BY <1>6, <1>8, <1>9, <1>10, <1>11 DEF IInv

LEMMA ShownFields ==
  ASSUME NEW s, DOMAIN s = {"status", "text", "known"}, NEW e, e.kind \in Kinds
  PROVE  /\ DOMAIN Shown(s, e) = {"status", "text", "known"}
         /\ Shown(s, e).status = "done" => s.status = "done" \/ e.kind \in {"done", "cut"}
         /\ Shown(s, e).status = "done" /\ e.kind = "done" => Shown(s, e).text = e.text
         /\ Shown(s, e).status = "done" => e.kind \notin {"error", "broken"}
         /\ Shown(s, e).status = "error" =>
              \/ s.status = "error" \/ e.kind = "error"
              \/ e.kind = "broken" /\ Shown(s, e).text = Lost
BY DEF Shown, Kinds, SentKinds


LEMMA HearKeeps ==
  ASSUME IInv, NEW r \in Requests, Hear(r)
  PROVE  IInv'
<1> DEFINE e    == Head(wire[r])
           next == Shown(screen[r], e)
           last == Closing(wire[r])
           w    == IF last THEN <<>> ELSE Tail(wire[r])
<1>1. Typed /\ Read /\ \A q \in Requests : Told(q) /\ Seen(q)
  BY DEF IInv
<1>2. /\ UNCHANGED <<conv, msg, logs, srv, stream, fetched>> /\ heard[r] /\ wire[r] # <<>>
      /\ screen' = [screen EXCEPT ![r] = next] /\ heard' = [heard EXCEPT ![r] = ~last]
      /\ wire' = [wire EXCEPT ![r] = w]
  BY DEF Hear, db
<1>3. /\ w \in Seq(Range(w)) /\ \A i \in DOMAIN w : i + 1 \in DOMAIN wire[r] /\ w[i] = wire[r][i + 1]
      /\ 1 \in DOMAIN wire[r] /\ e = wire[r][1]
  <2> DEFINE v == wire[r]
             t == Tail(v)
  <2>1. v \in Seq(Range(v)) /\ v # <<>>
    BY <1>1, <1>2 DEF Typed
  <2>2. /\ t \in Seq(Range(t)) /\ \A i \in DOMAIN t : i + 1 \in DOMAIN v /\ t[i] = v[i + 1]
        /\ 1 \in DOMAIN v /\ e = v[1]
    BY <2>1, Tailed
  <2>3. w = <<>> \/ w = t
    OBVIOUS
  <2> HIDE DEF t, v, w, e, last
  <2>4. w = <<>> => w \in Seq(Range(w)) /\ DOMAIN w = {}
    BY NoEvents
  <2>5. w \in Seq(Range(w)) /\ \A i \in DOMAIN w : i + 1 \in DOMAIN v /\ w[i] = v[i + 1]
    BY <2>2, <2>3, <2>4
  <2> QED  BY <2>2, <2>5 DEF v
<1>4. /\ Truthful(msg[r], srv[r].stage, e.kind, e.text) /\ e.kind \in Kinds
      /\ e.kind = "cut" => Orphan(r)
  BY <1>1, <1>3 DEF Told
<1>5. /\ DOMAIN next = {"status", "text", "known"}
      /\ next.status = "done" => screen[r].status = "done" \/ e.kind \in {"done", "cut"}
      /\ next.status = "done" /\ e.kind = "done" => next.text = e.text
      /\ next.status = "done" => e.kind \notin {"error", "broken"}
      /\ next.status = "error" =>
           \/ screen[r].status = "error" \/ e.kind = "error"
           \/ e.kind = "broken" /\ next.text = Lost
  <2>1. DOMAIN screen[r] = {"status", "text", "known"}
    BY <1>1 DEF Typed
  <2> HIDE DEF e, next
  <2>3. next = Shown(screen[r], e)
    BY DEF next, e
  <2> QED  BY <1>4, <2>1, <2>3, ShownFields, Zenon
<1>c. (last => e.kind \in {"error", "cut", "broken", "done"}) /\ (e.kind = "broken" => last) /\ last \in BOOLEAN
  BY DEF Closing
<1> HIDE DEF e, next, w, last
<1>6. /\ DOMAIN wire' = Requests /\ DOMAIN heard' = Requests /\ DOMAIN screen' = Requests
      /\ wire'[r] = w /\ heard'[r] = ~last /\ screen'[r] = next
      /\ \A q \in Requests \ {r} : wire'[q] = wire[q] /\ heard'[q] = heard[q] /\ screen'[q] = screen[q]
  <2>1. DOMAIN wire = Requests /\ DOMAIN heard = Requests /\ DOMAIN screen = Requests
    BY <1>1 DEF Typed
  <2> QED  BY <1>2, <2>1
<1>7. \A q \in Requests : DOMAIN screen'[q] = {"status", "text", "known"} /\ wire'[q] \in Seq(Range(wire'[q]))
  BY <1>1, <1>3, <1>5, <1>6 DEF Typed
<1>8. \A q \in Requests : Told(q)'
  BY <1>1, <1>2, <1>3, <1>6 DEF Told, Orphan
<1>9. \A q \in Requests : Seen(q)'
  <2>1. Seen(r)'
    <3>1. next.status = "done" /\ last => msg[r] = Row("done", next.text) \/ Orphan(r)
      BY <1>4, <1>5, <1>c DEF Truthful
    <3>2. next.status = "error" => Undone(r) \/ (next.text = Lost /\ last)
      BY <1>1, <1>2, <1>4, <1>5, <1>c DEF Truthful, Seen, Undone
    <3> QED  BY <1>2, <1>6, <1>c, <3>1, <3>2 DEF Seen, Undone, Orphan
  <2>2. \A q \in Requests \ {r} : Seen(q)'
    BY <1>1, <1>2, <1>6 DEF Seen, Undone, Orphan
  <2> QED  BY <2>1, <2>2
<1>10. Read'
  BY <1>1, <1>2 DEF Read
<1>11. DOMAIN conv' = Conversations
  BY <1>1, <1>2 DEF Typed
<1> QED  BY <1>2, <1>6, <1>7, <1>8, <1>9, <1>10, <1>11, ClientKeeps

LEMMA CancelKeeps ==
  ASSUME IInv, NEW r \in Requests, Cancel(r)
  PROVE  IInv'
<1> DEFINE status == IF screen[r].status = "none" THEN "none" ELSE "cancelled"
           next   == [screen[r] EXCEPT !.status = status]
<1>1. Typed /\ Read /\ \A q \in Requests : Told(q) /\ Seen(q)
  BY DEF IInv
<1>2. /\ UNCHANGED <<conv, msg, logs, srv, stream, fetched>>
      /\ screen' = [screen EXCEPT ![r] = next] /\ heard' = [heard EXCEPT ![r] = FALSE]
      /\ wire' = [wire EXCEPT ![r] = <<>>]
  BY DEF Cancel, db
<1>3. DOMAIN next = {"status", "text", "known"} /\ next.status \notin {"done", "error"}
  BY <1>1 DEF Typed
<1> HIDE DEF next
<1>4. /\ DOMAIN wire' = Requests /\ DOMAIN heard' = Requests /\ DOMAIN screen' = Requests
      /\ wire'[r] = <<>> /\ heard'[r] = FALSE /\ screen'[r] = next
      /\ \A q \in Requests \ {r} : wire'[q] = wire[q] /\ heard'[q] = heard[q] /\ screen'[q] = screen[q]
  <2>1. DOMAIN wire = Requests /\ DOMAIN heard = Requests /\ DOMAIN screen = Requests
    BY <1>1 DEF Typed
  <2> QED  BY <1>2, <2>1
<1>5. \A q \in Requests : DOMAIN screen'[q] = {"status", "text", "known"} /\ wire'[q] \in Seq(Range(wire'[q]))
  BY <1>1, <1>3, <1>4, NoEvents DEF Typed
<1>6. \A q \in Requests : Told(q)' /\ Seen(q)'
  BY <1>1, <1>2, <1>3, <1>4, NoEvents DEF Told, Seen, Undone, Orphan
<1>7. Read' /\ DOMAIN conv' = Conversations
  BY <1>1, <1>2 DEF Read, Typed
<1> QED  BY <1>2, <1>4, <1>5, <1>6, <1>7, ClientKeeps

(* A stored row tells the truth about itself.                              *)
LEMMA StoredTrue ==
  ASSUME IInv, NEW r \in Requests
  PROVE  /\ DOMAIN Stored(r) = {"status", "text", "known"}
         /\ Truthful(msg[r], srv[r].stage, Stored(r).status, Stored(r).text)
<1>1. msg[r] = Row(msg[r].status, msg[r].text) /\ Progress(r)
  BY DEF IInv, Agree
<1>2. DOMAIN Stored(r) = {"status", "text", "known"} /\ Stored(r).status = msg[r].status /\ Stored(r).text = msg[r].text
  BY DEF Stored
<1>3. msg[r].status = "error" => srv[r].stage \in {"apologizing", "closed"}
  BY <1>1 DEF Progress
<1> QED  BY <1>1, <1>2, <1>3 DEF Truthful

LEMMA ReloadKeeps ==
  ASSUME IInv, NEW c \in Conversations, Reload(c)
  PROVE  IInv'
<1>1. Typed
  BY DEF IInv
<1>2. /\ UNCHANGED <<conv, msg, logs, srv, stream>> /\ fetched' = NotFetched
      /\ wire' = [r \in Requests |-> <<>>] /\ heard' = [r \in Requests |-> FALSE]
      /\ DOMAIN screen' = Requests /\ \A r \in Requests : screen'[r] = Stored(r) \/ screen'[r] = NotShown
  BY DEF Reload, db
<1>3. DOMAIN NotShown = {"status", "text", "known"} /\ NotShown.status = "none"
  BY DEF NotShown
<1>4. /\ DOMAIN wire' = Requests /\ DOMAIN heard' = Requests
      /\ \A q \in Requests : DOMAIN screen'[q] = {"status", "text", "known"} /\ wire'[q] \in Seq(Range(wire'[q]))
  BY <1>2, <1>3, NoEvents, StoredTrue
<1>5. \A q \in Requests : Told(q)'
  BY <1>2, NoEvents DEF Told
<1>6. \A q \in Requests : Seen(q)'
  BY <1>2, <1>3, StoredTrue DEF Seen, Undone, Orphan, Truthful
<1>7. Read'
  BY <1>2, NoEvents DEF Read, NotFetched
<1>8. DOMAIN conv' = Conversations
  BY <1>1, <1>2 DEF Typed
<1> QED  BY <1>2, <1>4, <1>5, <1>6, <1>7, <1>8, ClientKeeps

LEMMA FetchKeeps ==
  ASSUME IInv, NEW c \in Conversations, Fetch(c)
  PROVE  IInv'
<1>1. Typed /\ \A q \in Requests : Told(q) /\ Seen(q)
  BY DEF IInv
<1> DEFINE Q    == {q \in Requests : srv[q].conv = c /\ msg[q].status # "none"}
           rows == [r \in Q |-> Stored(r)]
<1>2. UNCHANGED <<conv, msg, logs, srv, stream, wire, heard, screen>> /\ fetched'.rows = rows
  BY DEF Fetch, db
<1>3. Q \subseteq Requests
  OBVIOUS
<1> HIDE DEF Q
<1>4. Read'
  BY <1>2, <1>3, StoredTrue DEF Read
<1>5. \A q \in Requests : Told(q)' /\ Seen(q)'
  BY <1>1, <1>2 DEF Told, Seen, Undone, Orphan
<1> QED  BY <1>1, <1>2, <1>4, <1>5, ClientKeeps DEF Typed

LEMMA SelectKeeps ==
  ASSUME IInv, Select
  PROVE  IInv'
<1>1. Typed /\ Read /\ \A q \in Requests : Told(q) /\ Seen(q)
  BY DEF IInv
<1>2. /\ UNCHANGED <<conv, msg, logs, srv, stream, wire, heard>> /\ fetched' = NotFetched
      /\ DOMAIN screen' = Requests
      /\ \A r \in Requests : \/ screen'[r] = screen[r] \/ screen'[r] = NotShown
                             \/ r \in DOMAIN fetched.rows /\ screen'[r] = fetched.rows[r]
  BY DEF Select, db
<1>3. DOMAIN NotShown = {"status", "text", "known"} /\ NotShown.status = "none"
  BY DEF NotShown
<1>4. \A q \in Requests : DOMAIN screen'[q] = {"status", "text", "known"}
  BY <1>1, <1>2, <1>3 DEF Typed, Read
<1>5. \A q \in Requests : Told(q)'
  BY <1>1, <1>2 DEF Told, Orphan
<1>6. \A q \in Requests : Seen(q)'
  BY <1>1, <1>2, <1>3 DEF Seen, Undone, Orphan, Read, Truthful
<1>7. Read'
  BY <1>2, NoEvents DEF Read, NotFetched
<1> QED  BY <1>1, <1>2, <1>4, <1>5, <1>6, <1>7, ClientKeeps DEF Typed

LEMMA ConversationKeeps ==
  ASSUME IInv, Create \/ \E c \in Conversations : Delete(c)
  PROVE  IInv'
<1>1. Typed /\ Read /\ \A q \in Requests : Told(q) /\ Seen(q)
  BY DEF IInv
<1>2. /\ UNCHANGED <<msg, logs, srv, stream, wire, heard, screen, fetched>>
      /\ \E c, s : conv' = [conv EXCEPT ![c] = s]
  <2>1. CASE Create
    BY <2>1 DEF Create
  <2>2. ASSUME NEW c \in Conversations, Delete(c)
        PROVE  conv' = [conv EXCEPT ![c] = "deleted"] /\ UNCHANGED <<msg, logs, srv, stream, wire, heard, screen, fetched>>
    BY <2>2 DEF Delete
  <2> QED  BY <2>1, <2>2
<1>3. DOMAIN conv' = Conversations
  BY <1>1, <1>2 DEF Typed
<1>4. Read' /\ \A q \in Requests : Told(q)' /\ Seen(q)'
  BY <1>1, <1>2 DEF Read, Told, Seen, Undone, Orphan
<1> QED  BY <1>1, <1>2, <1>3, <1>4, ClientKeeps DEF Typed


LEMMA CrashKeeps ==
  ASSUME IInv, Crash
  PROVE  IInv'
<1> DEFINE Ending(e) == e = Event("broken", NoText) \/ e = Event("cut", NoText)
<1>1. Typed /\ Read /\ \A q \in Requests : Agree(msg[q], logs[q]) /\ Progress(q) /\ Told(q) /\ Seen(q)
  BY DEF IInv
<1>2. UNCHANGED <<conv, msg, logs, heard, screen, fetched>>
  BY DEF Crash, db
<1>3. /\ DOMAIN srv' = Requests /\ DOMAIN stream' = Requests
      /\ \A q \in Requests :
           /\ srv'[q] \in Handler /\ DOMAIN stream'[q] = {"todo", "filter", "said", "sent", "text", "rows"}
           /\ srv'[q].stage = "closed" \/ (srv'[q] = srv[q] /\ stream'[q] = stream[q])
  <2>1. /\ DOMAIN srv' = Requests /\ DOMAIN stream' = Requests
        /\ \A q \in Requests : stream'[q] = IF q \in Busy THEN NoStream ELSE stream[q]
    BY DEF Crash
  <2>2. ASSUME NEW q \in Requests, q \in Busy
        PROVE  srv'[q] \in Handler /\ srv'[q].stage = "closed"
    <3> DEFINE c == IF srv[q].fresh /\ conv[srv[q].conv] = "none" THEN New ELSE srv[q].conv
    <3>1. srv[q] \in Handler
      BY <1>1 DEF Typed
    <3>2. srv'[q] = [srv[q] EXCEPT !.stage = "closed", !.outcome = "crashed", !.fresh = FALSE, !.conv = c]
      BY <2>2 DEF Crash
    <3>3. c \in Conversations \cup {New}
      BY <3>1 DEF Handler
    <3> HIDE DEF c
    <3> QED  BY <3>1, <3>2, <3>3 DEF Handler, Stages, Outcomes
  <2>3. \A q \in Requests : q \notin Busy => srv'[q] = srv[q]
    BY DEF Crash
  <2>4. DOMAIN NoStream = {"todo", "filter", "said", "sent", "text", "rows"}
    BY DEF NoStream
  <2> QED  BY <1>1, <2>1, <2>2, <2>3, <2>4 DEF Typed
<1>o. \A q \in Requests : q \in Busy /\ srv[q].kind = "stream" => Orphan(q)'
  <2>1. ASSUME NEW q \in Requests, q \in Busy, srv[q].kind = "stream"
        PROVE  Orphan(q)'
    <3>1. srv[q] \in Handler
      BY <1>1 DEF Typed
    <3> DEFINE c == IF srv[q].fresh /\ conv[srv[q].conv] = "none" THEN New ELSE srv[q].conv
    <3>2. srv'[q] = [srv[q] EXCEPT !.stage = "closed", !.outcome = "crashed", !.fresh = FALSE, !.conv = c]
      BY <2>1 DEF Crash
    <3> HIDE DEF c
    <3> QED  BY <2>1, <3>1, <3>2 DEF Orphan, Handler
  <2> QED  BY <2>1
<1>p. \A q \in Requests : Orphan(q) => Orphan(q)'
  <2>1. \A q \in Requests : Orphan(q) => srv'[q] = srv[q]
    BY DEF Orphan, Crash, Busy
  <2> QED  BY <2>1 DEF Orphan
<1>4. /\ DOMAIN wire' = Requests
      /\ \A q \in Requests :
           \/ wire'[q] = wire[q]
           \/ \E e : Ending(e) /\ wire'[q] \in {Append(wire[q], e), <<e>>} /\ (e.kind = "cut" => Orphan(q)')
  <2>1. PICK how \in {"cut", "broken"} : wire' = [q \in Requests |-> Dropped(q, how)]
    BY DEF Crash
  <2>2. ASSUME NEW q \in Requests, Dropped(q, how) # wire[q]
        PROVE  \E e : Ending(e) /\ Dropped(q, how) \in {Append(wire[q], e), <<e>>} /\ (e.kind = "cut" => Orphan(q)')
    <3>1. CASE Streaming(q)
      <4>1. Dropped(q, how) = Append(wire[q], Event(how, NoText)) /\ (how = "cut" => q \in Busy)
        BY <2>2, <3>1 DEF Dropped
      <4>2. how = "cut" => Orphan(q)'
        BY <1>o, <3>1, <4>1 DEF Streaming
      <4> QED  BY <2>1, <4>1, <4>2, EventFields
    <3>2. CASE ~Streaming(q)
      <4>1. Dropped(q, how) = <<Event("broken", NoText)>>
        BY <2>2, <3>2 DEF Dropped
      <4> QED  BY <4>1, EventFields
    <3> QED  BY <3>1, <3>2
  <2> QED  BY <2>1, <2>2
<1>5. \A q \in Requests : Keeps(q)
  BY <1>2, <1>3 DEF Keeps, Undone
<1>6. ASSUME NEW q \in Requests
      PROVE  /\ wire'[q] \in Seq(Range(wire'[q]))
             /\ \A i \in DOMAIN wire'[q] :
                  \/ Ending(wire'[q][i]) /\ (wire'[q][i].kind = "cut" => Orphan(q)')
                  \/ i \in DOMAIN wire[q] /\ wire'[q][i] = wire[q][i]
  <2>1. wire[q] \in Seq(Range(wire[q]))
    BY <1>1 DEF Typed
  <2>2. ASSUME NEW e, Ending(e), e.kind = "cut" => Orphan(q)', wire'[q] = Append(wire[q], e)
        PROVE  /\ wire'[q] \in Seq(Range(wire'[q]))
               /\ \A i \in DOMAIN wire'[q] :
                    wire'[q][i] = e \/ (i \in DOMAIN wire[q] /\ wire'[q][i] = wire[q][i])
    BY <2>1, <2>2, Appended
  <2>3. ASSUME NEW e, Ending(e), e.kind = "cut" => Orphan(q)', wire'[q] = <<e>>
        PROVE  wire'[q] \in Seq(Range(wire'[q])) /\ \A i \in DOMAIN wire'[q] : wire'[q][i] = e
    <3> DEFINE one == <<e>>
    <3>1. one \in Seq({e}) /\ DOMAIN one = {1} /\ one[1] = e
      OBVIOUS
    <3> HIDE DEF one
    <3>2. one \in Seq(Range(one))
      BY <3>1, SeqOfRange
    <3> QED  BY <2>3, <3>1, <3>2 DEF one
  <2> HIDE DEF Ending
  <2> QED  BY <1>4, <2>1, <2>2, <2>3
<1>7. Typed'
  BY <1>1, <1>2, <1>3, <1>4, <1>6 DEF Typed
<1>8. Read'
  BY <1>1, <1>2, <1>5, TruthRemains DEF Read
<1>9. \A q \in Requests : Agree(msg'[q], logs'[q])
  BY <1>1, <1>2
<1>10. \A q \in Requests : Progress(q)'
  BY <1>1, <1>2, <1>3 DEF Progress
<1>11. ASSUME NEW q \in Requests
       PROVE  Told(q)'
  <2>1. ASSUME NEW i \in DOMAIN wire'[q]
        PROVE  /\ wire'[q][i].kind \in Kinds /\ (wire'[q][i].kind = "cut" => Orphan(q)')
               /\ Truthful(msg'[q], srv'[q].stage, wire'[q][i].kind, wire'[q][i].text)
    <3> DEFINE e == wire'[q][i]
    <3>2. CASE Ending(e) /\ (e.kind = "cut" => Orphan(q)')
      BY <3>2, EventFields DEF Truthful, Kinds
    <3>3. CASE i \in DOMAIN wire[q] /\ e = wire[q][i]
      <4>1. Truthful(msg[q], srv[q].stage, e.kind, e.text) /\ e.kind \in Kinds /\ (e.kind = "cut" => Orphan(q))
        BY <1>1, <3>3 DEF Told
      <4> HIDE DEF e
      <4>2. Truthful(msg'[q], srv'[q].stage, e.kind, e.text)
        BY <1>5, <4>1, TruthRemains
      <4> QED  BY <1>p, <4>1, <4>2 DEF e
    <3> HIDE DEF Ending
    <3> QED  BY <1>6, <2>1, <3>2, <3>3
  <2> QED  BY <2>1 DEF Told
<1>12. \A q \in Requests : Seen(q)'
  BY <1>1, <1>2, <1>5, <1>p DEF Seen, Keeps
<1> QED  BY <1>7, <1>8, <1>9, <1>10, <1>11, <1>12 DEF IInv

LEMMA InitInv == Init => IInv
<1> SUFFICES ASSUME Init PROVE IInv
  OBVIOUS
<1>1. Unasked \in Handler /\ Unasked.stage = "idle"
  BY DEF Unasked, Handler, Stages, Outcomes
<1>2. DOMAIN NoStream = {"todo", "filter", "said", "sent", "text", "rows"} /\ NoStream.said = NoText
  BY DEF NoStream
<1>3. /\ DOMAIN conv = Conversations /\ msg = [r \in Requests |-> NoRow] /\ logs = [r \in Requests |-> {}]
      /\ srv = [r \in Requests |-> Unasked] /\ stream = [r \in Requests |-> NoStream]
      /\ wire = [r \in Requests |-> <<>>] /\ heard = [r \in Requests |-> FALSE]
      /\ screen = [r \in Requests |-> NotShown] /\ fetched = NotFetched
  BY DEF Init, NotShown
<1>4. DOMAIN NotShown = {"status", "text", "known"} /\ NotShown.status = "none"
  BY DEF NotShown
<1>5. Typed
  BY <1>1, <1>2, <1>3, <1>4, NoEvents DEF Typed
<1>6. Read
  BY <1>3, NoEvents DEF Read, NotFetched
<1>7. \A q \in Requests : Agree(msg[q], logs[q]) /\ Told(q) /\ Seen(q)
  BY <1>3, <1>4, NoEvents, OtherRows DEF Told, Seen
<1>8. \A q \in Requests : Progress(q)
  BY <1>1, <1>2, <1>3, RowFields DEF Progress
<1> QED  BY <1>5, <1>6, <1>7, <1>8 DEF IInv

LEMMA NextKeeps == IInv /\ [Next]_vars => IInv'
<1> SUFFICES ASSUME IInv, [Next]_vars PROVE IInv'
  OBVIOUS
<1>1. CASE \E r \in Requests : Handle(r)
  BY <1>1, HandleKeeps
<1>2. CASE \E r \in Requests : Hear(r)
  BY <1>2, HearKeeps
<1>3. CASE Browse
  <2>1. CASE \E r \in Requests : \E w \in Ways[r], t \in Conversations \cup {New} : Ask(r, w[1], w[2], t)
    BY <2>1, AskKeeps
  <2>2. CASE \E r \in Requests : Cancel(r)
    BY <2>2, CancelKeeps
  <2>3. CASE \E c \in Conversations : Reload(c) \/ Fetch(c) \/ Delete(c)
    BY <2>3, ReloadKeeps, FetchKeeps, ConversationKeeps
  <2>4. CASE Select
    BY <2>4, SelectKeeps
  <2>5. CASE Create
    BY <2>5, ConversationKeeps
  <2> QED  BY <1>3, <2>1, <2>2, <2>3, <2>4, <2>5 DEF Browse
<1>4. CASE Crash
  BY <1>4, CrashKeeps
<1>5. CASE UNCHANGED vars
  <2>1. UNCHANGED <<conv, msg, logs, srv, stream, wire, heard, screen, fetched>>
    BY <1>5 DEF vars
  <2>2. Read' /\ \A q \in Requests : Told(q)' /\ Seen(q)'
    BY <2>1 DEF IInv, Read, Told, Seen, Undone, Orphan
  <2> QED  BY <2>1, <2>2, ClientKeeps DEF IInv, Typed
<1> QED  BY <1>1, <1>2, <1>3, <1>4, <1>5 DEF Next

-----------------------------------------------------------------------------
(* Theorems.                                                               *)

LEMMA Invariance == Spec => []IInv
BY InitInv, NextKeeps, PTL DEF Spec

(* Of an answer and its log neither is ever without the other, through     *)
(* every failure, crash and departure and on both routes; an answer that   *)
(* is a refusal or was changed is logged as that                           *)
(* (finalize_query_stream, execute_query).                                 *)
THEOREM AnswersAreLogged == Spec => []AnswersLogged
<1>1. IInv => AnswersLogged
  BY DEF IInv, Agree, AnswersLogged
<1> QED  BY <1>1, Invariance, PTL

(* An answer that the browser shows as complete, once it has stopped       *)
(* listening, is the committed and logged message, text for text, whatever *)
(* it reloaded or selected meanwhile, unless the process died under its    *)
(* stream; and an error that the service told it never hides an answer     *)
(* that was stored (query_stream_sse_events, useQueryStream).              *)
THEOREM ShownAnswersStored == Spec => []ShownIsStored
<1>1. IInv => ShownIsStored
  <2> SUFFICES ASSUME IInv, NEW r \in Requests
               PROVE  /\ screen[r].status = "done" /\ ~heard[r] =>
                           \/ msg[r] = Row("done", screen[r].text) /\ QueryLog("success") \in logs[r]
                           \/ srv[r].kind = "stream" /\ srv[r].outcome = "crashed"
                      /\ screen[r].status = "error" /\ screen[r].text # Lost => msg[r].status # "done"
    BY DEF ShownIsStored
  <2>1. Seen(r) /\ Agree(msg[r], logs[r])
    BY DEF IInv
  <2> QED  BY <2>1, RowFields DEF Seen, Agree, Undone, Orphan
<1> QED  BY <1>1, Invariance, PTL
=============================================================================
