--------------------------- MODULE PipelineProofs ---------------------------
(***************************************************************************)
(* What becomes of a document that is imported.                            *)
(*                                                                         *)
(* Chunking, for every text and every bound on a chunk: its text is in the *)
(* chunks, once and in order, cut only where it must be, and cited where   *)
(* it stands.                                                              *)
(*                                                                         *)
(* IndexLifecycle, for every number of jobs, index versions, permission    *)
(* changes and departments: what a search may find.                        *)
(***************************************************************************)
EXTENDS IndexLifecycle, Chunking, ListProofs

-----------------------------------------------------------------------------
(* Texts of lines and of blocks.                                           *)

Nums    == 1..Len(doc)
Written == doc \in Seq(Lines)

\* A line that was read is a line, with a length.
LEMMA SizeIs ==
  ASSUME Written PROVE \A n \in Nums : doc[n] \in Lines /\ doc[n].size \in Nat
  BY ChunkingAssumption, ElementOfSeq DEF Written, Nums

\* The sum of the first i of a list.
Upto(list, i) == Total(SubSeq(list, 1, i))

\* Such sums go from 0 to the total, term by term.
LEMMA UptoIs ==
  ASSUME NEW list \in Seq(Nat)
  PROVE  /\ Upto(list, 0) = 0 /\ Upto(list, Len(list)) = Total(list)
         /\ \A i \in 0..Len(list) : Upto(list, i) \in Nat
         /\ \A i \in 1..Len(list) : Upto(list, i) = Upto(list, i - 1) + list[i]
<1>1. Len(list) \in Nat /\ \A i \in 1..Len(list) : list[i] \in Nat
  BY LenProperties, ElementOfSeq
<1>2. ASSUME NEW i \in 0..Len(list)
      PROVE  /\ SubSeq(list, 1, i) \in Seq(Nat) /\ Len(SubSeq(list, 1, i)) = i
             /\ \A j \in 1..i : SubSeq(list, 1, i)[j] = list[j]
  <2>1. /\ SubSeq(list, 1, i) \in Seq(Nat)
        /\ Len(SubSeq(list, 1, i)) = IF 1 <= i THEN i - 1 + 1 ELSE 0
        /\ \A j \in 1..(i - 1 + 1) : SubSeq(list, 1, i)[j] = list[1 + j - 1]
    BY <1>1, SubSeqProperties
  <2> QED BY <1>1, <2>1
<1>3. SubSeq(list, 1, 0) = <<>>
  BY <1>1, <1>2, EmptySeq
<1>4. SubSeq(list, 1, Len(list)) = list
  BY <1>1, <1>2, SeqEqual
<1>5. ASSUME NEW i \in 1..Len(list)
      PROVE  SubSeq(list, 1, i) = Append(SubSeq(list, 1, i - 1), list[i])
  <2> DEFINE a == SubSeq(list, 1, i - 1)
             b == SubSeq(list, 1, i)
  <2>1. i - 1 \in 0..Len(list) /\ i \in 0..Len(list)
    BY <1>1
  <2>2. a \in Seq(Nat) /\ Len(a) = i - 1 /\ \A j \in 1..(i - 1) : a[j] = list[j]
    BY <1>2, <2>1
  <2>3. b \in Seq(Nat) /\ Len(b) = i /\ \A j \in 1..i : b[j] = list[j]
    BY <1>2, <2>1
  <2> HIDE DEF a, b
  <2>4. /\ Append(a, list[i]) \in Seq(Nat) /\ Len(Append(a, list[i])) = i
        /\ \A j \in 1..(i - 1) : Append(a, list[i])[j] = a[j]
        /\ Append(a, list[i])[i] = list[i]
    <3>1. list[i] \in Nat
      BY <1>1
    <3>2. /\ Append(a, list[i]) \in Seq(Nat) /\ Len(Append(a, list[i])) = Len(a) + 1
          /\ \A j \in 1..Len(a) : Append(a, list[i])[j] = a[j]
          /\ Append(a, list[i])[Len(a) + 1] = list[i]
      BY <2>2, <3>1, AppendProperties
    <3> QED BY <2>2, <3>2
  <2>5. \A j \in 1..i : b[j] = Append(a, list[i])[j]
    <3>1. ASSUME NEW j \in 1..i PROVE b[j] = Append(a, list[i])[j]
      <4>1. j = i \/ j \in 1..(i - 1)
        OBVIOUS
      <4> QED BY <2>2, <2>3, <2>4, <4>1
    <3> QED BY <3>1
  <2>6. b = Append(a, list[i])
    BY <2>3, <2>4, <2>5, SeqEqual
  <2> QED BY <2>6 DEF a, b
<1>6. \A i \in 0..Len(list) : Upto(list, i) \in Nat
  BY <1>2, TotalIs DEF Upto
<1>7. ASSUME NEW i \in 1..Len(list) PROVE Upto(list, i) = Upto(list, i - 1) + list[i]
  <2> DEFINE a == SubSeq(list, 1, i - 1)
             k == list[i]
  <2>1. a \in Seq(Nat) /\ k \in Nat
    <3>1. i - 1 \in 0..Len(list)
      BY <1>1
    <3> QED BY <1>1, <1>2, <3>1
  <2>2. Upto(list, i) = Total(Append(a, k)) /\ Upto(list, i - 1) = Total(a)
    BY <1>5 DEF Upto
  <2> HIDE DEF a, k
  <2>3. Total(Append(a, k)) = Total(a) + k
    BY <2>1, TotalIs
  <2> QED BY <2>2, <2>3 DEF k
<1> QED BY <1>3, <1>4, <1>6, <1>7, TotalIs DEF Upto

\* Sums grow.
LEMMA UptoGrows ==
  ASSUME NEW list \in Seq(Nat), NEW i \in 0..Len(list), NEW j \in i..Len(list)
  PROVE  Upto(list, i) <= Upto(list, j)
<1> DEFINE n == Len(list)
           T == {d \in 0..(n - i) : Upto(list, i) <= Upto(list, i + d)}
<1>1. n \in Nat /\ i \in 0..n /\ n - i \in Nat /\ \A k \in 1..n : list[k] \in Nat
  BY LenProperties, ElementOfSeq
<1> HIDE DEF n
<1>2. /\ \A k \in 0..n : Upto(list, k) \in Nat
      /\ \A k \in 1..n : Upto(list, k) = Upto(list, k - 1) + list[k]
  BY UptoIs DEF n
<1>3. 0 \in T
  BY <1>1, <1>2
<1>4. ASSUME NEW d \in 1..(n - i), d - 1 \in T PROVE d \in T
  <2>1. i + d \in 1..n /\ i + (d - 1) \in 0..n /\ (i + d) - 1 = i + (d - 1) /\ d \in 0..(n - i)
    BY <1>1
  <2>2. Upto(list, i + d) = Upto(list, i + (d - 1)) + list[i + d]
    BY <1>2, <2>1
  <2>3. Upto(list, i) <= Upto(list, i + (d - 1))
    BY <1>4
  <2>4. Upto(list, i + (d - 1)) \in Nat /\ list[i + d] \in Nat /\ Upto(list, i) \in Nat
    BY <1>1, <1>2, <2>1
  <2> HIDE DEF T
  <2>5. Upto(list, i) <= Upto(list, i + d)
    BY <2>2, <2>3, <2>4
  <2> QED BY <2>1, <2>5 DEF T
<1>5. 0..(n - i) \subseteq T
  <2> HIDE DEF T
  <2> QED BY <1>1, <1>3, <1>4, Inductive
<1>6. j - i \in 0..(n - i) /\ i + (j - i) = j
  BY <1>1 DEF n
<1>7. j - i \in T
  BY <1>5, <1>6
<1> QED BY <1>6, <1>7

\* Every line takes its length and the character that joins it.
LEMMA SizesAre ==
  ASSUME Written, NEW lines \in Seq(Nums)
  PROVE  /\ Sizes(lines) \in Seq(Nat) /\ Len(Sizes(lines)) = Len(lines)
         /\ \A i \in 1..Len(lines) : Sizes(lines)[i] = doc[lines[i]].size + 1
<1>1. Len(lines) \in Nat /\ DOMAIN lines = 1..Len(lines) /\ \A i \in 1..Len(lines) : lines[i] \in Nums
  BY LenProperties, ElementOfSeq
<1>2. Sizes(lines) \in [1..Len(lines) -> Nat]
  BY <1>1, SizeIs DEF Sizes
<1>3. Sizes(lines) \in Seq(Nat) /\ Len(Sizes(lines)) = Len(lines)
  BY <1>1, <1>2, LenProperties, SeqDef
<1> QED BY <1>1, <1>3 DEF Sizes

\* The places of lines, in order, from a to e.
Piece == [line : Nums, from : Int, to : Int]
PieceList(q, L, a, e) ==
  /\ q \in Seq(Piece)
  /\ \A i \in 1..Len(q) : /\ a <= q[i].from /\ q[i].to <= e /\ q[i].line \in L
                          /\ q[i].to = q[i].from + doc[q[i].line].size - 1
  /\ \A i, j \in 1..Len(q) : i < j => q[i].to < q[j].from /\ q[i].line # q[j].line
  /\ \A n \in L : \E i \in 1..Len(q) : q[i].line = n

Injective(list) == \A i, j \in 1..Len(list) : i < j => list[i] # list[j]
Members(list)   == {list[i] : i \in 1..Len(list)}

\* The lines of a block, placed one after the other, fill its text.
LEMMA PlacedIs ==
  ASSUME Written, NEW lines \in Seq(Nums), Injective(lines), NEW from \in Int
  PROVE  /\ PieceList(Placed(lines, from), Members(lines), from, from + Total(Sizes(lines)) - 2)
         /\ Len(Placed(lines, from)) = Len(lines)
<1> DEFINE n == Len(lines)
           T(i) == Upto(Sizes(lines), i)
           q == Placed(lines, from)
<1>1. n \in Nat /\ DOMAIN lines = 1..n /\ \A i \in 1..n : lines[i] \in Nums /\ doc[lines[i]].size \in Nat
  BY LenProperties, ElementOfSeq, SizeIs
<1>2. /\ Sizes(lines) \in Seq(Nat) /\ Len(Sizes(lines)) = n
      /\ \A i \in 1..n : Sizes(lines)[i] = doc[lines[i]].size + 1
  BY SizesAre
<1>3. /\ T(n) = Total(Sizes(lines)) /\ \A i \in 0..n : T(i) \in Nat
      /\ \A i \in 1..n : T(i) = T(i - 1) + doc[lines[i]].size + 1
  <2>1. /\ Upto(Sizes(lines), Len(Sizes(lines))) = Total(Sizes(lines))
        /\ \A i \in 0..Len(Sizes(lines)) : Upto(Sizes(lines), i) \in Nat
        /\ \A i \in 1..Len(Sizes(lines)) : Upto(Sizes(lines), i) = Upto(Sizes(lines), i - 1) + Sizes(lines)[i]
    BY <1>2, UptoIs
  <2>2. \A i \in 1..n : T(i) = T(i - 1) + Sizes(lines)[i]
    BY <1>2, <2>1
  <2>3. \A i \in 0..n : T(i) \in Nat
    BY <1>2, <2>1
  <2>4. T(n) = Total(Sizes(lines))
    BY <1>2, <2>1
  <2> HIDE DEF T
  <2>5. \A i \in 1..n : T(i) = T(i - 1) + doc[lines[i]].size + 1
    <3>1. ASSUME NEW i \in 1..n PROVE T(i) = T(i - 1) + doc[lines[i]].size + 1
      <4>1. i - 1 \in 0..n
        BY <1>1
      <4> HIDE DEF n
      <4>2. T(i - 1) \in Nat /\ doc[lines[i]].size \in Nat /\ T(i) = T(i - 1) + (doc[lines[i]].size + 1)
        BY <4>1, <1>1, <1>2, <2>2, <2>3
      <4> QED BY <4>2
    <3> QED BY <3>1
  <2> QED BY <2>3, <2>4, <2>5
<1>4. \A i \in 0..n : \A j \in i..n : T(i) <= T(j)
  BY <1>2, UptoGrows
<1> HIDE DEF T
<1>5. \A i \in 1..n : q[i] = [line |-> lines[i], from |-> from + T(i - 1),
                              to |-> from + T(i - 1) + doc[lines[i]].size - 1]
  BY <1>1 DEF Placed, T, Upto
<1>6. \A i \in 1..n : T(i - 1) \in Nat /\ T(i) \in Nat
  <2>1. \A i \in 1..n : i - 1 \in 0..n /\ i \in 0..n
    BY <1>1
  <2> QED BY <1>3, <2>1
<1>7. q \in Seq(Piece) /\ Len(q) = n
  <2>1. ASSUME NEW i \in 1..n PROVE q[i] \in Piece
    <3>1. lines[i] \in Nums /\ from + T(i - 1) \in Int /\ from + T(i - 1) + doc[lines[i]].size - 1 \in Int
      BY <1>1, <1>6
    <3>2. q[i] = [line |-> lines[i], from |-> from + T(i - 1),
                  to |-> from + T(i - 1) + doc[lines[i]].size - 1]
      BY <1>5
    <3> HIDE DEF q, n
    <3> QED BY <3>1, <3>2 DEF Piece
  <2>2. q = [i \in 1..n |-> q[i]]
    BY <1>1 DEF Placed
  <2> HIDE DEF q
  <2>3. q \in [1..n -> Piece]
    BY <2>1, <2>2
  <2> QED BY <1>1, <2>3, LenProperties, SeqDef
<1> HIDE DEF q, n
<1>8. ASSUME NEW i \in 1..n
      PROVE  /\ q[i].line = lines[i] /\ q[i].from = from + T(i - 1) /\ q[i].to = from + T(i) - 2
             /\ q[i].to = q[i].from + doc[lines[i]].size - 1
  <2>1. T(i) = T(i - 1) + doc[lines[i]].size + 1 /\ T(i - 1) \in Nat /\ doc[lines[i]].size \in Nat
    BY <1>1, <1>3, <1>6
  <2>2. /\ q[i].line = lines[i] /\ q[i].from = from + T(i - 1)
        /\ q[i].to = from + T(i - 1) + doc[lines[i]].size - 1
    <3>1. q[i] = [line |-> lines[i], from |-> from + T(i - 1),
                  to |-> from + T(i - 1) + doc[lines[i]].size - 1]
      BY <1>5
    <3> QED BY <3>1
  <2> QED BY <2>1, <2>2
<1>9. ASSUME NEW i \in 1..n
      PROVE  from <= q[i].from /\ q[i].to <= from + T(n) - 2 /\ q[i].line \in Members(lines)
  <2>1. i \in 0..n /\ n \in i..n /\ n \in 0..n
    BY <1>1
  <2>2. T(i) <= T(n) /\ T(i) \in Nat /\ T(n) \in Nat /\ T(i - 1) \in Nat
    BY <1>3, <1>4, <1>6, <2>1
  <2>3. from <= q[i].from /\ q[i].to <= from + T(n) - 2
    BY <1>8, <2>2
  <2> QED BY <1>8, <2>3 DEF Members, n
<1>10. ASSUME NEW i \in 1..n, NEW j \in 1..n, i < j
       PROVE  q[i].to < q[j].from /\ q[i].line # q[j].line
  <2>1. i \in 0..n /\ j - 1 \in i..n
    BY <1>1, <1>10
  <2>2. T(i) <= T(j - 1) /\ T(i) \in Nat /\ T(j - 1) \in Nat
    BY <1>4, <1>6, <2>1
  <2>3. q[i].to < q[j].from
    BY <1>8, <2>2
  <2>4. lines[i] # lines[j]
    BY <1>10 DEF Injective, n
  <2> QED BY <1>8, <2>3, <2>4
<1>11. \A m \in Members(lines) : \E i \in 1..n : q[i].line = m
  BY <1>8 DEF Members, n
<1>12. PieceList(q, Members(lines), from, from + T(n) - 2)
  BY <1>7, <1>8, <1>9, <1>10, <1>11 DEF PieceList
<1> QED BY <1>3, <1>7, <1>12 DEF q, n

\* Pieces followed by later ones of other lines are pieces again.
LEMMA PiecesJoin ==
  ASSUME NEW p, NEW q, NEW K, NEW L, NEW a \in Int, NEW b \in Int, NEW d \in Int, NEW e \in Int,
         PieceList(p, K, a, b), PieceList(q, L, d, e), b < d, a <= d, b <= e, K \cap L = {}
  PROVE  PieceList(p \o q, K \cup L, a, e)
<1> DEFINE m == Len(p)
           n == Len(q)
           r == p \o q
<1>1. p \in Seq(Piece) /\ q \in Seq(Piece) /\ m \in Nat /\ n \in Nat
  BY LenProperties DEF PieceList
<1>2. /\ r \in Seq(Piece) /\ Len(r) = m + n
      /\ \A i \in 1..(m + n) : r[i] = IF i <= m THEN p[i] ELSE q[i - m]
  BY <1>1, ConcatProperties
<1>3. \A i \in 1..(m + n) : \/ i \in 1..m /\ r[i] = p[i]
                            \/ i > m /\ i - m \in 1..n /\ r[i] = q[i - m]
  BY <1>1, <1>2
<1>4. /\ \A i \in 1..m : i \in 1..(m + n) /\ r[i] = p[i]
      /\ \A i \in 1..n : i + m \in 1..(m + n) /\ r[i + m] = q[i]
  BY <1>1, <1>2
<1>5. /\ \A i \in 1..m : p[i].from \in Int /\ p[i].to \in Int
      /\ \A i \in 1..n : q[i].from \in Int /\ q[i].to \in Int
  <2>1. (\A i \in 1..m : p[i] \in Piece) /\ \A i \in 1..n : q[i] \in Piece
    BY <1>1, ElementOfSeq
  <2> HIDE DEF m, n
  <2> QED BY <2>1 DEF Piece
<1>6. /\ \A i \in 1..m : /\ a <= p[i].from /\ p[i].to <= b /\ p[i].line \in K
                         /\ p[i].to = p[i].from + doc[p[i].line].size - 1
      /\ \A i \in 1..n : /\ d <= q[i].from /\ q[i].to <= e /\ q[i].line \in L
                         /\ q[i].to = q[i].from + doc[q[i].line].size - 1
      /\ \A i, j \in 1..m : i < j => p[i].to < p[j].from /\ p[i].line # p[j].line
      /\ \A i, j \in 1..n : i < j => q[i].to < q[j].from /\ q[i].line # q[j].line
      /\ \A x \in K : \E i \in 1..m : p[i].line = x
      /\ \A x \in L : \E i \in 1..n : q[i].line = x
  BY DEF PieceList
<1> HIDE DEF r, m, n
<1>7. ASSUME NEW i \in 1..(m + n)
      PROVE  /\ a <= r[i].from /\ r[i].to <= e /\ r[i].line \in K \cup L
             /\ r[i].to = r[i].from + doc[r[i].line].size - 1
  <2>1. CASE i \in 1..m /\ r[i] = p[i]
    <3>1. p[i].to <= b /\ p[i].to \in Int
      BY <2>1, <1>5, <1>6
    <3>2. p[i].to <= e
      BY <3>1
    <3> QED BY <2>1, <1>6, <3>2
  <2>2. CASE i - m \in 1..n /\ r[i] = q[i - m]
    <3>1. d <= q[i - m].from /\ q[i - m].from \in Int
      BY <2>2, <1>5, <1>6
    <3>2. a <= q[i - m].from
      BY <3>1
    <3> QED BY <2>2, <1>6, <3>2
  <2> QED BY <2>1, <2>2, <1>3
<1>8. ASSUME NEW i \in 1..(m + n), NEW j \in 1..(m + n), i < j
      PROVE  r[i].to < r[j].from /\ r[i].line # r[j].line
  <2>1. CASE j \in 1..m /\ r[j] = p[j]
    <3>1. i \in 1..m
      BY <1>1, <1>8, <2>1
    <3>2. r[i] = p[i]
      BY <1>4, <3>1
    <3> QED BY <1>6, <1>8, <2>1, <3>1, <3>2
  <2>2. CASE j - m \in 1..n /\ r[j] = q[j - m]
    <3>1. CASE i \in 1..m /\ r[i] = p[i]
      <4>1. p[i].to <= b /\ d <= q[j - m].from /\ p[i].to \in Int /\ q[j - m].from \in Int
        BY <2>2, <3>1, <1>5, <1>6
      <4>2. p[i].line \in K /\ q[j - m].line \in L
        BY <2>2, <3>1, <1>6
      <4>3. p[i].to < q[j - m].from
        BY <4>1
      <4> QED BY <2>2, <3>1, <4>2, <4>3
    <3>2. CASE i - m \in 1..n /\ r[i] = q[i - m]
      <4>1. i - m < j - m
        BY <1>1, <1>8
      <4> QED BY <1>6, <2>2, <3>2, <4>1
    <3> QED BY <3>1, <3>2, <1>3
  <2> QED BY <2>1, <2>2, <1>3
<1>9. ASSUME NEW x \in K \cup L PROVE \E i \in 1..(m + n) : r[i].line = x
  <2>1. CASE x \in K
    BY <2>1, <1>4, <1>6
  <2>2. CASE x \in L
    <3>1. PICK i \in 1..n : q[i].line = x
      BY <2>2, <1>6
    <3>2. i + m \in 1..(m + n) /\ r[i + m].line = x
      BY <3>1, <1>4
    <3> QED BY <3>2
  <2> QED BY <2>1, <2>2
<1> QED BY <1>2, <1>7, <1>8, <1>9 DEF PieceList, r, m, n

\* What the parser leaves: blocks of lines of their own.
Blocks     == 1..Len(parsed)
LinesOf(b) == Members(parsed[b].lines)
BlockSize(b) == Total(Sizes(parsed[b].lines))
Laid ==
  /\ \A b \in Blocks : /\ parsed[b].lines \in Seq(Nums) /\ Len(parsed[b].lines) > 0
                       /\ Injective(parsed[b].lines)
  /\ \A b, c \in Blocks : b # c => LinesOf(b) \cap LinesOf(c) = {}

\* Every block takes its length and what joins it.
LEMMA LengthsAre ==
  ASSUME Written, Laid, NEW bs \in Seq(Blocks)
  PROVE  /\ Lengths(bs) \in Seq(Nat) /\ Len(Lengths(bs)) = Len(bs)
         /\ \A i \in 1..Len(bs) : BlockSize(bs[i]) \in Nat /\ Lengths(bs)[i] = BlockSize(bs[i]) + 1
<1>1. Len(bs) \in Nat /\ DOMAIN bs = 1..Len(bs) /\ \A i \in 1..Len(bs) : bs[i] \in Blocks
  BY LenProperties, ElementOfSeq
<1>2. \A b \in Blocks : BlockSize(b) \in Nat
  BY SizesAre, TotalIs DEF Laid, BlockSize
<1>3. Lengths(bs) = [i \in 1..Len(bs) |-> BlockSize(bs[i]) + 1]
  BY <1>1 DEF Lengths, BlockSize
<1> HIDE DEF Blocks
<1>4. Lengths(bs) \in [1..Len(bs) -> Nat]
  BY <1>1, <1>2, <1>3
<1>5. Lengths(bs) \in Seq(Nat) /\ Len(Lengths(bs)) = Len(bs)
  BY <1>1, <1>4, LenProperties, SeqDef
<1> QED BY <1>1, <1>2, <1>3, <1>5

LinesUpto(bs, k) == UNION {LinesOf(bs[i]) : i \in 1..k}

\* The pieces of blocks are their lines, from the start of their text to its end.
LEMMA PiecesAre ==
  ASSUME Written, Laid, NEW bs \in Seq(Blocks), Injective(bs), bs # <<>>
  PROVE  PieceList(Pieces(bs), LinesUpto(bs, Len(bs)), 1, TextLength(bs))
<1> DEFINE n == Len(bs)
           U(i) == Upto(Lengths(bs), i)
           made == [i \in DOMAIN bs |-> Placed(parsed[bs[i]].lines, 1 + Total(SubSeq(Lengths(bs), 1, i - 1)))]
<1>1. n \in Nat /\ DOMAIN bs = 1..n /\ \A i \in 1..n : bs[i] \in Blocks
  BY LenProperties, ElementOfSeq
<1>2. /\ Lengths(bs) \in Seq(Nat) /\ Len(Lengths(bs)) = n
      /\ \A i \in 1..n : BlockSize(bs[i]) \in Nat /\ Lengths(bs)[i] = BlockSize(bs[i]) + 1
  BY LengthsAre
<1>3. /\ U(0) = 0 /\ U(n) = Total(Lengths(bs)) /\ \A i \in 0..n : U(i) \in Nat
      /\ \A i \in 1..n : U(i) = U(i - 1) + Lengths(bs)[i]
  BY <1>2, UptoIs
<1> HIDE DEF U, n
<1>4. ASSUME NEW i \in 1..n
      PROVE  /\ made[i] \in Seq(Piece)
             /\ PieceList(made[i], LinesOf(bs[i]), 1 + U(i - 1), U(i) - 2)
  <2> DEFINE lines == parsed[bs[i]].lines
             from  == 1 + U(i - 1)
  <2>1. lines \in Seq(Nums) /\ Injective(lines)
    BY <1>1 DEF Laid
  <2>2. i - 1 \in 0..n /\ U(i - 1) \in Nat
    BY <1>1, <1>3
  <2>3. from \in Int /\ from + BlockSize(bs[i]) - 2 = U(i) - 2
    BY <1>2, <1>3, <2>2
  <2>4. made[i] = Placed(lines, from)
    BY <1>1 DEF U, Upto
  <2>5. LinesOf(bs[i]) = Members(lines) /\ BlockSize(bs[i]) = Total(Sizes(lines))
    BY DEF LinesOf, BlockSize
  <2> HIDE DEF lines, from, made
  <2>6. PieceList(Placed(lines, from), Members(lines), from, from + Total(Sizes(lines)) - 2)
    BY <2>1, <2>3, PlacedIs
  <2>7. PieceList(made[i], LinesOf(bs[i]), from, U(i) - 2)
    BY <2>3, <2>4, <2>5, <2>6
  <2> QED BY <2>7 DEF from, PieceList
<1>5. made \in Seq(Seq(Piece)) /\ Len(made) = n
  <2>1. made = [i \in 1..n |-> made[i]]
    BY <1>1
  <2> HIDE DEF made
  <2>2. made \in [1..n -> Seq(Piece)]
    BY <1>4, <2>1
  <2> QED BY <1>1, <2>2, LenProperties, SeqDef
<1>6. Pieces(bs) = Joined(made)
  BY DEF Pieces
<1> HIDE DEF made
<1>7. PICK f : JoinsAs(f, made, Piece) /\ Pieces(bs) = f[n]
  BY <1>5, <1>6, JoinedRuns
<1> DEFINE T == {k \in 0..n : PieceList(f[k], LinesUpto(bs, k), 1, U(k) - 2)}
<1>8. 0 \in T
  <2>1. f[0] = <<>> /\ LinesUpto(bs, 0) = {} /\ 0 \in 0..n
    BY <1>1, <1>7 DEF JoinsAs, LinesUpto
  <2>2. <<>> \in Seq(Piece) /\ Len(<<>>) = 0 /\ 1..0 = {}
    BY EmptySeq
  <2>3. PieceList(<<>>, {}, 1, U(0) - 2)
    BY <2>2 DEF PieceList
  <2> QED BY <2>1, <2>3
<1>9. ASSUME NEW k \in 1..n, k - 1 \in T PROVE k \in T
  <2>1. k \in 0..n /\ k - 1 \in 0..n /\ U(k - 1) \in Nat /\ U(k) \in Nat /\ U(k - 1) <= U(k)
    <3>1. k \in 0..n /\ k - 1 \in 0..n
      BY <1>1
    <3>2. U(k - 1) \in Nat /\ U(k) \in Nat /\ Lengths(bs)[k] \in Nat /\ U(k) = U(k - 1) + Lengths(bs)[k]
      BY <1>2, <1>3, <3>1
    <3> QED BY <3>1, <3>2
  <2>2. f[k] = f[k - 1] \o made[k]
    BY <1>5, <1>7 DEF JoinsAs
  <2>3. PieceList(f[k - 1], LinesUpto(bs, k - 1), 1, U(k - 1) - 2)
    BY <1>9
  <2>4. LinesUpto(bs, k - 1) \cap LinesOf(bs[k]) = {}
    <3>1. ASSUME NEW i \in 1..(k - 1) PROVE LinesOf(bs[i]) \cap LinesOf(bs[k]) = {}
      <4>1. i \in 1..n /\ i < k
        BY <1>1
      <4>2. bs[i] # bs[k]
        BY <4>1 DEF Injective, n
      <4> QED BY <1>1, <4>1, <4>2 DEF Laid
    <3> QED BY <3>1 DEF LinesUpto
  <2>5. LinesUpto(bs, k) = LinesUpto(bs, k - 1) \cup LinesOf(bs[k])
    <3>1. \A i : i \in 1..k <=> i = k \/ i \in 1..(k - 1)
      BY <1>1
    <3> QED BY <3>1 DEF LinesUpto
  <2>6. PieceList(f[k - 1] \o made[k], LinesUpto(bs, k - 1) \cup LinesOf(bs[k]), 1, U(k) - 2)
    <3> DEFINE p == f[k - 1]
               q == made[k]
               K == LinesUpto(bs, k - 1)
               L == LinesOf(bs[k])
               b == U(k - 1) - 2
               d == 1 + U(k - 1)
               e == U(k) - 2
    <3>1. b \in Int /\ d \in Int /\ e \in Int /\ 1 \in Int /\ b < d /\ 1 <= d /\ b <= e
      BY <2>1
    <3>2. PieceList(p, K, 1, b) /\ PieceList(q, L, d, e) /\ K \cap L = {}
      BY <1>4, <2>3, <2>4
    <3> HIDE DEF p, q, K, L, b, d, e
    <3>3. PieceList(p \o q, K \cup L, 1, e)
      BY <3>1, <3>2, PiecesJoin
    <3> QED BY <3>3 DEF p, q, K, L, e
  <2> QED BY <2>1, <2>2, <2>5, <2>6
<1>10. n \in T
  <2>1. 0..n \subseteq T
    <3> HIDE DEF T
    <3> QED BY <1>1, <1>8, <1>9, Inductive
  <2> QED BY <1>1, <2>1
<1>11. TextLength(bs) = U(n) - 2
  BY <1>3 DEF TextLength
<1> QED BY <1>7, <1>10, <1>11 DEF n

\* What a text grows by when a block is joined to it.
LEMMA TextLengthIs ==
  ASSUME Written, Laid
  PROVE  /\ \A b \in Blocks : TextLength(<<b>>) = BlockSize(b) - 1 /\ BlockSize(b) \in Nat
         /\ \A bs \in Seq(Blocks) : TextLength(bs) \in Int
         /\ \A bs \in Seq(Blocks), b \in Blocks : bs # <<>> =>
              TextLength(Append(bs, b)) = TextLength(bs) + TextLength(<<b>>) + 2
<1> HIDE DEF Blocks
<1>1. ASSUME NEW bs \in Seq(Blocks), NEW b \in Blocks
      PROVE  /\ Total(Lengths(bs)) \in Nat /\ BlockSize(b) \in Nat
             /\ Total(Lengths(Append(bs, b))) = Total(Lengths(bs)) + BlockSize(b) + 1
  <2> DEFINE n == Len(bs)
             c == Append(bs, b)
  <2>1. c \in Seq(Blocks) /\ n \in Nat /\ Len(c) = n + 1 /\ c[n + 1] = b /\ \A i \in 1..n : c[i] = bs[i]
    BY AppendProperties, LenProperties
  <2>2. /\ Lengths(bs) \in Seq(Nat) /\ Len(Lengths(bs)) = n
        /\ \A i \in 1..n : BlockSize(bs[i]) \in Nat /\ Lengths(bs)[i] = BlockSize(bs[i]) + 1
    BY LengthsAre
  <2>3. /\ Lengths(c) \in Seq(Nat) /\ Len(Lengths(c)) = Len(c)
        /\ \A i \in 1..Len(c) : BlockSize(c[i]) \in Nat /\ Lengths(c)[i] = BlockSize(c[i]) + 1
    BY <2>1, LengthsAre
  <2> HIDE DEF c, n
  <2>4. BlockSize(b) \in Nat
    <3>1. n + 1 \in 1..(n + 1)
      BY <2>1
    <3> QED BY <2>1, <2>3, <3>1
  <2> DEFINE x == BlockSize(b) + 1
             u == Lengths(bs)
             v == Lengths(c)
  <2>5. /\ Append(u, x) \in Seq(Nat) /\ Len(Append(u, x)) = n + 1
        /\ \A i \in 1..n : Append(u, x)[i] = u[i]
        /\ Append(u, x)[n + 1] = x
    <3>1. x \in Nat
      BY <2>4
    <3> HIDE DEF x
    <3> QED BY <2>2, <3>1, AppendProperties
  <2>6. \A i \in 1..(n + 1) : v[i] = Append(u, x)[i]
    <3>1. ASSUME NEW i \in 1..(n + 1) PROVE v[i] = Append(u, x)[i]
      <4>1. i = n + 1 \/ i \in 1..n
        BY <2>1
      <4>2. v[i] = BlockSize(c[i]) + 1
        BY <2>1, <2>3
      <4> HIDE DEF v
      <4> QED BY <2>1, <2>2, <2>5, <4>1, <4>2
    <3> QED BY <3>1
  <2>7. v = Append(u, x)
    <3> HIDE DEF u, v, x
    <3> QED BY <2>1, <2>3, <2>5, <2>6, SeqEqual DEF v
  <2>8. x \in Nat /\ u \in Seq(Nat)
    BY <2>2, <2>4
  <2>9. Total(u) \in Nat /\ Total(Append(u, x)) = Total(u) + x
    <3> HIDE DEF u, x
    <3> QED BY <2>8, TotalIs
  <2> QED BY <2>4, <2>7, <2>9 DEF c
<1>2. <<>> \in Seq(Blocks) /\ Len(<<>>) = 0 /\ \A b \in Blocks : <<b>> \in Seq(Blocks) /\ <<b>> # <<>> /\ Append(<<>>, b) = <<b>>
  BY EmptySeq
<1>3. Total(Lengths(<<>>)) = 0
  BY <1>2, TotalIs DEF Lengths
<1>4. ASSUME NEW b \in Blocks PROVE TextLength(<<b>>) = BlockSize(b) - 1 /\ BlockSize(b) \in Nat
  <2>1. Total(Lengths(<<b>>)) = Total(Lengths(<<>>)) + BlockSize(b) + 1 /\ BlockSize(b) \in Nat
    BY <1>1, <1>2
  <2>2. TextLength(<<b>>) = Total(Lengths(<<b>>)) - 2
    BY <1>2 DEF TextLength
  <2> QED BY <1>3, <2>1, <2>2
<1>5. ASSUME NEW bs \in Seq(Blocks), bs # <<>>, NEW b \in Blocks
      PROVE  TextLength(Append(bs, b)) = TextLength(bs) + TextLength(<<b>>) + 2
  <2>1. Append(bs, b) # <<>>
    BY <1>2, AppendProperties, LenProperties
  <2>2. TextLength(bs) = Total(Lengths(bs)) - 2 /\ TextLength(Append(bs, b)) = Total(Lengths(Append(bs, b))) - 2
    BY <1>5, <2>1 DEF TextLength
  <2>3. /\ Total(Lengths(bs)) \in Nat /\ BlockSize(b) \in Nat
        /\ Total(Lengths(Append(bs, b))) = Total(Lengths(bs)) + BlockSize(b) + 1
    BY <1>1
  <2>4. TextLength(<<b>>) = BlockSize(b) - 1
    BY <1>4
  <2> QED BY <2>2, <2>3, <2>4
<1>6. ASSUME NEW bs \in Seq(Blocks) PROVE TextLength(bs) \in Int
  <2>1. CASE Blocks = {}
    <3>1. bs = <<>>
      BY <2>1, LenProperties, ElementOfSeq, EmptySeq
    <3> QED BY <3>1 DEF TextLength
  <2>2. CASE Blocks # {}
    <3>1. Total(Lengths(bs)) \in Nat
      BY <1>1, <2>2
    <3> QED BY <3>1 DEF TextLength
  <2> QED BY <2>1, <2>2
<1> QED BY <1>4, <1>5, <1>6

\* A finite set of numbers that is not empty has a least one.
LEMMA LeastIs ==
  ASSUME NEW S, S \subseteq Int, S # {}, IsFiniteSet(S)
  PROVE  \E x \in S : \A y \in S : x <= y
<1> DEFINE c == Cardinality(S)
<1>1. /\ c \in Nat
      /\ \A n \in 1..c : Nth(S, n) \in S
      /\ \A m, n \in 1..c : m < n => Nth(S, m) < Nth(S, n)
      /\ \A i \in S : \E n \in 1..c : Nth(S, n) = i
  BY NthIs
<1>2. 1 \in 1..c
  <2>1. c # 0
    BY FS_EmptySet
  <2> QED BY <2>1, <1>1
<1> HIDE DEF c
<1>3. ASSUME NEW y \in S PROVE Nth(S, 1) <= y
  <2>1. PICK n \in 1..c : Nth(S, n) = y
    BY <1>1
  <2>2. n = 1 \/ 1 < n
    BY <1>1
  <2>3. Nth(S, 1) = y \/ Nth(S, 1) < y
    BY <1>1, <1>2, <2>1, <2>2
  <2>4. Nth(S, 1) \in Int /\ y \in Int
    BY <1>1, <1>2
  <2> QED BY <2>3, <2>4
<1> QED BY <1>1, <1>2, <1>3

-----------------------------------------------------------------------------
(* Cutting a text.  Its pieces are in order and none of them is empty;     *)
(* Covers and Stands say that a place is in one of them, or in none.       *)
Dense(q) ==
  /\ q \in Seq(Piece) /\ Len(q) > 0
  /\ \A i \in 1..Len(q) : q[i].from <= q[i].to
  /\ \A i, j \in 1..Len(q) : i < j => q[i].to < q[j].from
Covers(r, y) == r.from <= y /\ y <= r.to
Stands(q, y) == \E i \in 1..Len(q) : Covers(q[i], y)

\* Ranges one after the other that leave nothing out from d to e.
Span == [from : Int, to : Int, size : Int]
SpanList(P, q, d, e) ==
  /\ P \in Seq(Span)
  /\ \A i \in 1..Len(P) : d <= P[i].from /\ P[i].from <= P[i].to /\ P[i].to <= e
  /\ \A i, j \in 1..Len(P) : i < j => P[i].to < P[j].from
  /\ \A y \in d..e : Stands(q, y) => \E i \in 1..Len(P) : Covers(P[i], y)

\* What Dense says, at each position.
LEMMA DenseIs ==
  ASSUME NEW q, Dense(q)
  PROVE  /\ Len(q) \in Nat \ {0} /\ DOMAIN q = 1..Len(q)
         /\ \A i \in 1..Len(q) : q[i].from \in Int /\ q[i].to \in Int /\ q[i].from <= q[i].to
         /\ \A i, j \in 1..Len(q) : i <= j => q[i].from <= q[j].to
<1>1. Len(q) \in Nat \ {0} /\ DOMAIN q = 1..Len(q)
  BY LenProperties DEF Dense
<1>2. \A i \in 1..Len(q) : q[i] \in Piece
  BY ElementOfSeq DEF Dense
<1>3. \A i \in 1..Len(q) : q[i].from \in Int /\ q[i].to \in Int /\ q[i].from <= q[i].to
  BY <1>2 DEF Dense, Piece
<1>4. ASSUME NEW i \in 1..Len(q), NEW j \in 1..Len(q), i <= j PROVE q[i].from <= q[j].to
  <2>1. CASE i = j
    BY <1>3, <2>1
  <2>2. CASE i < j
    <3>1. q[i].to < q[j].from
      BY <2>2 DEF Dense
    <3>2. /\ q[i].from \in Int /\ q[i].to \in Int /\ q[i].from <= q[i].to
          /\ q[j].from \in Int /\ q[j].to \in Int /\ q[j].from <= q[j].to
      BY <1>3
    <3> QED BY <3>1, <3>2
  <2> QED BY <1>4, <2>1, <2>2
<1> QED BY <1>1, <1>3, <1>4

\* The sentences of a text are spans that leave out nothing but what is between pieces.
LEMMA SentencesAre ==
  ASSUME NEW q, Dense(q)
  PROVE  LET S == Sentences(q) IN
         /\ SpanList(S, q, q[1].from, q[Len(q)].to)
         /\ Len(S) \in Nat \ {0}
         /\ \A n \in 1..Len(S) : S[n].size = S[n].to - S[n].from + 1 /\ Stands(q, S[n].from)
<1> DEFINE m == Len(q)
           E == {i \in DOMAIN q : i = Len(q) \/ doc[q[i].line].ends}
           c == Cardinality(E)
           F(n) == IF n = 1 THEN 1 ELSE Nth(E, n - 1) + 1
           S == Sentences(q)
<1>1. /\ m \in Nat \ {0} /\ DOMAIN q = 1..m
      /\ \A i \in 1..m : q[i].from \in Int /\ q[i].to \in Int /\ q[i].from <= q[i].to
      /\ \A i, j \in 1..m : i <= j => q[i].from <= q[j].to
  BY DenseIs
<1>2. S = [n \in 1..c |-> Part(q[F(n)].from, q[Nth(E, n)].to)]
  BY DEF Sentences
<1>3. E \in SUBSET (1..m) /\ m \in E
  BY <1>1
<1> HIDE DEF E
<1>4. IsFiniteSet(E) /\ E \subseteq Int
  <2>1. IsFiniteSet(1..m)
    BY <1>1, Interval
  <2>2. E \subseteq Int
    BY <1>1, <1>3
  <2> QED BY <1>3, <2>1, <2>2, FS_Subset
<1>5. /\ c \in Nat
      /\ \A n \in 1..c : Nth(E, n) \in E
      /\ \A i, n \in 1..c : i < n => Nth(E, i) < Nth(E, n)
      /\ \A i \in E : \E n \in 1..c : Nth(E, n) = i
  BY <1>4, NthIs
<1> HIDE DEF c, m
<1>6. c \in Nat \ {0}
  <2>1. PICK n \in 1..c : Nth(E, n) = m
    BY <1>3, <1>5
  <2> QED BY <1>5, <2>1
<1>7. \A n \in 1..c : Nth(E, n) \in 1..m
  BY <1>3, <1>5
<1>8. ASSUME NEW n \in 1..c PROVE F(n) \in 1..Nth(E, n)
  <2>1. CASE n = 1
    BY <1>7, <2>1, <1>1
  <2>2. CASE n # 1
    <3>1. n - 1 \in 1..c /\ n - 1 < n
      BY <2>2, <1>6
    <3>2. Nth(E, n - 1) \in 1..m /\ Nth(E, n) \in 1..m /\ Nth(E, n - 1) < Nth(E, n)
      BY <1>5, <1>7, <3>1
    <3> QED BY <2>2, <3>2, <1>1
  <2> QED BY <2>1, <2>2
<1>9. ASSUME NEW i \in 1..c, NEW j \in 1..c, i < j PROVE Nth(E, i) < F(j)
  <2>1. j # 1 /\ j - 1 \in 1..c /\ (i = j - 1 \/ i < j - 1)
    BY <1>6, <1>9
  <2>2. Nth(E, i) = Nth(E, j - 1) \/ Nth(E, i) < Nth(E, j - 1)
    BY <1>5, <2>1
  <2>3. Nth(E, i) \in 1..m /\ Nth(E, j - 1) \in 1..m
    BY <1>7, <2>1
  <2> QED BY <1>1, <2>1, <2>2, <2>3
<1> HIDE DEF F
<1>10. ASSUME NEW n \in 1..c
       PROVE  /\ F(n) \in 1..m /\ Nth(E, n) \in 1..m /\ F(n) <= Nth(E, n)
              /\ S[n].from = q[F(n)].from /\ S[n].to = q[Nth(E, n)].to
              /\ S[n].size = S[n].to - S[n].from + 1 /\ S[n] \in Span
  <2>1. F(n) \in 1..m /\ Nth(E, n) \in 1..m /\ F(n) <= Nth(E, n)
    BY <1>1, <1>7, <1>8
  <2>2. q[F(n)].from \in Int /\ q[Nth(E, n)].to \in Int
    BY <1>1, <2>1
  <2>3. S[n] = [from |-> q[F(n)].from, to |-> q[Nth(E, n)].to, size |-> q[Nth(E, n)].to - q[F(n)].from + 1]
    BY <1>2 DEF Part
  <2> HIDE DEF S
  <2> QED BY <2>1, <2>2, <2>3 DEF Span
<1>11. S \in Seq(Span) /\ Len(S) = c
  <2>1. S = [n \in 1..c |-> S[n]]
    BY <1>2
  <2> HIDE DEF S
  <2>2. S \in [1..c -> Span]
    BY <1>10, <2>1
  <2> QED BY <1>5, <2>2, LenProperties, SeqDef
<1> HIDE DEF S
<1>12. 1 \in 1..m /\ m \in 1..m
  BY <1>1
<1>13. ASSUME NEW n \in 1..c
       PROVE  q[1].from <= S[n].from /\ S[n].from <= S[n].to /\ S[n].to <= q[m].to /\ Stands(q, S[n].from)
  <2> DEFINE f == F(n)
             t == Nth(E, n)
  <2>1. f \in 1..m /\ t \in 1..m /\ f <= t /\ S[n].from = q[f].from /\ S[n].to = q[t].to
    BY <1>10
  <2> HIDE DEF f, t
  <2>2. \A i, j \in 1..m : i < j => q[i].to < q[j].from
    BY DEF Dense, m
  <2>3. q[1].from <= q[f].from
    <3>1. f = 1 \/ 1 < f
      BY <2>1, <1>1
    <3>2. CASE f = 1
      BY <3>2, <1>1, <1>12
    <3>3. CASE 1 < f
      <4>1. q[1].to < q[f].from /\ q[1].from <= q[1].to /\ q[1].to \in Int /\ q[f].from \in Int /\ q[1].from \in Int
        BY <3>3, <1>1, <1>12, <2>1, <2>2
      <4> QED BY <4>1
    <3> QED BY <3>1, <3>2, <3>3
  <2>4. q[t].to <= q[m].to
    <3>1. t = m \/ t < m
      BY <2>1, <1>1
    <3>2. CASE t = m
      BY <3>2, <1>1, <1>12
    <3>3. CASE t < m
      <4>1. q[t].to < q[m].from /\ q[m].from <= q[m].to /\ q[t].to \in Int /\ q[m].from \in Int /\ q[m].to \in Int
        BY <3>3, <1>1, <1>12, <2>1, <2>2
      <4> QED BY <4>1
    <3> QED BY <3>1, <3>2, <3>3
  <2>5. q[f].from <= q[t].to
    BY <1>1, <2>1
  <2>6. Stands(q, q[f].from)
    <3>1. q[f].from <= q[f].from /\ q[f].from <= q[f].to
      BY <1>1, <2>1
    <3> QED BY <2>1, <3>1 DEF Stands, Covers, m
  <2> QED BY <2>1, <2>3, <2>4, <2>5, <2>6
<1>14. ASSUME NEW i \in 1..c, NEW j \in 1..c, i < j PROVE S[i].to < S[j].from
  <2>1. Nth(E, i) < F(j)
    BY <1>9, <1>14
  <2>2. q[Nth(E, i)].to < q[F(j)].from
    BY <2>1, <1>10 DEF Dense, m
  <2> QED BY <1>10, <2>2
<1>15. ASSUME NEW y \in Int, Stands(q, y) PROVE \E n \in 1..c : Covers(S[n], y)
  <2>1. PICK i \in 1..m : q[i].from <= y /\ y <= q[i].to
    BY <1>15 DEF Stands, Covers, m
  <2> DEFINE R == {n \in 1..c : i <= Nth(E, n)}
  <2>2. R # {} /\ R \subseteq Int /\ IsFiniteSet(R)
    <3>1. PICK n \in 1..c : Nth(E, n) = m
      BY <1>3, <1>5
    <3>2. n \in R
      BY <1>1, <3>1
    <3>3. IsFiniteSet(1..c)
      BY <1>5, Interval
    <3>4. R \in SUBSET (1..c)
      OBVIOUS
    <3> QED BY <1>5, <3>2, <3>3, <3>4, FS_Subset
  <2>3. PICK n \in R : \A k \in R : n <= k
    <3> HIDE DEF R
    <3> QED BY <2>2, LeastIs
  <2>4. n \in 1..c /\ i <= Nth(E, n)
    OBVIOUS
  <2>5. F(n) <= i
    <3>1. CASE n = 1
      BY <3>1, <1>1 DEF F
    <3>2. CASE n # 1
      <4>1. n - 1 \in 1..c /\ ~(n <= n - 1)
        BY <2>4, <3>2, <1>6
      <4>2. ~(i <= Nth(E, n - 1))
        BY <2>3, <4>1
      <4>3. Nth(E, n - 1) \in Int /\ i \in Int
        BY <1>1, <1>7, <2>1, <4>1
      <4>4. Nth(E, n - 1) + 1 <= i
        BY <4>2, <4>3
      <4> QED BY <3>2, <4>4 DEF F
    <3> QED BY <3>1, <3>2
  <2> DEFINE f == F(n)
             t == Nth(E, n)
  <2>6. f \in 1..m /\ t \in 1..m /\ f <= i /\ i <= t /\ S[n].from = q[f].from /\ S[n].to = q[t].to
    BY <1>10, <2>4, <2>5
  <2> HIDE DEF f, t
  <2>7. \A a, b \in 1..m : a < b => q[a].to < q[b].from
    BY DEF Dense, m
  <2>8. q[f].from <= y
    <3>1. CASE f = i
      BY <2>1, <3>1
    <3>2. CASE f < i
      <4>1. q[f].to < q[i].from /\ q[f].from <= q[f].to /\ q[f].to \in Int /\ q[f].from \in Int /\ q[i].from \in Int
        BY <1>1, <2>1, <2>6, <2>7, <3>2
      <4> QED BY <2>1, <4>1
    <3> QED BY <1>1, <2>1, <2>6, <3>1, <3>2
  <2>9. y <= q[t].to
    <3>1. CASE i = t
      BY <2>1, <3>1
    <3>2. CASE i < t
      <4>1. q[i].to < q[t].from /\ q[t].from <= q[t].to /\ q[t].to \in Int /\ q[t].from \in Int /\ q[i].to \in Int
        BY <1>1, <2>1, <2>6, <2>7, <3>2
      <4> QED BY <2>1, <4>1
    <3> QED BY <1>1, <2>1, <2>6, <3>1, <3>2
  <2> QED BY <2>4, <2>6, <2>8, <2>9 DEF Covers
<1>16. SpanList(S, q, q[1].from, q[m].to)
  <2>1. \A y \in q[1].from..q[m].to : y \in Int
    BY <1>1, <1>12
  <2> QED BY <1>11, <1>13, <1>14, <1>15, <2>1 DEF SpanList
<1> QED BY <1>6, <1>10, <1>11, <1>13, <1>16 DEF S, m

\* Stripping a window loses no character of a piece.
LEMMA StrippedIs ==
  ASSUME NEW q, Dense(q), NEW w \in Span, Printed(w, q) # {}
  PROVE  LET r == Stripped(w, q) IN
         /\ r \in Span /\ w.from <= r.from /\ r.from <= r.to /\ r.to <= w.to
         /\ r.size = r.to - r.from + 1
         /\ \A y \in w.from..w.to : Stands(q, y) => Covers(r, y)
<1> DEFINE K == Printed(w, q)
           a == CHOOSE x \in K : \A y \in K : x <= y
           b == Largest(K)
<1>1. w.from \in Int /\ w.to \in Int
  BY DEF Span
<1>2. K = {x \in w.from..w.to : Stands(q, x)}
  BY DenseIs DEF Printed, Stands, Covers
<1>3. K \in SUBSET (w.from..w.to) /\ K \subseteq Int /\ K # {}
  BY <1>1, <1>2
<1>4. Stripped(w, q) = [from |-> a, to |-> b, size |-> b - a + 1]
  BY DEF Stripped, Part
<1> HIDE DEF K
<1>5. IsFiniteSet(K)
  <2>1. IsFiniteSet(w.from..w.to)
    BY <1>1, FS_Interval
  <2> QED BY <1>3, <2>1, FS_Subset
<1>6. \E x \in K : \A y \in K : x <= y
  BY <1>3, <1>5, LeastIs
<1>7. a \in K /\ \A y \in K : a <= y
  BY <1>6
<1>8. b \in K /\ \A y \in K : y <= b
  BY <1>3, <1>5, LargestIs
<1> HIDE DEF a, b
<1>9. a \in Int /\ b \in Int /\ w.from <= a /\ a <= b /\ b <= w.to
  BY <1>1, <1>3, <1>7, <1>8
<1>10. \A y \in w.from..w.to : Stands(q, y) => a <= y /\ y <= b
  BY <1>2, <1>7, <1>8
<1> QED BY <1>4, <1>9, <1>10 DEF Span, Covers

\* Windows of M characters cover a span, and none is longer than M.
LEMMA CutsAre ==
  ASSUME NEW from \in Int, NEW size \in Nat \ {0}, NEW M \in Nat \ {0}
  PROVE  LET N    == (size + M - 1) \div M
             A(k) == from + (k - 1) * M
             B(k) == from + k * M - 1
         IN /\ N \in Nat \ {0}
            /\ \A k \in 1..N : /\ A(k) \in Int /\ B(k) \in Int /\ from <= A(k) /\ A(k) <= B(k)
                               /\ A(k) <= from + size - 1 /\ B(k) = A(k) + M - 1
            /\ \A i, j \in 1..N : i < j => B(i) < A(j)
            /\ \A y \in from..(from + size - 1) : \E k \in 1..N : A(k) <= y /\ y <= B(k)
<1> DEFINE N    == (size + M - 1) \div M
           A(k) == from + (k - 1) * M
           B(k) == from + k * M - 1
<1>1. /\ N \in Nat /\ N * M \in Nat /\ size <= N * M /\ N * M <= size + M - 1
  <2> DEFINE h == size + M - 1
             r == h % M
  <2>1. h \in Nat /\ M \in Nat \ {0}
    OBVIOUS
  <2>2. N = h \div M
    OBVIOUS
  <2> HIDE DEF h, N
  <2>3. N \in Nat /\ r \in 0..(M - 1) /\ h = M * N + r
    BY <2>1, <2>2
  <2> HIDE DEF r
  <2>4. N * M \in Nat /\ h = N * M + r
    BY <2>3
  <2> QED BY <2>1, <2>3, <2>4 DEF h
<1> HIDE DEF N
<1>2. N \in Nat \ {0}
  <2>1. N = 0 => N * M = 0
    OBVIOUS
  <2> QED BY <1>1, <2>1
<1>3. ASSUME NEW k \in 1..N
      PROVE  /\ (k - 1) * M \in Nat /\ k * M \in Nat /\ k * M = (k - 1) * M + M
             /\ k * M <= N * M
  <2>1. k \in Nat /\ k - 1 \in Nat /\ k <= N
    BY <1>2
  <2>2. (k - 1) * M \in Nat /\ k * M \in Nat /\ k * M = (k - 1) * M + M
    BY <2>1
  <2> QED BY <1>2, <2>1, <2>2, Multiples
<1>4. ASSUME NEW k \in 1..N
      PROVE  /\ A(k) \in Int /\ B(k) \in Int /\ from <= A(k) /\ A(k) <= B(k)
             /\ A(k) <= from + size - 1 /\ B(k) = A(k) + M - 1
  <2> DEFINE x == (k - 1) * M
             z == k * M
             t == N * M
  <2>1. x \in Nat /\ z \in Nat /\ t \in Nat /\ z = x + M /\ z <= t /\ t <= size + M - 1
    BY <1>1, <1>3
  <2>2. A(k) = from + x /\ B(k) = from + z - 1
    OBVIOUS
  <2> HIDE DEF x, z, t, A, B
  <2> QED BY <2>1, <2>2
<1>5. ASSUME NEW i \in 1..N, NEW j \in 1..N, i < j PROVE B(i) < A(j)
  <2>1. i \in Nat /\ j - 1 \in Nat /\ i <= j - 1
    BY <1>2, <1>5
  <2>2. i * M <= (j - 1) * M
    BY <2>1, Multiples
  <2> DEFINE x == i * M
             z == (j - 1) * M
  <2>3. x <= z /\ x \in Nat /\ z \in Nat
    BY <1>3, <2>2
  <2>4. A(j) = from + z /\ B(i) = from + x - 1
    OBVIOUS
  <2> HIDE DEF x, z, A, B
  <2> QED BY <2>3, <2>4
<1>6. ASSUME NEW y \in from..(from + size - 1) PROVE \E k \in 1..N : A(k) <= y /\ y <= B(k)
  <2> DEFINE h == y - from
             d == h \div M
             r == h % M
             k == d + 1
  <2>1. h \in Nat /\ h < size /\ y = from + h
    OBVIOUS
  <2> HIDE DEF h
  <2>2. d \in Nat /\ r \in 0..(M - 1) /\ h = M * d + r
    BY <2>1
  <2> HIDE DEF d, r
  <2>3. d * M \in Nat /\ h = d * M + r
    BY <2>2
  <2>4. d < N
    <3>1. ASSUME N <= d PROVE FALSE
      <4>1. N * M <= d * M
        BY <1>2, <2>2, <3>1, Multiples
      <4> DEFINE x == N * M
                 z == d * M
      <4>2. x <= z /\ x \in Nat /\ z \in Nat /\ size <= x /\ h = z + r
        BY <1>1, <2>3, <4>1
      <4> HIDE DEF x, z
      <4> QED BY <2>1, <2>2, <4>2
    <3> QED BY <1>2, <2>2, <3>1
  <2>5. k \in 1..N /\ k - 1 = d
    BY <1>2, <2>2, <2>4
  <2>6. A(k) = from + d * M /\ B(k) = A(k) + M - 1 /\ A(k) \in Int
    BY <1>4, <2>5
  <2> DEFINE z == d * M
  <2>7. A(k) = from + z /\ z \in Nat /\ h = z + r
    BY <2>3, <2>6
  <2> HIDE DEF A, B, z, k
  <2>8. A(k) <= y /\ y <= B(k)
    BY <2>1, <2>2, <2>6, <2>7
  <2> QED BY <2>5, <2>8
<1> QED BY <1>2, <1>4, <1>5, <1>6 DEF N

\* The windows of a long sentence hold all of its characters, and each fits.
LEMMA WindowsAre ==
  ASSUME NEW q, Dense(q), NEW s \in Span, s.from <= s.to, s.size = s.to - s.from + 1
  PROVE  LET W == Windows(s, q) IN
         /\ SpanList(W, q, s.from, s.to)
         /\ \A n \in 1..Len(W) : W[n].size <= MaxChars
         /\ Stands(q, s.from) => Len(W) > 0
<1> DEFINE N    == (s.size + MaxChars - 1) \div MaxChars
           A(k) == s.from + (k - 1) * MaxChars
           B(k) == s.from + k * MaxChars - 1
           cut  == [k \in 1..N |-> Part(A(k), IF B(k) < s.to THEN B(k) ELSE s.to)]
           I    == {k \in DOMAIN cut : Printed(cut[k], q) # {}}
           kept == Sublist(cut, I)
           W    == Windows(s, q)
<1>1. W = [n \in DOMAIN kept |-> Stripped(kept[n], q)]
  BY DEF Windows
<1> HIDE DEF W
<1>2. s.from \in Int /\ s.to \in Int /\ s.size \in Nat \ {0} /\ s.to = s.from + s.size - 1 /\ MaxChars \in Nat \ {0}
  BY ChunkingAssumption DEF Span
<1>3. /\ N \in Nat \ {0}
      /\ \A k \in 1..N : /\ A(k) \in Int /\ B(k) \in Int /\ s.from <= A(k) /\ A(k) <= B(k)
                         /\ A(k) <= s.to /\ B(k) = A(k) + MaxChars - 1
      /\ \A i, j \in 1..N : i < j => B(i) < A(j)
      /\ \A y \in s.from..s.to : \E k \in 1..N : A(k) <= y /\ y <= B(k)
  <2> DEFINE from == s.from
             size == s.size
  <2>1. from \in Int /\ size \in Nat \ {0} /\ MaxChars \in Nat \ {0} /\ s.to = from + size - 1
    BY <1>2
  <2>2. /\ N \in Nat \ {0}
        /\ \A k \in 1..N : /\ A(k) \in Int /\ B(k) \in Int /\ from <= A(k) /\ A(k) <= B(k)
                           /\ A(k) <= from + size - 1 /\ B(k) = A(k) + MaxChars - 1
        /\ \A i, j \in 1..N : i < j => B(i) < A(j)
        /\ \A y \in from..(from + size - 1) : \E k \in 1..N : A(k) <= y /\ y <= B(k)
    <3> HIDE DEF from, size
    <3> QED BY <2>1, CutsAre DEF from, size
  <2> QED BY <2>1, <2>2
<1> HIDE DEF N, A, B
<1>4. ASSUME NEW k \in 1..N
      PROVE  /\ cut[k] \in Span /\ s.from <= cut[k].from /\ cut[k].to <= s.to /\ cut[k].from <= cut[k].to
             /\ cut[k].to - cut[k].from + 1 <= MaxChars
             /\ cut[k].from = A(k) /\ cut[k].to <= B(k) /\ (B(k) <= cut[k].to \/ cut[k].to = s.to)
  <2> DEFINE b == IF B(k) < s.to THEN B(k) ELSE s.to
  <2>1. cut[k] = [from |-> A(k), to |-> b, size |-> b - A(k) + 1]
    BY DEF Part
  <2>2. A(k) \in Int /\ B(k) \in Int /\ s.from <= A(k) /\ A(k) <= B(k) /\ A(k) <= s.to /\ B(k) = A(k) + MaxChars - 1
    BY <1>3
  <2>3. b \in Int /\ b <= s.to /\ b <= B(k) /\ A(k) <= b /\ (B(k) <= b \/ b = s.to)
    BY <1>2, <2>2
  <2>4. b - A(k) + 1 <= MaxChars /\ b - A(k) + 1 \in Int
    BY <1>2, <2>2, <2>3
  <2> HIDE DEF b, cut
  <2> QED BY <2>1, <2>2, <2>3, <2>4 DEF Span
<1>5. cut \in Seq(Span) /\ Len(cut) = N /\ DOMAIN cut = 1..N
  <2>1. cut = [k \in 1..N |-> cut[k]]
    OBVIOUS
  <2> HIDE DEF cut
  <2>2. cut \in [1..N -> Span]
    BY <1>4, <2>1
  <2> QED BY <1>3, <2>2, LenProperties, SeqDef
<1> HIDE DEF cut
<1> DEFINE c == Cardinality(I)
           Place(n) == Nth(I, n)
<1>6. /\ kept \in Seq(Span) /\ Len(kept) = c /\ c \in Nat
      /\ \A n \in 1..c : Place(n) \in I /\ kept[n] = cut[Place(n)]
      /\ \A m, n \in 1..c : m < n => Place(m) < Place(n)
      /\ \A i \in I : \E n \in 1..c : Place(n) = i
  <2>1. I \in SUBSET DOMAIN cut
    OBVIOUS
  <2> HIDE DEF I
  <2>2. /\ Sublist(cut, I) \in Seq(Span) /\ Len(Sublist(cut, I)) = Cardinality(I)
        /\ \A n \in 1..Cardinality(I) : Nth(I, n) \in I /\ Sublist(cut, I)[n] = cut[Nth(I, n)]
        /\ \A m, n \in 1..Cardinality(I) : m < n => Nth(I, m) < Nth(I, n)
        /\ \A i \in I : \E n \in 1..Cardinality(I) : Nth(I, n) = i
    BY <1>5, <2>1, SublistIs
  <2>3. c \in Nat
    BY <2>2, LenProperties
  <2> QED BY <2>2, <2>3
<1>7. DOMAIN kept = 1..c
  <2> HIDE DEF kept, c
  <2> QED BY <1>6, LenProperties
<1>8. \A n \in 1..c : Place(n) \in 1..N /\ kept[n] = cut[Place(n)] /\ Printed(kept[n], q) # {}
  BY <1>5, <1>6
<1>12. \A k \in 1..N : Printed(cut[k], q) # {} => \E n \in 1..c : Place(n) = k
  BY <1>5, <1>6
<1> HIDE DEF kept, c, I, Place
<1>9. ASSUME NEW n \in 1..c
      PROVE  LET k == Place(n) IN
             /\ k \in 1..N /\ W[n] \in Span /\ s.from <= W[n].from /\ W[n].from <= W[n].to /\ W[n].to <= s.to
             /\ W[n].size <= MaxChars
             /\ A(k) <= W[n].from /\ W[n].to <= B(k)
             /\ \A y \in cut[k].from..cut[k].to : Stands(q, y) => Covers(W[n], y)
  <2> DEFINE k == Place(n)
             w == cut[k]
             r == Stripped(w, q)
  <2>1. k \in 1..N /\ kept[n] = w /\ Printed(w, q) # {}
    BY <1>8
  <2>2. W[n] = r
    BY <1>1, <1>7, <2>1
  <2> HIDE DEF k
  <2>3. /\ w \in Span /\ s.from <= w.from /\ w.to <= s.to /\ w.from <= w.to /\ w.to - w.from + 1 <= MaxChars
        /\ w.from = A(k) /\ w.to <= B(k) /\ A(k) \in Int /\ B(k) \in Int
    BY <1>3, <1>4, <2>1
  <2> HIDE DEF w
  <2>4. /\ r \in Span /\ w.from <= r.from /\ r.from <= r.to /\ r.to <= w.to
        /\ r.size = r.to - r.from + 1
        /\ \A y \in w.from..w.to : Stands(q, y) => Covers(r, y)
    BY <2>1, <2>3, StrippedIs
  <2> HIDE DEF r
  <2>5. w.from \in Int /\ w.to \in Int /\ r.from \in Int /\ r.to \in Int
    BY <2>3, <2>4 DEF Span
  <2>6. s.from <= r.from /\ r.to <= s.to /\ r.size <= MaxChars /\ A(k) <= r.from /\ r.to <= B(k)
    BY <1>2, <2>3, <2>4, <2>5
  <2> QED BY <2>1, <2>2, <2>4, <2>6 DEF k, w
<1>10. W \in Seq(Span) /\ Len(W) = c
  <2>1. W = [n \in 1..c |-> W[n]]
    BY <1>1, <1>7
  <2>2. W \in [1..c -> Span]
    BY <1>9, <2>1
  <2> QED BY <1>6, <2>2, LenProperties, SeqDef
<1>11. ASSUME NEW m \in 1..c, NEW n \in 1..c, m < n PROVE W[m].to < W[n].from
  <2>1. Place(m) < Place(n) /\ Place(m) \in 1..N /\ Place(n) \in 1..N
    BY <1>6, <1>9, <1>11
  <2>2. B(Place(m)) < A(Place(n)) /\ B(Place(m)) \in Int /\ A(Place(n)) \in Int
    BY <1>3, <2>1
  <2>3. W[m].to <= B(Place(m)) /\ A(Place(n)) <= W[n].from /\ W[m].to \in Int /\ W[n].from \in Int
    BY <1>9 DEF Span
  <2> QED BY <2>2, <2>3
<1>13. ASSUME NEW y \in s.from..s.to, Stands(q, y) PROVE \E n \in 1..c : Covers(W[n], y)
  <2>1. PICK k \in 1..N : A(k) <= y /\ y <= B(k)
    BY <1>3
  <2>2. y \in Int /\ y <= s.to
    BY <1>2
  <2>3. y \in cut[k].from..cut[k].to
    <3>1. cut[k].from = A(k) /\ (B(k) <= cut[k].to \/ cut[k].to = s.to) /\ cut[k].to \in Int /\ A(k) \in Int /\ B(k) \in Int
      BY <1>3, <1>4 DEF Span
    <3> QED BY <1>2, <2>1, <2>2, <3>1
  <2>4. y \in Printed(cut[k], q)
    BY <1>13, <2>3, DenseIs DEF Printed, Stands, Covers
  <2>5. PICK n \in 1..c : Place(n) = k
    BY <2>4, <1>12
  <2> QED BY <1>9, <1>13, <2>3, <2>5
<1>14. SpanList(W, q, s.from, s.to)
  BY <1>9, <1>10, <1>11, <1>13 DEF SpanList
<1>15. Stands(q, s.from) => Len(W) > 0
  <2>1. s.from \in s.from..s.to
    BY <1>2
  <2>2. Stands(q, s.from) => \E n \in 1..c : TRUE
    BY <1>13, <2>1
  <2> QED BY <1>6, <1>10, <2>2
<1> QED BY <1>9, <1>10, <1>14, <1>15 DEF W

\* Parts that no one can be too long and that leave nothing out up to e.
Parts(P, q, e) ==
  /\ P \in Seq(Span)
  /\ \A i \in 1..Len(P) : P[i].from <= P[i].to /\ P[i].to <= e /\ P[i].size <= MaxChars
  /\ \A i, j \in 1..Len(P) : i < j => P[i].to < P[j].from
  /\ \A y \in Int : Stands(q, y) /\ y <= e => \E i \in 1..Len(P) : Covers(P[i], y)

\* Parts followed by the windows of a later sentence are parts.
LEMMA PartsJoin ==
  ASSUME NEW q, NEW P, NEW W, NEW e \in Int, NEW d \in Int, NEW f \in Int, Parts(P, q, e), SpanList(W, q, d, f),
         \A i \in 1..Len(W) : W[i].size <= MaxChars, e < d, d <= f,
         \A y \in Int : Stands(q, y) /\ e < y => d <= y
  PROVE  Parts(P \o W, q, f) /\ Len(P \o W) = Len(P) + Len(W)
<1> DEFINE m == Len(P)
           n == Len(W)
           R == P \o W
<1>1. P \in Seq(Span) /\ W \in Seq(Span) /\ m \in Nat /\ n \in Nat
  BY LenProperties DEF Parts, SpanList
<1>2. /\ R \in Seq(Span) /\ Len(R) = m + n
      /\ \A i \in 1..(m + n) : R[i] = IF i <= m THEN P[i] ELSE W[i - m]
  BY <1>1, ConcatProperties
<1>3. \A i \in 1..(m + n) : \/ i \in 1..m /\ R[i] = P[i]
                            \/ i > m /\ i - m \in 1..n /\ R[i] = W[i - m]
  BY <1>1, <1>2
<1>4. /\ \A i \in 1..m : i \in 1..(m + n) /\ R[i] = P[i]
      /\ \A i \in 1..n : i + m \in 1..(m + n) /\ R[i + m] = W[i]
  BY <1>1, <1>2
<1>5. /\ \A i \in 1..m : P[i].from \in Int /\ P[i].to \in Int
      /\ \A i \in 1..n : W[i].from \in Int /\ W[i].to \in Int
  <2>1. (\A i \in 1..m : P[i] \in Span) /\ \A i \in 1..n : W[i] \in Span
    BY <1>1, ElementOfSeq
  <2> HIDE DEF m, n
  <2> QED BY <2>1 DEF Span
<1>6. /\ \A i \in 1..m : P[i].from <= P[i].to /\ P[i].to <= e /\ P[i].size <= MaxChars
      /\ \A i, j \in 1..m : i < j => P[i].to < P[j].from
      /\ \A y \in Int : Stands(q, y) /\ y <= e => \E i \in 1..m : Covers(P[i], y)
      /\ \A i \in 1..n : d <= W[i].from /\ W[i].from <= W[i].to /\ W[i].to <= f /\ W[i].size <= MaxChars
      /\ \A i, j \in 1..n : i < j => W[i].to < W[j].from
      /\ \A y \in d..f : Stands(q, y) => \E i \in 1..n : Covers(W[i], y)
  BY DEF Parts, SpanList
<1> HIDE DEF R, m, n
<1>7. ASSUME NEW i \in 1..(m + n) PROVE R[i].from <= R[i].to /\ R[i].to <= f /\ R[i].size <= MaxChars
  <2>1. CASE i \in 1..m /\ R[i] = P[i]
    <3>1. P[i].to <= e /\ P[i].to \in Int
      BY <2>1, <1>5, <1>6
    <3>2. P[i].to <= f
      BY <3>1
    <3> QED BY <2>1, <1>6, <3>2
  <2>2. CASE i - m \in 1..n /\ R[i] = W[i - m]
    BY <2>2, <1>6
  <2> QED BY <2>1, <2>2, <1>3
<1>8. ASSUME NEW i \in 1..(m + n), NEW j \in 1..(m + n), i < j PROVE R[i].to < R[j].from
  <2>1. CASE j \in 1..m /\ R[j] = P[j]
    <3>1. i \in 1..m /\ R[i] = P[i]
      BY <1>1, <1>4, <1>8, <2>1
    <3> QED BY <1>6, <1>8, <2>1, <3>1
  <2>2. CASE j - m \in 1..n /\ R[j] = W[j - m]
    <3>1. CASE i \in 1..m /\ R[i] = P[i]
      <4>1. P[i].to <= e /\ d <= W[j - m].from /\ P[i].to \in Int /\ W[j - m].from \in Int
        BY <2>2, <3>1, <1>5, <1>6
      <4>2. P[i].to < W[j - m].from
        BY <4>1
      <4> QED BY <2>2, <3>1, <4>2
    <3>2. CASE i - m \in 1..n /\ R[i] = W[i - m]
      <4>1. i - m < j - m
        BY <1>1, <1>8
      <4> QED BY <1>6, <2>2, <3>2, <4>1
    <3> QED BY <3>1, <3>2, <1>3
  <2> QED BY <2>1, <2>2, <1>3
<1>9. ASSUME NEW y \in Int, Stands(q, y), y <= f PROVE \E i \in 1..(m + n) : Covers(R[i], y)
  <2>1. CASE y <= e
    <3>1. PICK i \in 1..m : Covers(P[i], y)
      BY <2>1, <1>6, <1>9
    <3>2. i \in 1..(m + n) /\ R[i] = P[i]
      BY <1>4
    <3> QED BY <3>1, <3>2
  <2>2. CASE ~(y <= e)
    <3>1. e < y
      BY <2>2
    <3>2. d <= y
      BY <3>1, <1>9
    <3>3. y \in d..f
      BY <3>2, <1>9
    <3>4. PICK i \in 1..n : Covers(W[i], y)
      BY <3>3, <1>6, <1>9
    <3>5. i + m \in 1..(m + n) /\ R[i + m] = W[i]
      BY <1>4
    <3> QED BY <3>4, <3>5
  <2> QED BY <2>1, <2>2
<1> QED BY <1>2, <1>7, <1>8, <1>9 DEF Parts, R, m, n

\* The last part reaches as far as what is added to it.
LEMMA PartsExtend ==
  ASSUME NEW q, NEW P \in Seq(Span), NEW o \in Span, NEW e \in Int, NEW f \in Int, e <= f,
         Parts(P \o <<o>>, q, e),
         NEW w \in Span, w.from = o.from, w.to = f, w.size <= MaxChars
  PROVE  Parts(P \o <<w>>, q, f) /\ Len(P \o <<w>>) = Len(P) + 1
<1> DEFINE m == Len(P)
           A == P \o <<o>>
           B == P \o <<w>>
<1>0. m \in Nat
  BY LenProperties
<1>1. /\ A \in Seq(Span) /\ Len(A) = m + 1 /\ A[m + 1] = o
      /\ \A i \in 1..m : A[i] = P[i]
  <2>1. <<o>> \in Seq(Span) /\ Len(<<o>>) = 1 /\ <<o>>[1] = o
    OBVIOUS
  <2>2. /\ P \o <<o>> \in Seq(Span) /\ Len(P \o <<o>>) = m + 1
        /\ \A i \in 1..(m + 1) : (P \o <<o>>)[i] = IF i <= m THEN P[i] ELSE <<o>>[i - m]
    BY <2>1, ConcatProperties
  <2> HIDE DEF m
  <2> QED BY <1>0, <2>1, <2>2
<1>2. /\ B \in Seq(Span) /\ Len(B) = m + 1 /\ B[m + 1] = w
      /\ \A i \in 1..m : B[i] = P[i]
  <2>1. <<w>> \in Seq(Span) /\ Len(<<w>>) = 1 /\ <<w>>[1] = w
    OBVIOUS
  <2>2. /\ P \o <<w>> \in Seq(Span) /\ Len(P \o <<w>>) = m + 1
        /\ \A i \in 1..(m + 1) : (P \o <<w>>)[i] = IF i <= m THEN P[i] ELSE <<w>>[i - m]
    BY <2>1, ConcatProperties
  <2> HIDE DEF m
  <2> QED BY <1>0, <2>1, <2>2
<1>3. /\ \A i \in 1..(m + 1) : A[i].from <= A[i].to /\ A[i].to <= e /\ A[i].size <= MaxChars
      /\ \A i, j \in 1..(m + 1) : i < j => A[i].to < A[j].from
      /\ \A y \in Int : Stands(q, y) /\ y <= e => \E i \in 1..(m + 1) : Covers(A[i], y)
  BY <1>1 DEF Parts
<1>4. \A i \in 1..(m + 1) : A[i].from \in Int /\ A[i].to \in Int
  <2>1. \A i \in 1..(m + 1) : A[i] \in Span
    BY <1>1, ElementOfSeq
  <2> HIDE DEF A, m
  <2> QED BY <2>1 DEF Span
<1> HIDE DEF m, A, B
<1>5. m + 1 \in 1..(m + 1) /\ \A i \in 1..(m + 1) : i = m + 1 \/ i \in 1..m
  BY <1>0
<1>6. \A i \in 1..m : i \in 1..(m + 1) /\ i < m + 1
  BY <1>0
<1>7. o.from <= o.to /\ o.to <= e /\ o.from \in Int /\ o.to \in Int
  BY <1>1, <1>3, <1>4, <1>5
<1>8. w.from <= w.to /\ w.to <= f
  BY <1>7
<1>9. ASSUME NEW i \in 1..(m + 1) PROVE B[i].from <= B[i].to /\ B[i].to <= f /\ B[i].size <= MaxChars
  <2>1. CASE i = m + 1
    BY <2>1, <1>2, <1>8
  <2>2. CASE i \in 1..m
    <3>1. B[i] = A[i] /\ A[i].from <= A[i].to /\ A[i].to <= e /\ A[i].size <= MaxChars /\ A[i].to \in Int
      BY <2>2, <1>1, <1>2, <1>3, <1>4, <1>6
    <3> QED BY <3>1
  <2> QED BY <2>1, <2>2, <1>5
<1>10. ASSUME NEW i \in 1..(m + 1), NEW j \in 1..(m + 1), i < j PROVE B[i].to < B[j].from
  <2>1. i \in 1..m /\ A[i].to < A[j].from /\ B[i] = A[i]
    BY <1>0, <1>1, <1>2, <1>3, <1>5, <1>10
  <2>2. B[j].from = A[j].from
    BY <1>1, <1>2, <1>5
  <2> QED BY <2>1, <2>2
<1>11. ASSUME NEW y \in Int, Stands(q, y), y <= f PROVE \E i \in 1..(m + 1) : Covers(B[i], y)
  <2>1. CASE y <= e
    <3>1. PICK i \in 1..(m + 1) : Covers(A[i], y)
      BY <2>1, <1>3, <1>11
    <3>2. CASE i = m + 1
      <4>1. o.from <= y
        BY <1>1, <3>1, <3>2 DEF Covers
      <4> QED BY <4>1, <1>2, <1>5, <1>11 DEF Covers
    <3>3. CASE i \in 1..m
      BY <3>1, <3>3, <1>1, <1>2, <1>6
    <3> QED BY <3>2, <3>3, <1>5
  <2>2. CASE ~(y <= e)
    <3>1. w.from <= y
      BY <2>2, <1>7
    <3> QED BY <3>1, <1>2, <1>5, <1>11 DEF Covers
  <2> QED BY <2>1, <2>2
<1> QED BY <1>2, <1>9, <1>10, <1>11 DEF Parts, B, m

Gathered == [parts : Seq(Span), open : Seq(Span)]
Cut(acc, q, e) == Len(acc.open) <= 1 /\ Parts(acc.parts \o acc.open, q, e)
Beside(s, q, e) == /\ e < s.from /\ Stands(q, s.from)
                    /\ \A y \in Int : Stands(q, y) /\ e < y => s.from <= y

\* One more sentence loses nothing of those that were gathered, or of its own.
LEMMA AddSentenceIs ==
  ASSUME NEW q, Dense(q), NEW acc \in Gathered, NEW s \in Span, s.from <= s.to, s.size = s.to - s.from + 1
  PROVE  LET r == AddSentence(acc, s, q) IN
         /\ r \in Gathered
         /\ \A e \in Int : Cut(acc, q, e) /\ Beside(s, q, e) =>
              Cut(r, q, s.to) /\ Len(r.parts \o r.open) > 0
<1> DEFINE W == Windows(s, q)
           r == AddSentence(acc, s, q)
<1>1. acc.parts \in Seq(Span) /\ acc.open \in Seq(Span) /\ acc = [parts |-> acc.parts, open |-> acc.open]
  BY DEF Gathered
<1>2. s.from \in Int /\ s.to \in Int /\ s.size \in Int /\ MaxChars \in Nat
  BY ChunkingAssumption DEF Span
<1>3. /\ SpanList(W, q, s.from, s.to) /\ W \in Seq(Span)
      /\ \A n \in 1..Len(W) : W[n].size <= MaxChars
      /\ Stands(q, s.from) => Len(W) > 0
  BY WindowsAre DEF SpanList
<1> HIDE DEF W
<1> DEFINE all == acc.parts \o acc.open
<1>4. all \in Seq(Span) /\ Len(all) \in Nat /\ Len(W) \in Nat /\ Len(acc.open) \in Nat
  BY <1>1, <1>3, ConcatProperties, LenProperties
<1>5. <<>> \in Seq(Span) /\ Len(<<>>) = 0 /\ <<s>> \in Seq(Span) /\ Len(<<s>>) = 1 /\ <<s>>[1] = s
  BY EmptySeq
<1>6. CASE s.size > MaxChars
  <2>1. r.parts = all \o W /\ r.open = <<>> /\ r = [parts |-> all \o W, open |-> <<>>]
    BY <1>6 DEF AddSentence, W
  <2> HIDE DEF r, all
  <2>2. all \o W \in Seq(Span) /\ (all \o W) \o <<>> = all \o W
    BY <1>3, <1>4, ConcatProperties, ConcatEmptySeq
  <2>3. r \in Gathered
    BY <1>5, <2>1, <2>2 DEF Gathered
  <2>4. ASSUME NEW e \in Int, Cut(acc, q, e), Beside(s, q, e)
        PROVE  Cut(r, q, s.to) /\ Len(r.parts \o r.open) > 0
    <3>0. /\ Len(acc.open) <= 1 /\ Parts(all, q, e) /\ e < s.from /\ Stands(q, s.from)
          /\ \A y \in Int : Stands(q, y) /\ e < y => s.from <= y
      BY <2>4 DEF Cut, Beside, all
    <3>1. Parts(all \o W, q, s.to) /\ Len(all \o W) = Len(all) + Len(W)
      BY <1>2, <1>3, <3>0, PartsJoin
    <3>2. Len(W) > 0
      BY <1>3, <3>0
    <3> QED BY <1>4, <1>5, <2>1, <2>2, <3>1, <3>2 DEF Cut
  <2> QED BY <2>3, <2>4 DEF r
<1>7. CASE ~(s.size > MaxChars) /\ ~(acc.open # <<>> /\ acc.open[1].size + s.size + 1 <= MaxChars)
  <2>1. r.parts = all /\ r.open = <<s>> /\ r = [parts |-> all, open |-> <<s>>]
    BY <1>7 DEF AddSentence
  <2> HIDE DEF r, all
  <2>2. r \in Gathered
    BY <1>4, <1>5, <2>1 DEF Gathered
  <2>3. SpanList(<<s>>, q, s.from, s.to)
    BY <1>2, <1>5 DEF SpanList, Covers
  <2>4. ASSUME NEW e \in Int, Cut(acc, q, e), Beside(s, q, e)
        PROVE  Cut(r, q, s.to) /\ Len(r.parts \o r.open) > 0
    <3>0. /\ Len(acc.open) <= 1 /\ Parts(all, q, e) /\ e < s.from /\ Stands(q, s.from)
          /\ \A y \in Int : Stands(q, y) /\ e < y => s.from <= y
      BY <2>4 DEF Cut, Beside, all
    <3>1. \A i \in 1..Len(<<s>>) : <<s>>[i].size <= MaxChars
      BY <1>2, <1>5, <1>7
    <3>2. Parts(all \o <<s>>, q, s.to) /\ Len(all \o <<s>>) = Len(all) + Len(<<s>>)
      BY <1>2, <2>3, <3>0, <3>1, PartsJoin
    <3> QED BY <1>4, <1>5, <2>1, <3>2 DEF Cut
  <2> QED BY <2>2, <2>4 DEF r
<1>8. CASE ~(s.size > MaxChars) /\ acc.open # <<>> /\ acc.open[1].size + s.size + 1 <= MaxChars
  <2> DEFINE o == acc.open[1]
             w == [from |-> o.from, to |-> s.to, size |-> o.size + s.size]
  <2>1. r.parts = acc.parts /\ r.open = <<w>> /\ r = [parts |-> acc.parts, open |-> <<w>>]
    BY <1>1, <1>8 DEF AddSentence
  <2>2. o \in Span /\ Len(acc.open) # 0
    BY <1>1, <1>4, <1>8, EmptySeq, ElementOfSeq
  <2>3. w \in Span /\ w.from = o.from /\ w.to = s.to /\ w.size = o.size + s.size
    BY <1>2, <2>2 DEF Span
  <2>4. o.size \in Int
    BY <2>2 DEF Span
  <2>5. w.size <= MaxChars
    BY <1>2, <1>8, <2>3, <2>4
  <2> HIDE DEF r, all, w
  <2>6. <<w>> \in Seq(Span) /\ Len(<<w>>) = 1
    BY <2>3
  <2>7. r \in Gathered
    BY <1>1, <2>1, <2>6 DEF Gathered
  <2>8. ASSUME NEW e \in Int, Cut(acc, q, e), Beside(s, q, e)
        PROVE  Cut(r, q, s.to) /\ Len(r.parts \o r.open) > 0
    <3>0. /\ Len(acc.open) <= 1 /\ Parts(all, q, e) /\ e < s.from /\ Stands(q, s.from)
          /\ \A y \in Int : Stands(q, y) /\ e < y => s.from <= y
      BY <2>8 DEF Cut, Beside, all
    <3>1. acc.open = <<o>>
      <4>1. Len(acc.open) = 1
        <5> DEFINE l == Len(acc.open)
        <5>1. l \in Nat /\ l <= 1 /\ l # 0
          BY <1>4, <2>2, <3>0
        <5> HIDE DEF l
        <5>2. l = 1
          BY <5>1
        <5> QED BY <5>2 DEF l
      <4>2. <<o>> \in Seq(Span) /\ Len(<<o>>) = 1 /\ <<o>>[1] = o
        BY <2>2
      <4>3. \A i \in 1..1 : acc.open[i] = <<o>>[i]
        BY <4>2
      <4> HIDE DEF o
      <4> QED BY <1>1, <4>1, <4>2, <4>3, SeqEqual
    <3>2. Parts(acc.parts \o <<o>>, q, e)
      BY <3>0, <3>1 DEF all
    <3>3. e <= s.to
      BY <1>2, <3>0
    <3> HIDE DEF o
    <3>4. Parts(acc.parts \o <<w>>, q, s.to) /\ Len(acc.parts \o <<w>>) = Len(acc.parts) + 1
      BY <1>1, <1>2, <2>2, <2>3, <2>5, <3>2, <3>3, PartsExtend
    <3>5. Len(acc.parts) \in Nat
      BY <1>1, LenProperties
    <3> QED BY <2>1, <2>6, <3>4, <3>5 DEF Cut
  <2> QED BY <2>7, <2>8 DEF r
<1> QED BY <1>6, <1>7, <1>8

\* Splitting a text loses no character of a piece, and every part fits.
LEMMA SplitIs ==
  ASSUME NEW q, Dense(q)
  PROVE  Parts(Split(q), q, q[Len(q)].to) /\ Len(Split(q)) > 0
<1> DEFINE S == Sentences(q)
           c == Len(S)
           m == Len(q)
           base == [parts |-> <<>>, open |-> <<>>]
           grow == [p \in Gathered \X (1..c) |-> AddSentence(p[1], S[p[2]], q)]
           Is(f) == f = [n \in 0..c |-> IF n = 0 THEN base ELSE AddSentence(f[n - 1], S[n], q)]
           E(n) == IF n = 0 THEN q[1].from - 1 ELSE S[n].to
<1>1. /\ SpanList(S, q, q[1].from, q[m].to) /\ c \in Nat \ {0}
      /\ \A n \in 1..c : S[n].size = S[n].to - S[n].from + 1 /\ Stands(q, S[n].from)
  BY SentencesAre
<1>2. Split(q) = (CHOOSE f : Is(f))[c].parts \o (CHOOSE f : Is(f))[c].open
  BY DEF Split
<1>3. /\ m \in Nat \ {0} /\ \A i \in 1..m : q[i].from \in Int /\ q[i].to \in Int /\ q[i].from <= q[i].to
      /\ \A i, j \in 1..m : i <= j => q[i].from <= q[j].to
      /\ \A i, j \in 1..m : i <= j => q[1].from <= q[i].from /\ q[j].to <= q[m].to
  <2>1. /\ m \in Nat \ {0} /\ \A i \in 1..m : q[i].from \in Int /\ q[i].to \in Int /\ q[i].from <= q[i].to
        /\ \A i, j \in 1..m : i <= j => q[i].from <= q[j].to
        /\ \A i, j \in 1..m : i < j => q[i].to < q[j].from
    BY DenseIs DEF Dense
  <2> HIDE DEF m
  <2>2. 1 \in 1..m /\ m \in 1..m
    BY <2>1
  <2>3. ASSUME NEW i \in 1..m PROVE q[1].from <= q[i].from /\ q[i].to <= q[m].to
    <3>1. /\ q[i].from \in Int /\ q[i].to \in Int /\ q[i].from <= q[i].to
          /\ q[1].from \in Int /\ q[1].to \in Int /\ q[1].from <= q[1].to
          /\ q[m].from \in Int /\ q[m].to \in Int /\ q[m].from <= q[m].to
      BY <2>1, <2>2
    <3>2. (i = 1 \/ q[1].to < q[i].from) /\ (i = m \/ q[i].to < q[m].from)
      BY <2>1, <2>2
    <3>3. q[1].from <= q[i].from
      BY <3>1, <3>2
    <3>4. q[i].to <= q[m].to
      BY <3>1, <3>2
    <3> QED BY <3>3, <3>4
  <2> QED BY <2>1, <2>3
<1> HIDE DEF S, c, m
<1>4. /\ \A n \in 1..c : /\ S[n] \in Span /\ q[1].from <= S[n].from /\ S[n].from <= S[n].to /\ S[n].to <= q[m].to
                         /\ S[n].from \in Int /\ S[n].to \in Int
      /\ \A i, j \in 1..c : i < j => S[i].to < S[j].from
      /\ \A y \in q[1].from..q[m].to : Stands(q, y) => \E n \in 1..c : Covers(S[n], y)
  <2>1. \A n \in 1..c : S[n] \in Span
    BY <1>1, ElementOfSeq DEF SpanList, c
  <2>2. \A n \in 1..c : S[n].from \in Int /\ S[n].to \in Int
    BY <2>1 DEF Span
  <2> QED BY <1>1, <2>1, <2>2 DEF SpanList, c
<1>5. grow \in [Gathered \X (1..c) -> Gathered]
  <2>1. ASSUME NEW acc \in Gathered, NEW n \in 1..c PROVE AddSentence(acc, S[n], q) \in Gathered
    BY <1>1, <1>4, AddSentenceIs
  <2> QED BY <2>1
<1>6. base \in Gathered
  BY EmptySeq DEF Gathered
<1>7. \E f : Is(f)
  <2>1. PICK run : Follows(run, c, Gathered, base, grow)
    <3>1. c \in Nat
      BY <1>1
    <3> HIDE DEF grow, base
    <3> QED BY <3>1, <1>5, <1>6, RunExists
  <2>2. ASSUME NEW n \in 1..c PROVE run[n] = AddSentence(run[n - 1], S[n], q)
    <3>1. run[n - 1] \in Gathered /\ run[n] = grow[<<run[n - 1], n>>]
      BY <2>1 DEF Follows
    <3>2. <<run[n - 1], n>> \in Gathered \X (1..c)
      BY <3>1
    <3> QED BY <3>1, <3>2
  <2>3. run[0] = base /\ run \in [0..c -> Gathered]
    BY <2>1 DEF Follows
  <2> HIDE DEF base
  <2>4. \A k \in 0..c : run[k] = IF k = 0 THEN base ELSE AddSentence(run[k - 1], S[k], q)
    <3>1. ASSUME NEW k \in 0..c, k # 0 PROVE k \in 1..c
      BY <1>1, <3>1
    <3> QED BY <3>1, <2>2, <2>3
  <2>5. run = [k \in 0..c |-> run[k]]
    BY <2>3
  <2>6. Is(run)
    BY <2>4, <2>5
  <2> QED BY <2>6
<1> DEFINE f == CHOOSE g : Is(g)
<1>8. Is(f)
  <2> HIDE DEF Is
  <2> QED BY <1>7
<1>9. Split(q) = f[c].parts \o f[c].open
  BY <1>2
<1> HIDE DEF f
<1>10. f[0] = base /\ \A n \in 1..c : f[n] = AddSentence(f[n - 1], S[n], q)
  <2> HIDE DEF base
  <2>1. \A n \in 0..c : f[n] = IF n = 0 THEN base ELSE AddSentence(f[n - 1], S[n], q)
    BY <1>8
  <2>2. 0 \in 0..c /\ \A n \in 1..c : n \in 0..c /\ n # 0
    BY <1>1
  <2> QED BY <2>1, <2>2
<1>11. 1 \in 1..m /\ m \in 1..m /\ \A n \in 0..c : E(n) \in Int
  <2>1. 1 \in 1..m /\ m \in 1..m /\ \A n \in 0..c : n = 0 \/ n \in 1..c
    BY <1>1, <1>3
  <2> QED BY <1>3, <1>4, <2>1
<1>12. ASSUME NEW y \in Int, Stands(q, y) PROVE q[1].from <= y /\ y <= q[m].to
  <2>1. PICK i \in 1..m : q[i].from <= y /\ y <= q[i].to
    BY <1>12 DEF Stands, Covers, m
  <2>2. i <= i
    BY <1>3
  <2>3. q[1].from <= q[i].from /\ q[i].to <= q[m].to /\ q[1].from \in Int /\ q[m].to \in Int /\ q[i].from \in Int /\ q[i].to \in Int
    BY <1>3, <1>11, <2>2
  <2> QED BY <2>1, <2>3
<1>13. ASSUME NEW n \in 1..c PROVE Beside(S[n], q, E(n - 1))
  <2>1. E(n - 1) < S[n].from
    <3>1. CASE n = 1
      <4>1. q[1].from <= S[n].from /\ S[n].from \in Int /\ q[1].from \in Int
        BY <1>3, <1>4, <1>11
      <4>2. E(n - 1) = q[1].from - 1
        BY <3>1
      <4> HIDE DEF E
      <4> QED BY <4>1, <4>2
    <3>2. CASE n # 1
      <4>1. n - 1 \in 1..c /\ n - 1 < n /\ n - 1 # 0
        BY <1>1, <3>2
      <4> QED BY <1>4, <4>1
    <3> QED BY <3>1, <3>2
  <2>2. ASSUME NEW y \in Int, Stands(q, y), E(n - 1) < y PROVE S[n].from <= y
    <3>1. q[1].from <= y /\ y <= q[m].to /\ q[1].from \in Int /\ q[m].to \in Int
      BY <1>3, <1>11, <1>12, <2>2
    <3>2. PICK k \in 1..c : S[k].from <= y /\ y <= S[k].to
      BY <1>4, <2>2, <3>1 DEF Covers
    <3>3. CASE k < n
      <4>1. n - 1 \in 1..c /\ n - 1 # 0 /\ (k = n - 1 \/ k < n - 1)
        BY <1>1, <3>3
      <4>2. S[k].to <= S[n - 1].to
        <5>1. k = n - 1 \/ S[k].to < S[n - 1].from
          BY <1>4, <4>1
        <5>2. S[k].to \in Int /\ S[n - 1].from \in Int /\ S[n - 1].to \in Int /\ S[n - 1].from <= S[n - 1].to
          BY <1>4, <4>1
        <5> QED BY <5>1, <5>2
      <4>3. S[n - 1].to < y
        BY <2>2, <4>1
      <4>4. S[k].to \in Int /\ S[n - 1].to \in Int
        BY <1>4, <4>1
      <4> QED BY <3>2, <4>2, <4>3, <4>4
    <3>4. CASE k = n
      BY <3>2, <3>4
    <3>5. CASE n < k
      <4>1. S[n].to < S[k].from /\ S[n].from <= S[n].to /\ S[n].from \in Int /\ S[n].to \in Int /\ S[k].from \in Int
        BY <1>4, <3>5
      <4> QED BY <3>2, <4>1
    <3> QED BY <1>1, <3>3, <3>4, <3>5
  <2> QED BY <1>1, <2>1, <2>2 DEF Beside
<1> DEFINE T == {n \in 0..c : f[n] \in Gathered /\ Cut(f[n], q, E(n)) /\ (n > 0 => Len(f[n].parts \o f[n].open) > 0)}
<1>14. 0 \in T
  <2>1. <<>> \in Seq(Span) /\ Len(<<>>) = 0 /\ <<>> \o <<>> = <<>> /\ 1..0 = {}
    BY EmptySeq, ConcatEmptySeq
  <2>2. \A y \in Int : Stands(q, y) => ~(y <= E(0))
    <3>1. q[1].from \in Int /\ E(0) = q[1].from - 1
      BY <1>3, <1>11
    <3> HIDE DEF E
    <3> QED BY <3>1, <1>12
  <2>3. Parts(<<>>, q, E(0))
    BY <2>1, <2>2 DEF Parts
  <2>4. f[0].parts = <<>> /\ f[0].open = <<>>
    BY <1>10
  <2>5. Cut(f[0], q, E(0))
    BY <2>1, <2>3, <2>4 DEF Cut
  <2>6. 0 \in 0..c /\ ~(0 > 0)
    BY <1>1
  <2> HIDE DEF base, E
  <2> QED BY <1>6, <1>10, <2>5, <2>6
<1>15. ASSUME NEW n \in 1..c, n - 1 \in T PROVE n \in T
  <2>1. f[n - 1] \in Gathered /\ Cut(f[n - 1], q, E(n - 1)) /\ n - 1 \in 0..c /\ n \in 0..c /\ n # 0
    BY <1>15, <1>1
  <2>2. f[n] = AddSentence(f[n - 1], S[n], q) /\ Beside(S[n], q, E(n - 1)) /\ E(n - 1) \in Int
    BY <1>10, <1>11, <1>13, <2>1
  <2>3. E(n) = S[n].to
    BY <2>1
  <2> DEFINE e == E(n - 1)
             acc == f[n - 1]
             s == S[n]
  <2>4. s \in Span /\ s.from <= s.to /\ s.size = s.to - s.from + 1 /\ acc \in Gathered /\ e \in Int
        /\ Cut(acc, q, e) /\ Beside(s, q, e)
    BY <1>1, <1>4, <2>1, <2>2
  <2>5. f[n] = AddSentence(acc, s, q)
    BY <2>2
  <2> HIDE DEF E, e, acc, s
  <2>6. f[n] \in Gathered /\ Cut(f[n], q, s.to) /\ Len(f[n].parts \o f[n].open) > 0
    BY <2>4, <2>5, AddSentenceIs
  <2> QED BY <2>1, <2>3, <2>6 DEF s
<1>16. c \in T
  <2>1. c \in 0..c /\ c \in Nat
    BY <1>1
  <2>2. 0..c \subseteq T
    <3> HIDE DEF T
    <3> QED BY <2>1, <1>14, <1>15, Inductive
  <2> QED BY <2>1, <2>2
<1>17. Parts(Split(q), q, S[c].to) /\ Len(Split(q)) > 0
  <2>1. E(c) = S[c].to /\ c > 0
    BY <1>1
  <2> HIDE DEF E
  <2>2. Cut(f[c], q, S[c].to) /\ Len(f[c].parts \o f[c].open) > 0
    BY <1>16, <2>1
  <2> QED BY <1>9, <2>2 DEF Cut
<1>18. \A y \in Int : Stands(q, y) => y <= S[c].to
  <2>1. ASSUME NEW y \in Int, Stands(q, y) PROVE y <= S[c].to
    <3>1. q[1].from <= y /\ y <= q[m].to /\ q[1].from \in Int /\ q[m].to \in Int
      BY <1>3, <1>11, <1>12, <2>1
    <3>2. PICK k \in 1..c : S[k].from <= y /\ y <= S[k].to
      BY <1>4, <2>1, <3>1 DEF Covers
    <3>3. c \in 1..c /\ (k = c \/ k < c)
      BY <1>1
    <3>4. k = c \/ S[k].to < S[c].from
      BY <1>4, <3>3
    <3>5. S[c].from <= S[c].to /\ S[c].from \in Int /\ S[c].to \in Int /\ S[k].to \in Int
      BY <1>4, <3>3
    <3> QED BY <3>2, <3>4, <3>5
  <2> QED BY <2>1
<1>19. S[c].to <= q[m].to /\ S[c].to \in Int /\ q[m].to \in Int
  <2>1. c \in 1..c
    BY <1>1
  <2> QED BY <1>3, <1>4, <1>11, <2>1
<1>20. Parts(Split(q), q, q[m].to)
  <2>1. /\ Split(q) \in Seq(Span)
        /\ \A i \in 1..Len(Split(q)) : Split(q)[i].from <= Split(q)[i].to /\ Split(q)[i].to <= S[c].to /\ Split(q)[i].size <= MaxChars
        /\ \A i, j \in 1..Len(Split(q)) : i < j => Split(q)[i].to < Split(q)[j].from
        /\ \A y \in Int : Stands(q, y) /\ y <= S[c].to => \E i \in 1..Len(Split(q)) : Covers(Split(q)[i], y)
    BY <1>17 DEF Parts
  <2>2. ASSUME NEW i \in 1..Len(Split(q)) PROVE Split(q)[i].to <= q[m].to
    <3>1. Split(q)[i] \in Span
      BY <2>1, ElementOfSeq
    <3>2. Split(q)[i].to \in Int
      BY <3>1 DEF Span
    <3> QED BY <2>1, <3>2, <1>19
  <2> QED BY <2>1, <2>2, <1>18 DEF Parts
<1> QED BY <1>17, <1>20 DEF m

-----------------------------------------------------------------------------
(* The chunks of some blocks.  Has says that a chunk holds a character of  *)
(* a line; OnceIn, that exactly one of a list of chunks holds each.        *)
Has(c, n, x) == \E i \in DOMAIN Pieces(c.blocks) :
  LET p == Pieces(c.blocks)[i]
  IN p.line = n /\ p.from + x - 1 >= c.part.from /\ p.from + x - 1 <= c.part.to
OnceIn(C, n) == \A x \in 1..doc[n].size :
  \E k \in 1..Len(C) : Has(C[k], n, x) /\ \A j \in 1..Len(C) : Has(C[j], n, x) => j = k

ChunkRecord     == [blocks : Seq(Int), path : Seq(Int), part : Span, pages : SUBSET Int]
Solid(b)  == \A n \in LinesOf(b) : doc[n].size > 0
Paged     == \A b \in Blocks : parsed[b].page \in Int
Lone(bs)  == Len(bs) = 1 /\ Atomic(bs[1])

Emission(E, bs, p) ==
  /\ E \in Seq(ChunkRecord) /\ Len(E) > 0
  /\ \A k \in 1..Len(E) :
       /\ E[k].blocks = bs /\ E[k].path = p /\ E[k].pages = Pages(bs)
       /\ E[k].part.size <= MaxChars \/ Lone(bs)
       /\ E[k].part.size < TextLength(bs) => TextLength(bs) > MaxChars
       /\ \A n, x : Has(E[k], n, x) => n \in LinesUpto(bs, Len(bs))
  /\ \A i, j \in 1..Len(E) : i < j => E[i].part.to < E[j].part.from
  /\ \A n \in LinesUpto(bs, Len(bs)) : OnceIn(E, n)

\* Blocks of lines that are not blank have a text to cut.
LEMMA PiecesDense ==
  ASSUME Written, Laid, NEW bs \in Seq(Blocks), Injective(bs), bs # <<>>,
         \A i \in 1..Len(bs) : Solid(bs[i])
  PROVE  Dense(Pieces(bs))
<1> DEFINE q == Pieces(bs)
           L == LinesUpto(bs, Len(bs))
<1>1. PieceList(q, L, 1, TextLength(bs))
  BY PiecesAre
<1>2. Len(bs) \in Nat \ {0} /\ \A i \in 1..Len(bs) : bs[i] \in Blocks
  BY EmptySeq, LenProperties, ElementOfSeq
<1>3. q \in Seq(Piece) /\ Len(q) \in Nat /\ \A i \in 1..Len(q) : q[i] \in Piece
  <2>1. q \in Seq(Piece)
    BY <1>1 DEF PieceList
  <2> QED BY <2>1, LenProperties, ElementOfSeq
<1>4. \A n \in L : doc[n].size \in Nat \ {0}
  <2>1. ASSUME NEW n \in L PROVE doc[n].size \in Nat \ {0}
    <3>1. PICK i \in 1..Len(bs) : n \in LinesOf(bs[i])
      BY DEF LinesUpto
    <3>2. n \in Nums
      <4>1. bs[i] \in Blocks /\ parsed[bs[i]].lines \in Seq(Nums)
        BY <1>2 DEF Laid
      <4> QED BY <3>1, <4>1, ElementOfSeq DEF LinesOf, Members
    <3> QED BY <3>1, <3>2, SizeIs DEF Solid
  <2> QED BY <2>1
<1>5. Len(q) > 0
  <2>1. 1 \in 1..Len(bs)
    BY <1>2
  <2>2. parsed[bs[1]].lines \in Seq(Nums) /\ Len(parsed[bs[1]].lines) > 0
    BY <1>2, <2>1 DEF Laid
  <2>3. 1 \in 1..Len(parsed[bs[1]].lines)
    BY <2>2, LenProperties
  <2>4. parsed[bs[1]].lines[1] \in L
    BY <2>1, <2>3 DEF LinesUpto, LinesOf, Members
  <2>5. \E i \in 1..Len(q) : q[i].line = parsed[bs[1]].lines[1]
    BY <1>1, <2>4 DEF PieceList
  <2> QED BY <1>3, <2>5
<1>6. ASSUME NEW i \in 1..Len(q) PROVE q[i].from <= q[i].to
  <2>1. q[i].line \in L /\ q[i].to = q[i].from + doc[q[i].line].size - 1
    BY <1>1 DEF PieceList
  <2>2. q[i].from \in Int
    BY <1>3 DEF Piece
  <2> QED BY <1>4, <2>1, <2>2
<1>7. \A i, j \in 1..Len(q) : i < j => q[i].to < q[j].from
  BY <1>1 DEF PieceList
<1> QED BY <1>3, <1>5, <1>6, <1>7 DEF Dense

\* What a chunk of part of a text holds, by the places of its lines.
LEMMA HasIs ==
  ASSUME Written, Laid, NEW bs \in Seq(Blocks), Injective(bs), bs # <<>>
  PROVE  LET q == Pieces(bs) IN
         /\ \A n \in LinesUpto(bs, Len(bs)) : \A x \in 1..doc[n].size : \E y \in Int :
              /\ 1 <= y /\ y <= TextLength(bs) /\ Stands(q, y)
              /\ \A c : c.blocks = bs => (Has(c, n, x) <=> Covers(c.part, y))
         /\ \A c, n, x : c.blocks = bs /\ Has(c, n, x) => n \in LinesUpto(bs, Len(bs))
<1> DEFINE q == Pieces(bs)
           L == LinesUpto(bs, Len(bs))
<1>1. PieceList(q, L, 1, TextLength(bs))
  BY PiecesAre
<1>2. q \in Seq(Piece) /\ Len(q) \in Nat /\ DOMAIN q = 1..Len(q) /\ \A i \in 1..Len(q) : q[i] \in Piece
  <2>1. q \in Seq(Piece)
    BY <1>1 DEF PieceList
  <2> QED BY <2>1, LenProperties, ElementOfSeq
<1>3. \A n \in L : n \in Nums /\ doc[n].size \in Nat
  <2>1. ASSUME NEW n \in L PROVE n \in Nums
    <3>1. PICK i \in 1..Len(bs) : n \in LinesOf(bs[i])
      BY DEF LinesUpto
    <3>2. bs[i] \in Blocks /\ parsed[bs[i]].lines \in Seq(Nums)
      BY ElementOfSeq, LenProperties DEF Laid
    <3> QED BY <3>1, <3>2, ElementOfSeq DEF LinesOf, Members
  <2> QED BY <2>1, SizeIs
<1>4. ASSUME NEW n \in L, NEW x \in 1..doc[n].size
      PROVE  \E y \in Int : /\ 1 <= y /\ y <= TextLength(bs) /\ Stands(q, y)
                            /\ \A c : c.blocks = bs => (Has(c, n, x) <=> Covers(c.part, y))
  <2>1. PICK i \in 1..Len(q) : q[i].line = n
    BY <1>1 DEF PieceList
  <2>2. /\ 1 <= q[i].from /\ q[i].to <= TextLength(bs) /\ q[i].to = q[i].from + doc[n].size - 1
        /\ q[i].from \in Int /\ q[i].to \in Int
    <3>1. q[i] \in Piece
      BY <1>2
    <3>2. q[i].from \in Int /\ q[i].to \in Int
      BY <3>1 DEF Piece
    <3> QED BY <1>1, <2>1, <3>2 DEF PieceList
  <2>3. \A j \in 1..Len(q) : q[j].line = n => j = i
    <3>1. \A j, k \in 1..Len(q) : j < k => q[j].line # q[k].line
      BY <1>1 DEF PieceList
    <3> QED BY <1>2, <2>1, <3>1
  <2> DEFINE y == q[i].from + x - 1
  <2>4. y \in Int /\ q[i].from <= y /\ y <= q[i].to /\ 1 <= y
    <3> DEFINE a == q[i].from
               b == q[i].to
               size == doc[n].size
    <3>1. size \in Nat /\ x \in 1..size
      BY <1>3
    <3>2. a \in Int /\ b \in Int /\ 1 <= a /\ b = a + size - 1
      BY <2>2
    <3> HIDE DEF a, b, size
    <3>3. a + x - 1 \in Int /\ a <= a + x - 1 /\ a + x - 1 <= b /\ 1 <= a + x - 1
      BY <3>1, <3>2
    <3> QED BY <3>3 DEF a, b
  <2>5. y <= TextLength(bs)
    BY <2>2, <2>4, TextLengthIs
  <2>6. Stands(q, y)
    BY <2>4 DEF Stands, Covers
  <2>7. ASSUME NEW c, c.blocks = bs PROVE Has(c, n, x) <=> Covers(c.part, y)
    <3>1. Has(c, n, x) <=> \E j \in 1..Len(q) : /\ q[j].line = n /\ q[j].from + x - 1 >= c.part.from
                                               /\ q[j].from + x - 1 <= c.part.to
      BY <1>2, <2>7 DEF Has
    <3>2. Has(c, n, x) <=> y >= c.part.from /\ y <= c.part.to
      BY <2>1, <2>3, <3>1
    <3> QED BY <3>2 DEF Covers
  <2> HIDE DEF y
  <2> QED BY <2>4, <2>5, <2>6, <2>7
<1>5. ASSUME NEW c, NEW n, NEW x, c.blocks = bs, Has(c, n, x) PROVE n \in L
  <2>1. PICK j \in 1..Len(q) : q[j].line = n
    BY <1>2, <1>5 DEF Has
  <2> QED BY <1>1, <2>1 DEF PieceList
<1> QED BY <1>4, <1>5

\* Blocks are emitted as one chunk, or as the parts of their text.
LEMMA EmitIs ==
  ASSUME Written, Laid, Paged, NEW bs \in Seq(Blocks), Injective(bs), bs # <<>>,
         Lone(bs) \/ \A i \in 1..Len(bs) : Solid(bs[i]), NEW p \in Seq(Int)
  PROVE  Emission(Emit(bs, p), bs, p)
<1> DEFINE q == Pieces(bs)
           L == LinesUpto(bs, Len(bs))
           S == Split(q)
           whole == Part(1, TextLength(bs))
           E == Emit(bs, p)
<1>1. /\ Len(bs) \in Nat \ {0} /\ DOMAIN bs = 1..Len(bs) /\ \A i \in 1..Len(bs) : bs[i] \in Blocks
      /\ bs \in Seq(Int)
  <2>1. /\ Len(bs) \in Nat \ {0} /\ DOMAIN bs = 1..Len(bs) /\ \A i \in 1..Len(bs) : bs[i] \in Blocks
    BY EmptySeq, LenProperties, ElementOfSeq
  <2>2. \A i \in 1..Len(bs) : bs[i] \in Int
    BY <2>1 DEF Blocks
  <2> QED BY <2>1, <2>2, IsASeq
<1>2. TextLength(bs) \in Int
  BY TextLengthIs
<1>3. Pages(bs) \in SUBSET Int
  BY <1>1 DEF Pages, Paged
<1>4. whole \in Span /\ whole.size = TextLength(bs) /\ whole.from = 1 /\ whole.to = TextLength(bs)
  BY <1>2 DEF Part, Span
<1>5. \A part \in Span : LET c == ChunkOf(bs, p, part) IN
        c \in ChunkRecord /\ c.blocks = bs /\ c.path = p /\ c.pages = Pages(bs) /\ c.part = part
  BY <1>1, <1>3 DEF ChunkOf, ChunkRecord
<1>6. /\ \A n \in L : \A x \in 1..doc[n].size : \E y \in Int :
              /\ 1 <= y /\ y <= TextLength(bs) /\ Stands(q, y)
              /\ \A c : c.blocks = bs => (Has(c, n, x) <=> Covers(c.part, y))
      /\ \A c, n, x : c.blocks = bs /\ Has(c, n, x) => n \in L
  BY HasIs
<1> HIDE DEF q, L, S, whole
<1>7. CASE whole.size <= MaxChars \/ Lone(bs)
  <2> DEFINE c == ChunkOf(bs, p, whole)
  <2>1. E = <<c>>
    BY <1>7 DEF Emit, Lone, whole
  <2>2. c \in ChunkRecord /\ c.blocks = bs /\ c.path = p /\ c.pages = Pages(bs) /\ c.part = whole
    BY <1>4, <1>5
  <2> HIDE DEF c, E
  <2>3. E \in Seq(ChunkRecord) /\ Len(E) = 1 /\ E[1] = c
    BY <2>1, <2>2
  <2>4. ASSUME NEW n \in L PROVE OnceIn(E, n)
    <3>1. ASSUME NEW x \in 1..doc[n].size PROVE Has(c, n, x)
      <4>1. PICK y \in Int : /\ 1 <= y /\ y <= TextLength(bs)
                             /\ \A d : d.blocks = bs => (Has(d, n, x) <=> Covers(d.part, y))
        BY <1>6
      <4>2. Covers(whole, y)
        BY <1>4, <4>1 DEF Covers
      <4> QED BY <2>2, <4>1, <4>2
    <3>2. 1..Len(E) = {1}
      BY <2>3
    <3> QED BY <2>3, <3>1, <3>2 DEF OnceIn
  <2>5. \A k \in 1..Len(E) : E[k] = c
    BY <2>3
  <2>6. \A i, j \in 1..Len(E) : ~(i < j)
    BY <2>3
  <2>7. c.part.size <= MaxChars \/ Lone(bs)
    BY <1>7, <2>2
  <2>8. ~(c.part.size < TextLength(bs))
    BY <1>2, <1>4, <2>2
  <2>9. \A n, x : Has(c, n, x) => n \in L
    BY <1>6, <2>2
  <2> QED BY <2>2, <2>3, <2>4, <2>5, <2>6, <2>7, <2>8, <2>9 DEF Emission, L, E
<1>8. CASE ~(whole.size <= MaxChars \/ Lone(bs))
  <2>1. Dense(q) /\ Len(q) \in Nat \ {0}
    BY <1>8, PiecesDense, DenseIs DEF q
  <2>2. Parts(S, q, q[Len(q)].to) /\ Len(S) > 0
    BY <2>1, SplitIs DEF S
  <2>3. S \in Seq(Span) /\ Len(S) \in Nat \ {0} /\ DOMAIN S = 1..Len(S) /\ \A k \in 1..Len(S) : S[k] \in Span
    <3>1. S \in Seq(Span)
      BY <2>2 DEF Parts
    <3> QED BY <2>2, <3>1, LenProperties, ElementOfSeq
  <2>4. E = [k \in 1..Len(S) |-> ChunkOf(bs, p, S[k])]
    BY <1>8, <2>3 DEF Emit, Lone, whole, S, q
  <2>5. \A k \in 1..Len(S) : LET c == ChunkOf(bs, p, S[k]) IN
        c \in ChunkRecord /\ c.blocks = bs /\ c.path = p /\ c.pages = Pages(bs) /\ c.part = S[k]
    BY <1>5, <2>3
  <2> HIDE DEF E
  <2>6. E \in Seq(ChunkRecord) /\ Len(E) = Len(S) /\ \A k \in 1..Len(S) : E[k] = ChunkOf(bs, p, S[k])
    BY <2>3, <2>4, <2>5, IsASeq
  <2>7. \A k \in 1..Len(E) : /\ E[k].blocks = bs /\ E[k].path = p /\ E[k].pages = Pages(bs) /\ E[k].part = S[k]
    BY <2>5, <2>6
  <2>8. /\ \A i \in 1..Len(S) : S[i].size <= MaxChars
        /\ \A i, j \in 1..Len(S) : i < j => S[i].to < S[j].from
        /\ \A y \in Int : Stands(q, y) /\ y <= q[Len(q)].to => \E i \in 1..Len(S) : Covers(S[i], y)
    BY <2>2 DEF Parts
  <2>9. TextLength(bs) > MaxChars
    BY <1>2, <1>4, <1>8, ChunkingAssumption
  <2>10. \A i \in 1..Len(S) : S[i].from \in Int /\ S[i].to \in Int
    BY <2>3 DEF Span
  <2>11. ASSUME NEW y \in Int, Stands(q, y)
         PROVE  \E k \in 1..Len(S) : Covers(S[k], y) /\ \A j \in 1..Len(S) : Covers(S[j], y) => j = k
    <3>1. PICK i \in 1..Len(q) : q[i].from <= y /\ y <= q[i].to
      BY <2>11 DEF Stands, Covers
    <3>2. Len(q) \in 1..Len(q)
      BY <2>1
    <3>3. q[i].from <= q[Len(q)].to /\ q[i].to <= q[Len(q)].to /\ q[Len(q)].to \in Int /\ q[i].to \in Int
      <4>1. i = Len(q) \/ i < Len(q)
        BY <2>1
      <4>2. i < Len(q) => q[i].to < q[Len(q)].from
        BY <2>1, <3>2 DEF Dense
      <4>3. \A j \in 1..Len(q) : q[j].from \in Int /\ q[j].to \in Int /\ q[j].from <= q[j].to
        BY <2>1, DenseIs
      <4>4. q[i].from \in Int /\ q[i].to \in Int /\ q[i].from <= q[i].to
        BY <4>3
      <4>5. q[Len(q)].from \in Int /\ q[Len(q)].to \in Int /\ q[Len(q)].from <= q[Len(q)].to
        BY <3>2, <4>3
      <4> QED BY <4>1, <4>2, <4>4, <4>5
    <3>4. PICK k \in 1..Len(S) : Covers(S[k], y)
      BY <2>8, <2>11, <3>1, <3>3
    <3>5. ASSUME NEW j \in 1..Len(S), Covers(S[j], y) PROVE j = k
      <4>1. /\ S[j].from <= y /\ y <= S[j].to /\ S[k].from <= y /\ y <= S[k].to
        BY <3>4, <3>5 DEF Covers
      <4>2. S[j].from \in Int /\ S[j].to \in Int /\ S[k].from \in Int /\ S[k].to \in Int
        BY <2>10
      <4>3. (j < k => S[j].to < S[k].from) /\ (k < j => S[k].to < S[j].from)
        BY <2>8
      <4>4. j < k \/ j = k \/ k < j
        BY <2>3
      <4> QED BY <4>1, <4>2, <4>3, <4>4
    <3> QED BY <3>4, <3>5
  <2>12. ASSUME NEW n \in L PROVE OnceIn(E, n)
    <3>1. ASSUME NEW x \in 1..doc[n].size
          PROVE  \E k \in 1..Len(E) : Has(E[k], n, x) /\ \A j \in 1..Len(E) : Has(E[j], n, x) => j = k
      <4>1. PICK y \in Int : /\ Stands(q, y)
                             /\ \A d : d.blocks = bs => (Has(d, n, x) <=> Covers(d.part, y))
        BY <1>6
      <4>2. \A k \in 1..Len(E) : Has(E[k], n, x) <=> Covers(S[k], y)
        BY <2>7, <4>1
      <4> QED BY <2>6, <2>11, <4>1, <4>2
    <3> QED BY <3>1 DEF OnceIn
  <2>13. \A k \in 1..Len(E) : \A n, x : Has(E[k], n, x) => n \in L
    BY <1>6, <2>7
  <2>14. /\ \A k \in 1..Len(E) : E[k].part.size <= MaxChars
         /\ \A i, j \in 1..Len(E) : i < j => E[i].part.to < E[j].part.from
    BY <2>6, <2>7, <2>8
  <2>15. ASSUME NEW k \in 1..Len(E)
         PROVE  /\ E[k].blocks = bs /\ E[k].path = p /\ E[k].pages = Pages(bs)
                /\ E[k].part.size <= MaxChars \/ Lone(bs)
                /\ E[k].part.size < TextLength(bs) => TextLength(bs) > MaxChars
                /\ \A n, x : Has(E[k], n, x) => n \in L
    BY <2>7, <2>9, <2>13, <2>14
  <2>16. E \in Seq(ChunkRecord) /\ Len(E) > 0
    BY <2>3, <2>6
  <2>17. \A n \in L : OnceIn(E, n)
    BY <2>12
  <2> QED BY <2>14, <2>15, <2>16, <2>17 DEF Emission, L, E
<1> QED BY <1>7, <1>8

-----------------------------------------------------------------------------
(* The chunker.  Ready is what it may rely on of the blocks of a document. *)
BodyBlock(b) == Type(b) \notin {"heading", "page_break"}

Ready ==
  /\ Written /\ Laid /\ Paged /\ DOMAIN parsed = Blocks /\ Len(parsed) \in Nat
  /\ \A b \in Blocks :
       /\ Type(b) \in {"paragraph", "list", "table", "code", "heading", "page_break"}
       /\ Type(b) # "code" => Solid(b)
       /\ Type(b) = "heading" =>
            Level(b) \in Nat \ {0} /\ \A n \in LinesOf(b) : doc[n].kind = "heading"
       /\ Type(b) = "page_break" => \A n \in LinesOf(b) : doc[n].kind = "page"
       /\ BodyBlock(b) => LinesOf(b) \cap Body # {}
       /\ Type(b) # "code" /\ format # "docx" => \A n \in LinesOf(b) : PageOf(n) = parsed[b].page
  /\ \A n \in Nums : doc[n].kind # "blank" => \E b \in Blocks : n \in LinesOf(b)

Increasing(list) == \A i, j \in 1..Len(list) : i < j => list[i] < list[j]

\* The path of the chunker is that of block a: each of its headings is one level below the last.
PathIs(a, p) ==
  /\ p \in Seq(Int) /\ \A i \in 1..Len(p) : p[i] \in 1..(a - 1) /\ IsHeading(p[i])
  /\ NoneSkipped(a) => /\ Members(p) = Above(a) /\ Increasing(p)
                       /\ \A i \in 1..Len(p) : Level(p[i]) = i

\* The headings above the next block, when no heading is in between.
LEMMA AboveGrows ==
  ASSUME Ready, NEW b \in Blocks
  PROVE  /\ NoneSkipped(b + 1) => NoneSkipped(b)
         /\ ~IsHeading(b) => Above(b + 1) = Above(b)
         /\ IsHeading(b) => /\ Above(b + 1) = {h \in Above(b) : Level(h) < Level(b)} \cup {b}
                            /\ NoneSkipped(b + 1) => Level(b) <= Cardinality(Parents(b)) + 1
<1>1. b \in Int /\ b \in 1..(b + 1 - 1) /\ 1..(b + 1 - 1) = 1..(b - 1) \cup {b}
  BY DEF Blocks
<1>2. \A h : IsHeading(h) => Level(h) \in Nat
  <2>1. ASSUME NEW h, IsHeading(h) PROVE Level(h) \in Nat
    <3>1. h \in Blocks /\ Type(h) = "heading"
      BY <2>1 DEF IsHeading, Ready
    <3> QED BY <3>1 DEF Ready
  <2> QED BY <2>1
<1>3. NoneSkipped(b + 1) => NoneSkipped(b) /\ (IsHeading(b) => Level(b) <= Cardinality(Parents(b)) + 1)
  <2>1. ASSUME NoneSkipped(b + 1) PROVE \A h \in 1..(b - 1) \cup {b} : IsHeading(h) => Level(h) <= Cardinality(Parents(h)) + 1
    BY <1>1, <2>1 DEF NoneSkipped
  <2> QED BY <2>1 DEF NoneSkipped
<1>4. ASSUME ~IsHeading(b) PROVE Above(b + 1) = Above(b)
  <2>1. \A h \in 1..(b - 1) : (h + 1)..(b + 1 - 1) = (h + 1)..(b - 1) \cup {b}
    BY <1>1
  <2> QED BY <1>1, <1>4, <2>1 DEF Above
<1>5. ASSUME IsHeading(b) PROVE Above(b + 1) = {h \in Above(b) : Level(h) < Level(b)} \cup {b}
  <2>1. \A h \in 1..(b - 1) : (h + 1)..(b + 1 - 1) = (h + 1)..(b - 1) \cup {b}
    BY <1>1
  <2>2. (b + 1)..(b + 1 - 1) = {}
    BY <1>1
  <2>3. Level(b) \in Nat
    BY <1>2, <1>5
  <2>4. ASSUME NEW h \in 1..(b - 1)
        PROVE  h \in Above(b + 1) <=> h \in Above(b) /\ Level(h) < Level(b)
    BY <1>1, <1>2, <1>5, <2>1, <2>3, <2>4 DEF Above
  <2>5. b \in Above(b + 1)
    BY <1>1, <1>5, <2>2 DEF Above
  <2>6. Above(b) \subseteq 1..(b - 1) /\ Above(b + 1) \subseteq 1..(b - 1) \cup {b}
    BY <1>1 DEF Above
  <2> QED BY <2>4, <2>5, <2>6
<1> QED BY <1>3, <1>4, <1>5

\* A block that is no heading leaves the path as it is.
LEMMA PathStays ==
  ASSUME Ready, NEW a \in Blocks, ~IsHeading(a), NEW p, PathIs(a, p)
  PROVE  PathIs(a + 1, p)
<1> DEFINE b == a + 1
<1>1. 1..(a - 1) \subseteq 1..(b - 1)
  BY DEF Blocks
<1>2. Above(b) = Above(a) /\ (NoneSkipped(b) => NoneSkipped(a))
  BY AboveGrows
<1> HIDE DEF b
<1>3. PathIs(b, p)
  BY <1>1, <1>2 DEF PathIs
<1> QED BY <1>3 DEF b

\* _updated_heading_path keeps the path the headings above the next block.
LEMMA UnderIs ==
  ASSUME Ready, NEW a \in Blocks, IsHeading(a), NEW p, PathIs(a, p)
  PROVE  PathIs(a + 1, Under(p, a))
<1> DEFINE m == IF Level(a) - 1 < Len(p) THEN Level(a) - 1 ELSE Len(p)
           s == SubSeq(p, 1, m)
           r == Under(p, a)
<1>1. Level(a) \in Nat \ {0} /\ a \in Int
  BY DEF IsHeading, Ready, Blocks
<1>2. p \in Seq(Int) /\ Len(p) \in Nat /\ \A i \in 1..Len(p) : p[i] \in 1..(a - 1) /\ IsHeading(p[i])
  BY LenProperties DEF PathIs
<1>3. m \in 0..Len(p) /\ m <= Level(a) - 1 /\ (m < Level(a) - 1 => m = Len(p))
  BY <1>1, <1>2
<1> HIDE DEF m
<1>4. s \in Seq(Int) /\ Len(s) = m /\ \A i \in 1..m : s[i] = p[i]
  <2>1. /\ s \in Seq(Int) /\ Len(s) = IF 1 <= m THEN m - 1 + 1 ELSE 0
        /\ \A i \in 1..(m - 1 + 1) : s[i] = p[1 + i - 1]
    BY <1>2, <1>3, SubSeqProperties
  <2> QED BY <1>2, <1>3, <2>1
<1>5. r = Append(s, a)
  BY DEF Under, m
<1> HIDE DEF s, r
<1>6. r \in Seq(Int) /\ Len(r) = m + 1 /\ r[m + 1] = a /\ \A i \in 1..m : r[i] = p[i]
  BY <1>1, <1>4, <1>5, AppendProperties
<1>7. \A i \in 1..Len(r) : i = m + 1 \/ i \in 1..m
  BY <1>3, <1>6
<1>8. \A i \in 1..m : i \in 1..Len(p)
  BY <1>2, <1>3
<1>9. \A i \in 1..Len(r) : r[i] \in 1..(a + 1 - 1) /\ IsHeading(r[i])
  <2>1. a \in 1..(a + 1 - 1) /\ 1..(a - 1) \subseteq 1..(a + 1 - 1)
    BY <1>1 DEF Blocks
  <2> QED BY <1>2, <1>6, <1>7, <1>8, <2>1
<1>10. ASSUME NoneSkipped(a + 1)
       PROVE  /\ Members(r) = Above(a + 1) /\ Increasing(r)
              /\ \A i \in 1..Len(r) : Level(r[i]) = i
  <2>1. /\ NoneSkipped(a) /\ Above(a + 1) = {h \in Above(a) : Level(h) < Level(a)} \cup {a}
        /\ Level(a) <= Cardinality(Parents(a)) + 1
    BY <1>10, AboveGrows
  <2>2. Members(p) = Above(a) /\ Increasing(p) /\ \A i \in 1..Len(p) : Level(p[i]) = i
    BY <2>1 DEF PathIs
  <2>3. Cardinality(Parents(a)) <= Len(p) /\ Cardinality(Parents(a)) \in Nat
    <3>1. Parents(a) \subseteq Members(p)
      BY <2>2 DEF Parents
    <3>2. IsFiniteSet(1..Len(p)) /\ Cardinality(1..Len(p)) = Len(p)
      BY <1>2, Interval
    <3>3. IsFiniteSet(Members(p)) /\ Cardinality(Members(p)) <= Cardinality(1..Len(p))
      <4> DEFINE f == [i \in 1..Len(p) |-> p[i]]
      <4>1. f \in Surjection(1..Len(p), Members(p))
        BY DEF Surjection, Members
      <4> QED BY <3>2, <4>1, FS_Surjection
    <3>4. IsFiniteSet(Parents(a)) /\ Cardinality(Parents(a)) <= Cardinality(Members(p))
      BY <3>1, <3>3, FS_Subset
    <3>5. Cardinality(Parents(a)) \in Nat /\ Cardinality(Members(p)) \in Nat
      BY <3>3, <3>4, FS_CardinalityType
    <3> QED BY <1>2, <3>2, <3>3, <3>4, <3>5
  <2>4. m = Level(a) - 1
    <3> HIDE DEF r
    <3>1. Level(a) \in Nat \ {0} /\ Len(p) \in Nat /\ m \in Nat /\ m <= Level(a) - 1 /\ (m < Level(a) - 1 => m = Len(p))
      BY <1>1, <1>2, <1>3
    <3>2. Level(a) <= Len(p) + 1
      BY <2>1, <2>3, <3>1
    <3> QED BY <3>1, <3>2
  <2>5. \A i \in 1..Len(r) : Level(r[i]) = i
    BY <1>1, <1>6, <1>7, <1>8, <2>2, <2>4
  <2>6. Increasing(r)
    <3>1. ASSUME NEW i \in 1..Len(r), NEW j \in 1..Len(r), i < j PROVE r[i] < r[j]
      <4>1. i \in 1..m
        BY <1>3, <1>6, <3>1
      <4>2. CASE j = m + 1
        <5>1. r[i] = p[i] /\ p[i] \in 1..(a - 1)
          BY <1>2, <1>6, <1>8, <4>1
        <5> QED BY <1>1, <1>6, <4>2, <5>1
      <4>3. CASE j \in 1..m
        BY <1>6, <1>8, <2>2, <3>1, <4>1, <4>3 DEF Increasing
      <4> QED BY <1>7, <4>2, <4>3
    <3> QED BY <3>1 DEF Increasing
  <2>7. Members(r) = Above(a + 1)
    <3>1. \A i \in 1..Len(p) : Level(p[i]) < Level(a) <=> i \in 1..m
      BY <1>1, <1>2, <2>2, <2>4
    <3>2. {h \in Above(a) : Level(h) < Level(a)} = {p[i] : i \in 1..m}
      BY <1>8, <2>2, <3>1 DEF Members
    <3>3. 1..Len(r) = 1..m \cup {m + 1}
      BY <1>3, <1>6
    <3>4. Members(r) = {p[i] : i \in 1..m} \cup {a}
      BY <1>6, <3>3 DEF Members
    <3> QED BY <2>1, <3>2, <3>4
  <2> QED BY <2>5, <2>6, <2>7
<1> QED BY <1>6, <1>9, <1>10 DEF PathIs, r

\* What a chunk of body blocks satisfies.
StandsUnder(b, p) == NoneSkipped(b) => Members(p) = Above(b) /\ Increasing(p)
BlockList(bs)     == bs \in Seq(Blocks) /\ Len(bs) > 0 /\ Increasing(bs)

Fine(c) ==
  /\ BlockList(c.blocks) /\ c.pages = Pages(c.blocks)
  /\ \A i \in 1..Len(c.blocks) : BodyBlock(c.blocks[i]) /\ StandsUnder(c.blocks[i], c.path)
  /\ c.part.size <= MaxChars \/ Lone(c.blocks)
  /\ c.part.size < TextLength(c.blocks) => Len(c.blocks) = 1 /\ TextLength(c.blocks) > MaxChars
  /\ \A n, x : Has(c, n, x) => n \in LinesUpto(c.blocks, Len(c.blocks))

Before(c, d) ==
  \/ Last(c.blocks) < d.blocks[1]
  \/ c.blocks = d.blocks /\ c.part.to < d.part.from

\* The body blocks before z are in the chunks C.
Packed(C, z) ==
  /\ C \in Seq(ChunkRecord)
  /\ \A k \in 1..Len(C) : Fine(C[k]) /\ \A i \in 1..Len(C[k].blocks) : C[k].blocks[i] < z
  /\ \A k \in 1..(Len(C) - 1) : Before(C[k], C[k + 1])
  /\ \A b \in Blocks : b < z /\ BodyBlock(b) => \A n \in LinesOf(b) : OnceIn(C, n)

\* Blocks in order are different blocks.
LEMMA IncreasingIs ==
  ASSUME NEW bs \in Seq(Blocks), Increasing(bs) PROVE Injective(bs)
<1>1. \A i \in 1..Len(bs) : bs[i] \in Int
  BY ElementOfSeq, LenProperties DEF Blocks
<1> QED BY <1>1 DEF Increasing, Injective

\* Blocks that are not of the body need no chunk.
LEMMA PackedSkip ==
  ASSUME NEW C, NEW z \in Int, NEW w \in Int, z <= w, Packed(C, z),
         \A b \in Blocks : z <= b /\ b < w => ~BodyBlock(b)
  PROVE  Packed(C, w)
<1>1. ASSUME NEW k \in 1..Len(C), NEW i \in 1..Len(C[k].blocks) PROVE C[k].blocks[i] < w
  <2>1. C[k].blocks[i] < z /\ C[k].blocks \in Seq(Blocks)
    BY DEF Packed, Fine, BlockList
  <2>2. C[k].blocks[i] \in Int
    BY <2>1, ElementOfSeq, LenProperties DEF Blocks
  <2> QED BY <2>1, <2>2
<1>2. ASSUME NEW b \in Blocks, b < w, BodyBlock(b) PROVE b < z
  BY <1>2 DEF Blocks
<1> QED BY <1>1, <1>2 DEF Packed

\* Lines of different blocks are different.
LEMMA OtherLines ==
  ASSUME Laid, NEW bs \in Seq(Blocks), NEW cs \in Seq(Blocks),
         \A i \in 1..Len(bs), j \in 1..Len(cs) : bs[i] # cs[j]
  PROVE  LinesUpto(bs, Len(bs)) \cap LinesUpto(cs, Len(cs)) = {}
<1>1. /\ \A i \in 1..Len(bs) : bs[i] \in Blocks
      /\ \A i \in 1..Len(cs) : cs[i] \in Blocks
  BY ElementOfSeq, LenProperties
<1>2. ASSUME NEW n \in LinesUpto(bs, Len(bs)), n \in LinesUpto(cs, Len(cs)) PROVE FALSE
  <2>1. PICK i \in 1..Len(bs) : n \in LinesOf(bs[i])
    BY DEF LinesUpto
  <2>2. PICK j \in 1..Len(cs) : n \in LinesOf(cs[j])
    BY <1>2 DEF LinesUpto
  <2> QED BY <1>1, <2>1, <2>2 DEF Laid
<1> QED BY <1>2

\* What one of two lists holds and the other does not, their join holds.
LEMMA OnceJoins ==
  ASSUME NEW C \in Seq(ChunkRecord), NEW E \in Seq(ChunkRecord), NEW n
  PROVE  /\ OnceIn(C, n) /\ (\A k \in 1..Len(E) : \A x : ~Has(E[k], n, x)) => OnceIn(C \o E, n)
         /\ OnceIn(E, n) /\ (\A k \in 1..Len(C) : \A x : ~Has(C[k], n, x)) => OnceIn(C \o E, n)
<1> DEFINE J == C \o E
           c == Len(C)
           e == Len(E)
<1>1. /\ c \in Nat /\ e \in Nat /\ Len(J) = c + e
      /\ \A k \in 1..c : J[k] = C[k]
      /\ \A k \in 1..e : J[c + k] = E[k]
  <2>1. c \in Nat /\ e \in Nat
    BY LenProperties
  <2>2. /\ Len(J) = c + e
        /\ \A i \in 1..(c + e) : J[i] = IF i <= c THEN C[i] ELSE E[i - c]
    BY ConcatProperties
  <2>3. \A k \in 1..c : J[k] = C[k]
    BY <2>1, <2>2
  <2>4. \A k \in 1..e : J[c + k] = E[k]
    BY <2>1, <2>2
  <2> QED BY <2>1, <2>2, <2>3, <2>4
<1> HIDE DEF J, c, e
<1>2. \A k \in 1..Len(J) : k \in 1..c \/ (k - c \in 1..e /\ J[k] = E[k - c])
  <2>1. ASSUME NEW k \in 1..Len(J), k \notin 1..c PROVE k - c \in 1..e /\ J[k] = E[k - c]
    <3>1. k - c \in 1..e /\ c + (k - c) = k
      BY <1>1, <2>1
    <3> QED BY <1>1, <3>1
  <2> QED BY <2>1
<1>3. ASSUME OnceIn(C, n), \A k \in 1..e : \A x : ~Has(E[k], n, x) PROVE OnceIn(J, n)
  <2>1. ASSUME NEW x \in 1..doc[n].size
        PROVE  \E k \in 1..Len(J) : Has(J[k], n, x) /\ \A j \in 1..Len(J) : Has(J[j], n, x) => j = k
    <3>1. PICK k \in 1..c : Has(C[k], n, x) /\ \A j \in 1..c : Has(C[j], n, x) => j = k
      BY <1>3 DEF OnceIn, c
    <3>2. k \in 1..Len(J) /\ Has(J[k], n, x)
      BY <1>1, <3>1
    <3>3. ASSUME NEW j \in 1..Len(J), Has(J[j], n, x) PROVE j = k
      BY <1>1, <1>2, <1>3, <3>1, <3>3
    <3> QED BY <3>2, <3>3
  <2> QED BY <2>1 DEF OnceIn
<1>4. ASSUME OnceIn(E, n), \A k \in 1..c : \A x : ~Has(C[k], n, x) PROVE OnceIn(J, n)
  <2>1. ASSUME NEW x \in 1..doc[n].size
        PROVE  \E k \in 1..Len(J) : Has(J[k], n, x) /\ \A j \in 1..Len(J) : Has(J[j], n, x) => j = k
    <3>1. PICK k \in 1..e : Has(E[k], n, x) /\ \A j \in 1..e : Has(E[j], n, x) => j = k
      BY <1>4 DEF OnceIn, e
    <3>2. c + k \in 1..Len(J) /\ Has(J[c + k], n, x)
      BY <1>1, <3>1
    <3>3. ASSUME NEW j \in 1..Len(J), Has(J[j], n, x) PROVE j = c + k
      <4>1. j - c \in 1..e /\ J[j] = E[j - c]
        BY <1>1, <1>2, <1>4, <3>3
      <4>2. j - c = k
        BY <3>1, <3>3, <4>1
      <4> QED BY <1>1, <4>2
    <3> QED BY <3>2, <3>3
  <2> QED BY <2>1 DEF OnceIn
<1> QED BY <1>3, <1>4 DEF J, c, e

\* What is emitted of body blocks is fine.
LEMMA EmissionFine ==
  ASSUME Ready, NEW bs, BlockList(bs), NEW p, NEW E, Emission(E, bs, p),
         \A i \in 1..Len(bs) : BodyBlock(bs[i]) /\ StandsUnder(bs[i], p),
         Len(bs) = 1 \/ TextLength(bs) <= MaxChars
  PROVE  \A k \in 1..Len(E) : Fine(E[k])
<1>1. TextLength(bs) \in Int
  BY TextLengthIs DEF Ready, BlockList
<1>2. TextLength(bs) > MaxChars => Len(bs) = 1
  BY <1>1, ChunkingAssumption
<1>3. ASSUME NEW k \in 1..Len(E) PROVE Fine(E[k])
  <2>1. /\ E[k].blocks = bs /\ E[k].path = p /\ E[k].pages = Pages(bs)
        /\ E[k].part.size <= MaxChars \/ Lone(bs)
        /\ E[k].part.size < TextLength(bs) => TextLength(bs) > MaxChars
        /\ \A n, x : Has(E[k], n, x) => n \in LinesUpto(bs, Len(bs))
    BY DEF Emission
  <2> QED BY <1>2, <2>1 DEF Fine
<1> QED BY <1>3

\* Emitting the next body blocks packs them too.
LEMMA PackedEmit ==
  ASSUME Ready, NEW bs, BlockList(bs), NEW p, NEW E, Emission(E, bs, p),
         \A i \in 1..Len(bs) : BodyBlock(bs[i]) /\ StandsUnder(bs[i], p),
         Len(bs) = 1 \/ TextLength(bs) <= MaxChars,
         NEW C, NEW z \in Int, NEW w \in Int, z <= w, Packed(C, z),
         \A i \in 1..Len(bs) : z <= bs[i] /\ bs[i] < w,
         \A b \in Blocks : z <= b /\ b < w /\ BodyBlock(b) => b \in Members(bs)
  PROVE  Packed(C \o E, w) /\ Len(C \o E) > 0
<1> DEFINE J == C \o E
           c == Len(C)
           e == Len(E)
<1>1. C \in Seq(ChunkRecord) /\ E \in Seq(ChunkRecord) /\ c \in Nat /\ e \in Nat /\ e > 0
  BY LenProperties DEF Packed, Emission
<1>2. /\ J \in Seq(ChunkRecord) /\ Len(J) = c + e
      /\ \A k \in 1..c : J[k] = C[k]
      /\ \A k \in 1..e : J[c + k] = E[k]
  <2>1. /\ J \in Seq(ChunkRecord) /\ Len(J) = c + e
        /\ \A i \in 1..(c + e) : J[i] = IF i <= c THEN C[i] ELSE E[i - c]
    BY <1>1, ConcatProperties
  <2>2. \A k \in 1..c : J[k] = C[k]
    BY <1>1, <2>1
  <2>3. \A k \in 1..e : J[c + k] = E[k]
    BY <1>1, <2>1
  <2> QED BY <2>1, <2>2, <2>3
<1>3. \A k \in 1..e : Fine(E[k]) /\ E[k].blocks = bs
  BY EmissionFine DEF Emission
<1>4. /\ \A k \in 1..c : Fine(C[k]) /\ \A i \in 1..Len(C[k].blocks) : C[k].blocks[i] < z
      /\ \A k \in 1..(c - 1) : Before(C[k], C[k + 1])
      /\ \A b \in Blocks : b < z /\ BodyBlock(b) => \A n \in LinesOf(b) : OnceIn(C, n)
  BY DEF Packed
<1>5. bs \in Seq(Blocks) /\ Len(bs) \in Nat \ {0} /\ \A i \in 1..Len(bs) : bs[i] \in Int /\ bs[i] \in Blocks
  BY ElementOfSeq, LenProperties DEF BlockList, Blocks
<1>6. \A k \in 1..c : /\ C[k].blocks \in Seq(Blocks) /\ Len(C[k].blocks) \in Nat \ {0}
                      /\ \A i \in 1..Len(C[k].blocks) : C[k].blocks[i] \in Int
  <2>1. ASSUME NEW k \in 1..c
        PROVE  /\ C[k].blocks \in Seq(Blocks) /\ Len(C[k].blocks) \in Nat \ {0}
               /\ \A i \in 1..Len(C[k].blocks) : C[k].blocks[i] \in Int
    <3>1. C[k].blocks \in Seq(Blocks) /\ Len(C[k].blocks) > 0
      BY <1>4 DEF Fine, BlockList
    <3> QED BY <3>1, ElementOfSeq, LenProperties DEF Blocks
  <2> QED BY <2>1
<1>7. \A k \in 1..c : \A i \in 1..Len(C[k].blocks) : C[k].blocks[i] < z /\ C[k].blocks[i] < w
  BY <1>4, <1>6
<1> HIDE DEF J, c, e
<1>8. ASSUME NEW k \in 1..Len(J)
      PROVE  (k \in 1..c /\ J[k] = C[k]) \/ (k - c \in 1..e /\ J[k] = E[k - c])
  <2>1. CASE k \in 1..c
    BY <1>2, <2>1
  <2>2. CASE k \notin 1..c
    <3>1. k - c \in 1..e /\ c + (k - c) = k
      BY <1>1, <1>2, <2>2
    <3> QED BY <1>2, <3>1
  <2> QED BY <2>1, <2>2
<1>9. \A k \in 1..Len(J) : Fine(J[k]) /\ \A i \in 1..Len(J[k].blocks) : J[k].blocks[i] < w
  BY <1>3, <1>4, <1>7, <1>8
<1>10. ASSUME NEW k \in 1..(Len(J) - 1) PROVE Before(J[k], J[k + 1])
  <2>1. CASE k \in 1..(c - 1)
    <3>1. k \in 1..c /\ k + 1 \in 1..c
      BY <1>1, <2>1
    <3> QED BY <1>2, <1>4, <2>1, <3>1
  <2>2. CASE k = c
    <3>1. c \in 1..c /\ 1 \in 1..e /\ k + 1 = c + 1
      BY <1>1, <2>2
    <3>2. J[k] = C[c] /\ J[k + 1] = E[1] /\ E[1].blocks = bs
      BY <1>2, <1>3, <2>2, <3>1
    <3>3. Len(C[c].blocks) \in 1..Len(C[c].blocks) /\ 1 \in 1..Len(bs)
      BY <1>5, <1>6, <3>1
    <3>4. C[c].blocks[Len(C[c].blocks)] < z /\ C[c].blocks[Len(C[c].blocks)] \in Int /\ z <= bs[1] /\ bs[1] \in Int
      BY <1>5, <1>6, <1>7, <3>1, <3>3
    <3>5. Last(C[c].blocks) < bs[1]
      BY <3>4 DEF Last
    <3> QED BY <3>2, <3>5 DEF Before
  <2>3. CASE k > c
    <3>1. k - c \in 1..e /\ k - c + 1 \in 1..e /\ c + (k - c) = k /\ c + (k - c + 1) = k + 1 /\ k - c < k - c + 1
      BY <1>1, <1>2, <2>3
    <3>2. J[k] = E[k - c] /\ J[k + 1] = E[k - c + 1]
      BY <1>2, <3>1
    <3>3. E[k - c].part.to < E[k - c + 1].part.from
      BY <3>1 DEF Emission, e
    <3> QED BY <1>3, <3>1, <3>2, <3>3 DEF Before
  <2> QED BY <1>1, <1>2, <2>1, <2>2, <2>3
<1>11. ASSUME NEW b \in Blocks, b < w, BodyBlock(b), NEW n \in LinesOf(b) PROVE OnceIn(J, n)
  <2>1. CASE b < z
    <3>1. OnceIn(C, n)
      BY <1>4, <1>11, <2>1
    <3>2. \A i \in 1..Len(bs) : b # bs[i]
      BY <1>5, <2>1 DEF Blocks
    <3>3. n \notin LinesUpto(bs, Len(bs))
      BY <1>5, <1>11, <3>2 DEF LinesUpto, Laid, Ready
    <3>4. \A k \in 1..e : \A x : ~Has(E[k], n, x)
      BY <1>3, <3>3 DEF Fine
    <3> QED BY <1>1, <3>1, <3>4, OnceJoins DEF J, e
  <2>2. CASE ~(b < z)
    <3>1. PICK i \in 1..Len(bs) : bs[i] = b
      <4>1. z <= b
        BY <2>2 DEF Blocks
      <4> QED BY <1>11, <4>1 DEF Members
    <3>2. n \in LinesUpto(bs, Len(bs))
      BY <1>11, <3>1 DEF LinesUpto
    <3>3. OnceIn(E, n)
      BY <3>2 DEF Emission
    <3>4. ASSUME NEW k \in 1..c, NEW x, Has(C[k], n, x) PROVE FALSE
      <4>1. n \in LinesUpto(C[k].blocks, Len(C[k].blocks))
        BY <1>4, <3>4 DEF Fine
      <4>2. ASSUME NEW h \in 1..Len(C[k].blocks), NEW j \in 1..Len(bs) PROVE C[k].blocks[h] # bs[j]
        <5>1. C[k].blocks[h] < z /\ C[k].blocks[h] \in Int
          BY <1>6, <1>7
        <5>2. z <= bs[j] /\ bs[j] \in Int
          BY <1>5
        <5> QED BY <5>1, <5>2
      <4>3. C[k].blocks \in Seq(Blocks)
        BY <1>6
      <4>4. LinesUpto(C[k].blocks, Len(C[k].blocks)) \cap LinesUpto(bs, Len(bs)) = {}
        BY <1>5, <4>2, <4>3, OtherLines DEF Ready
      <4> QED BY <3>2, <4>1, <4>4
    <3> QED BY <1>1, <3>3, <3>4, OnceJoins DEF J, c
  <2> QED BY <2>1, <2>2
<1>12. Packed(J, w)
  BY <1>2, <1>9, <1>10, <1>11 DEF Packed
<1>13. Len(J) > 0
  BY <1>1, <1>2
<1> QED BY <1>12, <1>13 DEF J

\* The blocks q wait under the headings p, when block a is next.
Waiting(a, p, q) ==
  /\ q \in Seq(Blocks) /\ Increasing(q)
  /\ \A i \in 1..Len(q) : q[i] < a /\ Type(q[i]) \in {"paragraph", "list"} /\ StandsUnder(q[i], p)
  /\ Len(q) > 1 => TextLength(q) <= MaxChars
  /\ \A b \in Blocks : q # <<>> /\ q[1] <= b /\ b < a /\ BodyBlock(b) => b \in Members(q)

Met(a, h) ==
  h \in Seq(Blocks) /\ Increasing(h) /\ Members(h) = {b \in Blocks : b < a /\ IsHeading(b)}

Chunked(a, p, q, h, C) ==
  /\ a \in 1..(Len(parsed) + 1) /\ PathIs(a, p) /\ Waiting(a, p, q) /\ Met(a, h)
  /\ Packed(C, IF q = <<>> THEN a ELSE q[1])

\* Emitting what waits packs all blocks before the next one.
LEMMA PendingPacked ==
  ASSUME Ready, NEW a, NEW h, Chunked(a, path, pending, h, chunks)
  PROVE  Packed(EmitPending, a) /\ (pending # <<>> => Len(EmitPending) > 0)
<1> DEFINE q == pending
<1>1. CASE q = <<>>
  BY <1>1 DEF Chunked, EmitPending
<1>2. CASE q # <<>>
  <2>1. /\ q \in Seq(Blocks) /\ Increasing(q) /\ Packed(chunks, q[1]) /\ path \in Seq(Int) /\ a \in Int
        /\ \A i \in 1..Len(q) : q[i] < a /\ Type(q[i]) \in {"paragraph", "list"} /\ StandsUnder(q[i], path)
        /\ Len(q) > 1 => TextLength(q) <= MaxChars
        /\ \A b \in Blocks : q[1] <= b /\ b < a /\ BodyBlock(b) => b \in Members(q)
    BY <1>2 DEF Chunked, Waiting, PathIs
  <2>2. Len(q) \in Nat \ {0} /\ \A i \in 1..Len(q) : q[i] \in Blocks /\ q[i] \in Int
    BY <1>2, <2>1, EmptySeq, LenProperties, ElementOfSeq DEF Blocks
  <2>3. Injective(q) /\ BlockList(q)
    BY <2>1, <2>2, IncreasingIs DEF BlockList
  <2>4. \A i \in 1..Len(q) : Solid(q[i])
    BY <2>1, <2>2 DEF Ready
  <2>5. Emission(Emit(q, path), q, path)
    BY <1>2, <2>1, <2>3, <2>4, EmitIs DEF Ready
  <2>6. 1 \in 1..Len(q) /\ q[1] \in Int /\ q[1] <= a
    BY <2>1, <2>2
  <2>7. ASSUME NEW i \in 1..Len(q) PROVE q[1] <= q[i] /\ q[i] < a
    <3>1. i = 1 \/ 1 < i
      BY <2>2
    <3>2. 1 < i => q[1] < q[i]
      BY <2>1, <2>6 DEF Increasing
    <3> QED BY <2>1, <2>2, <2>6, <3>1, <3>2
  <2>8. Len(q) = 1 \/ TextLength(q) <= MaxChars
    <3>1. Len(q) = 1 \/ Len(q) > 1
      BY <2>2
    <3> QED BY <2>1, <3>1
  <2>9. \A i \in 1..Len(q) : BodyBlock(q[i]) /\ StandsUnder(q[i], path)
    BY <2>1 DEF BodyBlock
  <2>10. Packed(chunks \o Emit(q, path), a) /\ Len(chunks \o Emit(q, path)) > 0
    BY <2>1, <2>3, <2>5, <2>6, <2>7, <2>8, <2>9, PackedEmit
  <2> QED BY <1>2, <2>10 DEF EmitPending
<1> QED BY <1>1, <1>2

\* A block that is no heading is not met as one.
LEMMA MetStays ==
  ASSUME Ready, NEW a \in Blocks, ~IsHeading(a), NEW h, Met(a, h)
  PROVE  Met(a + 1, h)
<1>1. \A b \in Blocks : b < a + 1 <=> b < a \/ b = a
  BY DEF Blocks
<1> QED BY <1>1 DEF Met

\* A heading that is taken has been met.
LEMMA MetGrows ==
  ASSUME Ready, NEW a \in Blocks, IsHeading(a), NEW h, Met(a, h)
  PROVE  Met(a + 1, Append(h, a))
<1> DEFINE r == Append(h, a)
<1>1. h \in Seq(Blocks) /\ Increasing(h) /\ Members(h) = {b \in Blocks : b < a /\ IsHeading(b)} /\ Len(h) \in Nat
  BY LenProperties DEF Met
<1>2. r \in Seq(Blocks) /\ Len(r) = Len(h) + 1 /\ r[Len(h) + 1] = a /\ \A i \in 1..Len(h) : r[i] = h[i]
  BY <1>1, AppendProperties
<1> HIDE DEF r
<1>3. \A b \in Blocks : b < a + 1 <=> b < a \/ b = a
  BY DEF Blocks
<1>4. 1..Len(r) = 1..Len(h) \cup {Len(h) + 1}
  BY <1>1, <1>2
<1>5. \A i \in 1..Len(h) : h[i] < a
  BY <1>1 DEF Members
<1>6. Increasing(r)
  <2>1. ASSUME NEW i \in 1..Len(r), NEW j \in 1..Len(r), i < j PROVE r[i] < r[j]
    <3>1. i \in 1..Len(h)
      BY <1>1, <1>2, <2>1
    <3>2. j \in 1..Len(h) \/ j = Len(h) + 1
      BY <1>4
    <3> QED BY <1>1, <1>2, <1>5, <2>1, <3>1, <3>2 DEF Increasing
  <2> QED BY <2>1 DEF Increasing
<1>7. Members(r) = Members(h) \cup {a}
  BY <1>2, <1>4 DEF Members
<1> QED BY <1>1, <1>2, <1>3, <1>6, <1>7 DEF Met, r

\* Nothing waits after a chunk was emitted.
LEMMA EmptyWaits ==
  ASSUME NEW a, NEW p PROVE Waiting(a, p, <<>>)
<1>1. <<>> \in Seq(Blocks) /\ Len(<<>>) = 0 /\ 1..Len(<<>>) = {}
  BY EmptySeq
<1> QED BY <1>1 DEF Waiting, Increasing

\* A page mark changes nothing.
LEMMA StepBreak ==
  ASSUME Ready, NEW a \in Blocks, Type(a) = "page_break", NEW p, NEW q, NEW h, NEW C, Chunked(a, p, q, h, C)
  PROVE  Chunked(a + 1, p, q, h, C)
<1>1. ~IsHeading(a) /\ ~BodyBlock(a) /\ a \in Int /\ a + 1 \in 1..(Len(parsed) + 1)
  BY DEF IsHeading, BodyBlock, Blocks, Ready
<1>2. PathIs(a + 1, p) /\ Met(a + 1, h)
  BY <1>1, PathStays, MetStays DEF Chunked
<1>3. \A b \in Blocks : b < a + 1 <=> b < a \/ b = a
  BY DEF Blocks
<1>4. Waiting(a, p, q)
  BY DEF Chunked
<1>5. Waiting(a + 1, p, q)
  <2>1. q \in Seq(Blocks) /\ \A i \in 1..Len(q) : q[i] \in Blocks
    BY <1>4, ElementOfSeq, LenProperties DEF Waiting
  <2>2. \A i \in 1..Len(q) : q[i] < a + 1
    BY <1>3, <1>4, <2>1 DEF Waiting
  <2> QED BY <1>1, <1>3, <1>4, <2>2 DEF Waiting
<1>6. q = <<>> => Packed(C, a + 1)
  <2>1. q = <<>> => Packed(C, a)
    BY DEF Chunked
  <2>2. \A b \in Blocks : a <= b /\ b < a + 1 => b = a
    BY <1>1 DEF Blocks
  <2> QED BY <1>1, <2>1, <2>2, PackedSkip
<1>7. q # <<>> => Packed(C, q[1])
  BY DEF Chunked
<1> QED BY <1>1, <1>2, <1>5, <1>6, <1>7 DEF Chunked

\* A heading closes the chunk and becomes the end of the path.
LEMMA StepHeading ==
  ASSUME Ready, at \in Blocks, Type(at) = "heading", Chunked(at, path, pending, headings, chunks)
  PROVE  Chunked(at + 1, Under(path, at), <<>>, Append(headings, at), EmitPending)
<1>1. DOMAIN parsed = Blocks /\ Len(parsed) \in Nat
  BY DEF Ready
<1>2. IsHeading(at) /\ ~BodyBlock(at) /\ at \in Int /\ at + 1 \in 1..(Len(parsed) + 1)
  BY <1>1 DEF IsHeading, BodyBlock, Blocks
<1>3. PathIs(at + 1, Under(path, at)) /\ Met(at + 1, Append(headings, at))
  BY <1>2, UnderIs, MetGrows DEF Chunked
<1>4. Packed(EmitPending, at)
  BY PendingPacked
<1>5. \A b \in Blocks : at <= b /\ b < at + 1 => b = at
  BY <1>2 DEF Blocks
<1>6. at \in Int /\ at + 1 \in Int /\ at <= at + 1
  BY <1>2
<1>7. Packed(EmitPending, at + 1)
  BY <1>2, <1>4, <1>5, <1>6, PackedSkip
<1> QED BY <1>2, <1>3, <1>7, EmptyWaits DEF Chunked

\* One block is a list of blocks.
LEMMA SingleIs ==
  ASSUME NEW b \in Blocks
  PROVE  /\ <<b>> \in Seq(Blocks) /\ Len(<<b>>) = 1 /\ <<b>>[1] = b /\ <<b>> # <<>>
         /\ Increasing(<<b>>) /\ BlockList(<<b>>) /\ Members(<<b>>) = {b}
<1>1. <<b>> \in Seq(Blocks) /\ Len(<<b>>) = 1 /\ <<b>>[1] = b /\ <<b>> # <<>>
  OBVIOUS
<1>2. 1..Len(<<b>>) = {1}
  BY <1>1
<1> QED BY <1>1, <1>2 DEF Increasing, BlockList, Members

\* A table or code block is a chunk of its own.
LEMMA StepAtomic ==
  ASSUME Ready, at \in Blocks, Atomic(at), Chunked(at, path, pending, headings, chunks)
  PROVE  Chunked(at + 1, path, <<>>, headings, EmitPending \o Emit(<<at>>, path))
<1>1. DOMAIN parsed = Blocks /\ Len(parsed) \in Nat
  BY DEF Ready
<1>2. ~IsHeading(at) /\ at \in Int /\ at + 1 \in 1..(Len(parsed) + 1)
  BY <1>1 DEF IsHeading, Atomic, Blocks
<1>3. PathIs(at + 1, path) /\ Met(at + 1, headings) /\ path \in Seq(Int)
  BY <1>2, PathStays, MetStays DEF Chunked, PathIs
<1>4. Packed(EmitPending, at)
  BY PendingPacked
<1> DEFINE bs == <<at>>
<1>5. bs \in Seq(Blocks) /\ Len(bs) = 1 /\ bs[1] = at /\ bs # <<>> /\ Increasing(bs) /\ BlockList(bs) /\ Members(bs) = {at}
  BY SingleIs
<1> HIDE DEF bs
<1>6. Lone(bs)
  BY <1>5 DEF Lone
<1>7. Emission(Emit(bs, path), bs, path)
  BY <1>3, <1>5, <1>6, IncreasingIs, EmitIs DEF Ready
<1>8. StandsUnder(at, path)
  BY DEF StandsUnder, Chunked, PathIs
<1>9. \A i \in 1..Len(bs) : bs[i] = at
  BY <1>5
<1>10. at \in Int /\ at + 1 \in Int /\ at <= at + 1 /\ at < at + 1 /\ at <= at
  BY <1>2
<1>11. \A b \in Blocks : at <= b /\ b < at + 1 => b \in Members(bs)
  BY <1>2, <1>5 DEF Blocks
<1>12. Packed(EmitPending \o Emit(bs, path), at + 1)
  <2>1. \A i \in 1..Len(bs) : BodyBlock(bs[i]) /\ StandsUnder(bs[i], path)
    BY <1>8, <1>9 DEF BodyBlock, Atomic
  <2>2. \A i \in 1..Len(bs) : at <= bs[i] /\ bs[i] < at + 1
    BY <1>9, <1>10
  <2> QED BY <1>4, <1>5, <1>7, <1>10, <1>11, <2>1, <2>2, PackedEmit
<1> QED BY <1>2, <1>3, <1>12, EmptyWaits DEF Chunked, bs

\* A block that fits waits beside the others.
LEMMA StepJoin ==
  ASSUME Ready, at \in Blocks, Type(at) \in {"paragraph", "list"}, pending # <<>>, Fits(at),
         Chunked(at, path, pending, headings, chunks)
  PROVE  Chunked(at + 1, path, Append(pending, at), headings, chunks)
<1> DEFINE q == Append(pending, at)
<1>1. DOMAIN parsed = Blocks /\ Len(parsed) \in Nat /\ at \in Int
  BY DEF Ready, Blocks
<1>2. ~IsHeading(at) /\ at + 1 \in 1..(Len(parsed) + 1)
  BY <1>1 DEF IsHeading, Blocks
<1>3. PathIs(at + 1, path) /\ Met(at + 1, headings)
  BY <1>2, PathStays, MetStays DEF Chunked
<1>4. /\ pending \in Seq(Blocks) /\ Increasing(pending) /\ Packed(chunks, pending[1])
      /\ \A i \in 1..Len(pending) : pending[i] < at /\ Type(pending[i]) \in {"paragraph", "list"} /\ StandsUnder(pending[i], path)
      /\ \A b \in Blocks : pending[1] <= b /\ b < at /\ BodyBlock(b) => b \in Members(pending)
  BY DEF Chunked, Waiting
<1>5. Len(pending) \in Nat \ {0} /\ \A i \in 1..Len(pending) : pending[i] \in Blocks /\ pending[i] \in Int
  BY <1>4, EmptySeq, LenProperties, ElementOfSeq DEF Blocks
<1>6. q \in Seq(Blocks) /\ Len(q) = Len(pending) + 1 /\ q[Len(pending) + 1] = at /\ \A i \in 1..Len(pending) : q[i] = pending[i]
  BY <1>4, AppendProperties
<1>7. StandsUnder(at, path)
  BY DEF StandsUnder, Chunked, PathIs
<1>8. TextLength(q) <= MaxChars
  <2>1. TextLength(q) = TextLength(pending) + TextLength(<<at>>) + 2
    BY <1>4, TextLengthIs DEF Ready
  <2> QED BY <2>1 DEF Fits
<1> HIDE DEF q
<1>9. 1..Len(q) = 1..Len(pending) \cup {Len(pending) + 1} /\ q # <<>> /\ q[1] = pending[1]
  <2>1. 1 \in 1..Len(pending) /\ Len(q) > 0
    BY <1>5, <1>6
  <2>2. q[1] = pending[1] /\ q # <<>>
    BY <1>6, <2>1
  <2> QED BY <1>5, <1>6, <2>2
<1>10. ASSUME NEW i \in 1..Len(q)
       PROVE  q[i] < at + 1 /\ Type(q[i]) \in {"paragraph", "list"} /\ StandsUnder(q[i], path)
  <2>1. CASE i = Len(pending) + 1
    BY <1>1, <1>6, <1>7, <2>1
  <2>2. CASE i \in 1..Len(pending)
    <3>1. q[i] = pending[i] /\ pending[i] < at /\ pending[i] \in Int
      BY <1>4, <1>5, <1>6, <2>2
    <3>2. q[i] < at + 1
      BY <1>1, <3>1
    <3> QED BY <1>4, <2>2, <3>1, <3>2
  <2> QED BY <1>9, <2>1, <2>2
<1>11. Increasing(q)
  <2>1. ASSUME NEW i \in 1..Len(q), NEW j \in 1..Len(q), i < j PROVE q[i] < q[j]
    <3>1. i \in 1..Len(pending)
      BY <1>5, <1>6, <2>1
    <3>2. j \in 1..Len(pending) \/ j = Len(pending) + 1
      BY <1>9
    <3>3. CASE j = Len(pending) + 1
      BY <1>4, <1>6, <3>1, <3>3
    <3>4. CASE j \in 1..Len(pending)
      BY <1>4, <1>6, <2>1, <3>1, <3>4 DEF Increasing
    <3> QED BY <3>2, <3>3, <3>4
  <2> QED BY <2>1 DEF Increasing
<1>12. Members(q) = Members(pending) \cup {at}
  BY <1>6, <1>9 DEF Members
<1>13. \A b \in Blocks : q[1] <= b /\ b < at + 1 /\ BodyBlock(b) => b \in Members(q)
  <2>1. \A b \in Blocks : b < at + 1 => b < at \/ b = at
    BY <1>1 DEF Blocks
  <2> QED BY <1>4, <1>9, <1>12, <2>1
<1>14. Waiting(at + 1, path, q)
  BY <1>6, <1>8, <1>10, <1>11, <1>13 DEF Waiting
<1> QED BY <1>2, <1>3, <1>4, <1>9, <1>14 DEF Chunked, q

\* A block that does not fit begins the next chunk.
LEMMA StepStart ==
  ASSUME Ready, at \in Blocks, Type(at) \in {"paragraph", "list"}, Chunked(at, path, pending, headings, chunks)
  PROVE  Chunked(at + 1, path, <<at>>, headings, EmitPending)
<1> DEFINE q == <<at>>
<1>1. DOMAIN parsed = Blocks /\ Len(parsed) \in Nat /\ at \in Int
  BY DEF Ready, Blocks
<1>2. ~IsHeading(at) /\ at + 1 \in 1..(Len(parsed) + 1) /\ at < at + 1
  BY <1>1 DEF IsHeading, Blocks
<1>3. PathIs(at + 1, path) /\ Met(at + 1, headings)
  BY <1>2, PathStays, MetStays DEF Chunked
<1>4. Packed(EmitPending, at)
  BY PendingPacked
<1>5. q \in Seq(Blocks) /\ Len(q) = 1 /\ q[1] = at /\ q # <<>> /\ Increasing(q) /\ Members(q) = {at}
  BY SingleIs
<1> HIDE DEF q
<1>6. StandsUnder(at, path)
  BY DEF StandsUnder, Chunked, PathIs
<1>7. \A i \in 1..Len(q) : q[i] = at
  BY <1>5
<1>8. \A b \in Blocks : q[1] <= b /\ b < at + 1 => b \in Members(q)
  BY <1>1, <1>5 DEF Blocks
<1>9. ~(Len(q) > 1)
  BY <1>5
<1>10. Waiting(at + 1, path, q)
  BY <1>2, <1>5, <1>6, <1>7, <1>8, <1>9 DEF Waiting
<1> QED BY <1>2, <1>3, <1>4, <1>5, <1>10 DEF Chunked, q

-----------------------------------------------------------------------------
(* What the chunker leaves at the end.                                     *)
Sound(c) ==
  /\ c.blocks \in Seq(Blocks)
  /\ c.part.size <= MaxChars \/ Lone(c.blocks)
  /\ c.part.size < TextLength(c.blocks) /\ Body # {}
       => Len(c.blocks) = 1 /\ TextLength(c.blocks) > MaxChars
  /\ \A i \in 1..Len(c.blocks) : BodyBlock(c.blocks[i]) => StandsUnder(c.blocks[i], c.path)
  /\ \/ c.pages = Pages(c.blocks)
     \/ c.pages = {} /\ \A i \in 1..Len(c.blocks) : Type(c.blocks[i]) = "page_break"

Kept == IF Body # {} THEN Body ELSE {b \in DOMAIN doc : doc[b].kind = "heading"}

Settled(C) ==
  /\ C \in Seq(ChunkRecord) /\ \A k \in 1..Len(C) : Sound(C[k])
  /\ \A k \in 1..(Len(C) - 1) : Before(C[k], C[k + 1])
  /\ \A n \in Kept : OnceIn(C, n)

\* What holds while the chunker runs is enough at its end.
LEMMA FineSound ==
  ASSUME NEW c, Fine(c) PROVE Sound(c)
BY DEF Fine, Sound, BlockList

\* The lines of the body are those of the body blocks, and code has others.
LEMMA BodyIs ==
  ASSUME Ready
  PROVE  /\ DOMAIN doc = Nums
         /\ \A n \in Body : n \in Nums /\ doc[n].size \in Nat \ {0}
         /\ \A n \in Body : \E b \in Blocks : n \in LinesOf(b) /\ BodyBlock(b)
         /\ \A n \in Nums : doc[n].kind = "heading" =>
              \E b \in Blocks : n \in LinesOf(b) /\ (IsHeading(b) \/ BodyBlock(b))
<1>1. DOMAIN doc = Nums /\ \A n \in Nums : doc[n] \in Lines
  BY SizeIs, LenProperties DEF Ready, Written, Nums
<1>2. \A n \in Nums : doc[n].size \in Nat /\ (doc[n].size = 0 <=> doc[n].kind = "blank")
  BY <1>1, ChunkingAssumption
<1>3. ASSUME NEW n \in Body
      PROVE  n \in Nums /\ doc[n].kind \notin {"blank", "page", "heading"}
  BY <1>1, <1>3 DEF Body
<1>4. ASSUME NEW n \in Body PROVE \E b \in Blocks : n \in LinesOf(b) /\ BodyBlock(b)
  <2>1. PICK b \in Blocks : n \in LinesOf(b)
    BY <1>3 DEF Ready
  <2>2. BodyBlock(b)
    BY <1>3, <2>1 DEF BodyBlock, Ready
  <2> QED BY <2>1, <2>2
<1>5. ASSUME NEW n \in Nums, doc[n].kind = "heading"
      PROVE  \E b \in Blocks : n \in LinesOf(b) /\ (IsHeading(b) \/ BodyBlock(b))
  <2>1. PICK b \in Blocks : n \in LinesOf(b)
    BY <1>5 DEF Ready
  <2>2. Type(b) # "page_break"
    BY <1>5, <2>1 DEF Ready
  <2> QED BY <2>1, <2>2 DEF BodyBlock, IsHeading, Ready
<1> QED BY <1>1, <1>2, <1>3, <1>4, <1>5

\* A document without chunks so far has no body.
LEMMA NoBody ==
  ASSUME Ready, NEW z, Packed(<<>>, z), \A b \in Blocks : b < z
  PROVE  Body = {} /\ \A b \in Blocks : ~BodyBlock(b)
<1>1. ASSUME NEW b \in Blocks, BodyBlock(b) PROVE FALSE
  <2>1. PICK n \in LinesOf(b) : n \in Body
    BY <1>1 DEF Ready
  <2>2. OnceIn(<<>>, n)
    BY <1>1 DEF Packed
  <2>3. 1 \in 1..doc[n].size
    BY <2>1, BodyIs
  <2>4. \E k \in 1..Len(<<>>) : TRUE
    BY <2>2, <2>3 DEF OnceIn
  <2> QED BY <2>4, EmptySeq
<1> QED BY <1>1, BodyIs

\* What the chunker returns is settled: body, headings alone, or page marks alone.
LEMMA RemainingIs ==
  ASSUME Ready, Len(parsed) > 0, Chunked(at, path, pending, headings, chunks), at > Len(parsed)
  PROVE  Settled(Remaining)
<1>1. /\ DOMAIN parsed = Blocks /\ Len(parsed) \in Nat \ {0} /\ at \in Int
      /\ \A b \in Blocks : b < at /\ b \in Int
  <2>1. DOMAIN parsed = Blocks /\ Len(parsed) \in Nat \ {0} /\ at \in Int
    BY DEF Ready, Chunked
  <2> QED BY <2>1 DEF Blocks
<1>2. Packed(EmitPending, at)
  BY PendingPacked
<1>3. CASE EmitPending # <<>>
  <2> DEFINE C == EmitPending
  <2>1. /\ C \in Seq(ChunkRecord) /\ Len(C) \in Nat \ {0} /\ \A k \in 1..Len(C) : Fine(C[k])
        /\ \A k \in 1..(Len(C) - 1) : Before(C[k], C[k + 1])
        /\ \A b \in Blocks : BodyBlock(b) => \A n \in LinesOf(b) : OnceIn(C, n)
    BY <1>1, <1>2, <1>3, EmptySeq, LenProperties DEF Packed
  <2> HIDE DEF C
  <2>2. Body # {}
    <3>1. 1 \in 1..Len(C)
      BY <2>1
    <3>2. BlockList(C[1].blocks) /\ \A i \in 1..Len(C[1].blocks) : BodyBlock(C[1].blocks[i])
      BY <2>1, <3>1 DEF Fine
    <3>3. 1 \in 1..Len(C[1].blocks) /\ C[1].blocks[1] \in Blocks
      BY <3>2, ElementOfSeq, LenProperties DEF BlockList
    <3> QED BY <3>2, <3>3 DEF Ready
  <2>3. \A n \in Kept : OnceIn(C, n)
    BY <2>1, <2>2, BodyIs DEF Kept
  <2>4. Settled(C)
    BY <2>1, <2>3, FineSound DEF Settled
  <2> QED BY <1>3, <2>4 DEF Remaining, C
<1>4. ASSUME EmitPending = <<>> PROVE Body = {} /\ \A b \in Blocks : ~BodyBlock(b)
  BY <1>1, <1>2, <1>4, NoBody
<1>5. /\ headings \in Seq(Blocks) /\ Increasing(headings)
      /\ Members(headings) = {b \in Blocks : IsHeading(b)}
  BY <1>1 DEF Chunked, Met
<1>6. <<>> \in Seq(Int)
  BY EmptySeq
<1>7. CASE EmitPending = <<>> /\ headings # <<>>
  <2> DEFINE C == Emit(headings, <<>>)
  <2>1. Len(headings) \in Nat \ {0} /\ \A i \in 1..Len(headings) : headings[i] \in Blocks
    BY <1>5, <1>7, EmptySeq, LenProperties, ElementOfSeq
  <2>2. \A i \in 1..Len(headings) : Solid(headings[i])
    <3>1. \A i \in 1..Len(headings) : IsHeading(headings[i])
      BY <1>5 DEF Members
    <3> QED BY <2>1, <3>1 DEF Ready, IsHeading
  <2>3. Emission(C, headings, <<>>)
    BY <1>5, <1>6, <1>7, <2>2, IncreasingIs, EmitIs DEF Ready
  <2> HIDE DEF C
  <2>4. \A k \in 1..Len(C) : Sound(C[k])
    <3>1. ASSUME NEW k \in 1..Len(C) PROVE Sound(C[k])
      <4>1. C[k].blocks = headings /\ C[k].pages = Pages(headings) /\ (C[k].part.size <= MaxChars \/ Lone(headings))
        BY <2>3 DEF Emission
      <4>2. \A i \in 1..Len(headings) : ~BodyBlock(headings[i])
        BY <1>4, <1>7, <2>1
      <4> QED BY <1>4, <1>5, <1>7, <4>1, <4>2 DEF Sound
    <3> QED BY <3>1
  <2>5. \A k \in 1..(Len(C) - 1) : Before(C[k], C[k + 1])
    <3>1. ASSUME NEW k \in 1..(Len(C) - 1) PROVE Before(C[k], C[k + 1])
      <4>1. Len(C) \in Nat
        BY <2>3, LenProperties DEF Emission
      <4>2. k \in 1..Len(C) /\ k + 1 \in 1..Len(C) /\ k < k + 1
        BY <4>1
      <4> QED BY <2>3, <4>2 DEF Before, Emission
    <3> QED BY <3>1
  <2>6. \A n \in Kept : OnceIn(C, n)
    <3>1. ASSUME NEW n \in Kept PROVE OnceIn(C, n)
      <4>1. n \in Nums /\ doc[n].kind = "heading"
        BY <1>4, <1>7, BodyIs DEF Kept
      <4>2. PICK b \in Blocks : n \in LinesOf(b) /\ IsHeading(b)
        BY <1>4, <1>7, <4>1, BodyIs
      <4>3. PICK i \in 1..Len(headings) : headings[i] = b
        BY <1>5, <4>2 DEF Members
      <4>4. n \in LinesUpto(headings, Len(headings))
        BY <4>2, <4>3 DEF LinesUpto
      <4> QED BY <2>3, <4>4 DEF Emission
    <3> QED BY <3>1
  <2>7. C \in Seq(ChunkRecord)
    BY <2>3 DEF Emission
  <2>8. Settled(C)
    BY <2>4, <2>5, <2>6, <2>7 DEF Settled
  <2> QED BY <1>7, <2>8 DEF Remaining, C
<1>8. CASE EmitPending = <<>> /\ headings = <<>>
  <2> DEFINE all == [b \in DOMAIN parsed |-> b]
             E   == Emit(all, <<>>)
             C   == [k \in DOMAIN E |-> [E[k] EXCEPT !.pages = {}]]
  <2>1. /\ all \in Seq(Blocks) /\ Len(all) = Len(parsed) /\ \A i \in 1..Len(all) : all[i] = i /\ i \in Blocks
        /\ all # <<>>
    <3>1. all = [i \in 1..Len(parsed) |-> i]
      BY <1>1 DEF Blocks
    <3>2. \A i \in 1..Len(parsed) : i \in Blocks
      BY DEF Blocks
    <3>3. all \in Seq(Blocks) /\ Len(all) = Len(parsed) /\ \A i \in 1..Len(all) : all[i] = i /\ i \in Blocks
      BY <1>1, <3>1, <3>2, IsASeq
    <3> QED BY <1>1, <3>3, EmptySeq
  <2>2. \A b \in Blocks : Type(b) = "page_break"
    <3>1. \A b \in Blocks : ~IsHeading(b)
      <4>1. Members(headings) = {}
        BY <1>8, EmptySeq DEF Members
      <4> QED BY <1>5, <4>1
    <3> QED BY <1>1, <1>4, <1>8, <3>1 DEF BodyBlock, IsHeading
  <2>3. \A i \in 1..Len(all) : Solid(all[i])
    BY <2>1, <2>2 DEF Ready
  <2>4. Injective(all)
    BY <2>1, IncreasingIs, LenProperties DEF Increasing
  <2> HIDE DEF all
  <2>5. Emission(E, all, <<>>)
    BY <1>6, <2>1, <2>3, <2>4, EmitIs DEF Ready
  <2> HIDE DEF E
  <2>6. E \in Seq(ChunkRecord) /\ Len(E) \in Nat /\ DOMAIN E = 1..Len(E) /\ \A k \in 1..Len(E) : E[k] \in ChunkRecord
    <3>1. E \in Seq(ChunkRecord)
      BY <2>5 DEF Emission
    <3> QED BY <3>1, LenProperties, ElementOfSeq
  <2>7. ASSUME NEW k \in 1..Len(E)
        PROVE  /\ [E[k] EXCEPT !.pages = {}] \in ChunkRecord /\ [E[k] EXCEPT !.pages = {}].pages = {}
               /\ [E[k] EXCEPT !.pages = {}].blocks = E[k].blocks /\ [E[k] EXCEPT !.pages = {}].part = E[k].part
    BY <2>6 DEF ChunkRecord
  <2>8. C \in Seq(ChunkRecord) /\ Len(C) = Len(E) /\ \A k \in 1..Len(C) : C[k] = [E[k] EXCEPT !.pages = {}]
    BY <2>6, <2>7, IsASeq
  <2> HIDE DEF C
  <2>9. \A k \in 1..Len(C) : C[k].pages = {} /\ C[k].blocks = E[k].blocks /\ C[k].part = E[k].part
    BY <2>7, <2>8
  <2>10. \A k \in 1..Len(C) : Sound(C[k])
    <3>1. ASSUME NEW k \in 1..Len(C) PROVE Sound(C[k])
      <4>1. E[k].blocks = all /\ (E[k].part.size <= MaxChars \/ Lone(all))
        BY <2>5, <2>8 DEF Emission
      <4>2. \A i \in 1..Len(all) : Type(all[i]) = "page_break"
        BY <2>1, <2>2
      <4> QED BY <1>4, <1>8, <2>1, <2>9, <4>1, <4>2 DEF Sound, BodyBlock
    <3> QED BY <3>1
  <2>11. \A k \in 1..(Len(C) - 1) : Before(C[k], C[k + 1])
    <3>1. ASSUME NEW k \in 1..(Len(C) - 1) PROVE Before(C[k], C[k + 1])
      <4>1. k \in 1..Len(C) /\ k + 1 \in 1..Len(C) /\ k < k + 1
        BY <2>6, <2>8
      <4>2. /\ E[k].blocks = all /\ E[k + 1].blocks = all
            /\ E[k].part.to < E[k + 1].part.from
        BY <2>5, <2>8, <4>1 DEF Emission
      <4> QED BY <2>9, <4>1, <4>2 DEF Before
    <3> QED BY <3>1
  <2>12. Kept = {}
    <3>1. ASSUME NEW n \in Kept PROVE FALSE
      <4>1. n \in Nums /\ doc[n].kind = "heading"
        BY <1>4, <1>8, <3>1, BodyIs DEF Kept
      <4>2. PICK b \in Blocks : IsHeading(b) \/ BodyBlock(b)
        BY <4>1, BodyIs
      <4> QED BY <2>2, <4>2 DEF IsHeading, BodyBlock
    <3> QED BY <3>1
  <2>13. Settled(C)
    BY <2>8, <2>10, <2>11, <2>12 DEF Settled
  <2>14. Remaining = C
    BY <1>8 DEF Remaining, C, E, all
  <2> QED BY <2>13, <2>14
<1> QED BY <1>3, <1>7, <1>8

\* Sound chunks are cut and cited as they should be.
LEMMA SoundProperties ==
  ASSUME Ready, chunks \in Seq(ChunkRecord), \A k \in 1..Len(chunks) : Sound(chunks[k])
  PROVE  CutOnlyWhenLong /\ PlaceCited
<1>1. DOMAIN chunks = 1..Len(chunks) /\ Len(chunks) \in Nat
  BY LenProperties
<1>2. ASSUME NEW k \in 1..Len(chunks)
      PROVE  /\ chunks[k].blocks \in Seq(Blocks) /\ DOMAIN chunks[k].blocks = 1..Len(chunks[k].blocks)
             /\ chunks[k].path \in Seq(Int) /\ DOMAIN chunks[k].path = 1..Len(chunks[k].path)
             /\ \A i \in 1..Len(chunks[k].blocks) : chunks[k].blocks[i] \in Blocks
  <2>1. chunks[k].blocks \in Seq(Blocks)
    BY DEF Sound
  <2>2. chunks[k] \in ChunkRecord
    BY ElementOfSeq
  <2>3. chunks[k].path \in Seq(Int)
    BY <2>2 DEF ChunkRecord
  <2> QED BY <2>1, <2>3, LenProperties, ElementOfSeq
<1>3. \A b \in Blocks : ToSet(parsed[b].lines) = LinesOf(b) /\ LinesOf(b) # {}
  <2>1. ASSUME NEW b \in Blocks PROVE ToSet(parsed[b].lines) = LinesOf(b) /\ LinesOf(b) # {}
    <3>1. parsed[b].lines \in Seq(Nums) /\ Len(parsed[b].lines) > 0
      BY DEF Ready, Laid
    <3>2. DOMAIN parsed[b].lines = 1..Len(parsed[b].lines) /\ Len(parsed[b].lines) \in Nat
      BY <3>1, LenProperties
    <3>3. 1 \in 1..Len(parsed[b].lines)
      BY <3>1, <3>2
    <3> QED BY <3>2, <3>3 DEF ToSet, LinesOf, Members
  <2> QED BY <2>1
<1>4. CutOnlyWhenLong
  BY <1>1 DEF CutOnlyWhenLong, Sound, Lone
<1>5. ASSUME NEW k \in 1..Len(chunks), NEW i \in 1..Len(chunks[k].blocks)
      PROVE  LET b == chunks[k].blocks[i]
             IN /\ (NoneSkipped(b) /\ Type(b) \notin {"heading", "page_break"})
                     => /\ ToSet(chunks[k].path) = Above(b)
                        /\ \A h, j \in DOMAIN chunks[k].path : h < j => chunks[k].path[h] < chunks[k].path[j]
                /\ (Type(b) \notin {"code", "page_break"} /\ format # "docx")
                     => \A n \in ToSet(parsed[b].lines) : PageOf(n) \in chunks[k].pages \cup {0}
  <2> DEFINE b == chunks[k].blocks[i]
  <2>1. b \in Blocks
    BY <1>2
  <2>2. ASSUME NoneSkipped(b), BodyBlock(b)
        PROVE  /\ ToSet(chunks[k].path) = Above(b)
               /\ \A h, j \in DOMAIN chunks[k].path : h < j => chunks[k].path[h] < chunks[k].path[j]
    <3>1. Members(chunks[k].path) = Above(b) /\ Increasing(chunks[k].path)
      BY <2>2 DEF Sound, StandsUnder
    <3> QED BY <1>2, <3>1 DEF ToSet, Members, Increasing
  <2>3. ASSUME Type(b) \notin {"code", "page_break"}, format # "docx", NEW n \in ToSet(parsed[b].lines)
        PROVE  PageOf(n) \in chunks[k].pages \cup {0}
    <3>1. PageOf(n) = parsed[b].page
      BY <1>3, <2>1, <2>3 DEF Ready
    <3>2. chunks[k].pages = Pages(chunks[k].blocks)
      BY <2>3 DEF Sound
    <3> QED BY <1>2, <3>1, <3>2 DEF Pages
  <2> QED BY <2>2, <2>3 DEF BodyBlock
<1>6. ASSUME NEW k \in 1..Len(chunks), Body # {}, format # "docx",
             \A j \in DOMAIN chunks[k].blocks : Type(chunks[k].blocks[j]) # "code",
             NEW p \in chunks[k].pages
      PROVE  \E j \in DOMAIN chunks[k].blocks :
               \E n \in ToSet(parsed[chunks[k].blocks[j]].lines) : PageOf(n) = p
  <2>1. chunks[k].pages = Pages(chunks[k].blocks)
    BY <1>6 DEF Sound
  <2>2. PICK j \in DOMAIN chunks[k].blocks : parsed[chunks[k].blocks[j]].page = p
    BY <1>6, <2>1 DEF Pages
  <2>3. chunks[k].blocks[j] \in Blocks
    BY <1>2
  <2>4. PICK n \in LinesOf(chunks[k].blocks[j]) : TRUE
    BY <1>3, <2>3
  <2>5. PageOf(n) = p
    BY <1>6, <2>2, <2>3 DEF Ready
  <2> QED BY <1>3, <2>3, <2>5
<1>7. PlaceCited
  BY <1>1, <1>2, <1>5, <1>6 DEF PlaceCited
<1> QED BY <1>4, <1>7

\* Settled chunks have lost nothing.
LEMMA SettledProperties ==
  ASSUME Ready, Settled(chunks) PROVE NothingLost
<1>1. /\ chunks \in Seq(ChunkRecord) /\ DOMAIN chunks = 1..Len(chunks)
      /\ \A k \in 1..(Len(chunks) - 1) : Before(chunks[k], chunks[k + 1])
      /\ \A n \in Kept : OnceIn(chunks, n)
  BY LenProperties DEF Settled
<1>2. ASSUME NEW n \in Kept PROVE Once(n)
  <2>1. ASSUME NEW x \in 1..doc[n].size PROVE Cardinality({k \in DOMAIN chunks : Holds(k, n, x)}) = 1
    <3>1. PICK k \in 1..Len(chunks) : /\ Has(chunks[k], n, x)
                                      /\ \A j \in 1..Len(chunks) : Has(chunks[j], n, x) => j = k
      BY <1>1 DEF OnceIn
    <3>2. \A j : Holds(j, n, x) <=> Has(chunks[j], n, x)
      BY DEF Holds, Has
    <3>3. {j \in DOMAIN chunks : Holds(j, n, x)} = {k}
      BY <1>1, <3>1, <3>2
    <3> QED BY <3>3, FS_Singleton
  <2> QED BY <2>1 DEF Once
<1> QED BY <1>1, <1>2 DEF NothingLost, Kept, Before

-----------------------------------------------------------------------------
(* The parser, of the first m lines of a text d.                           *)
PagesTo(d, n) == Cardinality({k \in 1..n : d[k].kind = "page"})

BlockRecord ==
  [type : {"paragraph", "list", "table", "code", "heading", "page_break"}, lines : Seq(Nat), page : Nat]

Good(d, m, f, r) ==
  /\ r \in BlockRecord /\ Len(r.lines) > 0 /\ Injective(r.lines)
  /\ \A n \in Members(r.lines) : n \in 1..m
  /\ r.type # "code" => \A n \in Members(r.lines) : d[n].size > 0
  /\ r.type # "code" /\ f # "docx" => \A n \in Members(r.lines) : PagesTo(d, n) = r.page
  /\ r.type = "heading" => \A n \in Members(r.lines) : d[n].kind = "heading"
  /\ r.type = "page_break" => \A n \in Members(r.lines) : d[n].kind = "page"
  /\ r.type \notin {"heading", "page_break"} =>
       \E n \in Members(r.lines) : d[n].kind \notin {"blank", "page", "heading"}

\* Every line that is not blank is in one of the blocks P, the paragraph pa or the code block co.
Apart(P, pa, co) ==
  /\ \A b, c \in 1..Len(P) : b # c => Members(P[b].lines) \cap Members(P[c].lines) = {}
  /\ \A b \in 1..Len(P) : Members(P[b].lines) \cap (Members(pa) \cup Members(co)) = {}

Listed(P, n) == \E b \in 1..Len(P) : n \in Members(P[b].lines)

Ledger(d, m, f, P, pa, co, pg) ==
  /\ d \in Seq(Lines) /\ m \in 0..Len(d) /\ P \in Seq(BlockRecord)
  /\ pa \in Seq(Nat) /\ co \in Seq(Nat) /\ pg \in Nat
  /\ f # "docx" => pg = PagesTo(d, m)
  /\ \A b \in 1..Len(P) : Good(d, m, f, P[b])
  /\ pa # <<>> => Good(d, m, f, Block("paragraph", pa, pg))
  /\ co # <<>> => Good(d, m, f, Block("code", co, pg))
  /\ pa = <<>> \/ co = <<>>
  /\ Apart(P, pa, co)
  /\ \A n \in 1..m : d[n].kind # "blank" =>
       Listed(P, n) \/ n \in Members(pa) \cup Members(co)

\* A list with one more element has one more member.
LEMMA MembersAppend ==
  ASSUME NEW S, NEW list \in Seq(S), NEW x \in S
  PROVE  /\ Append(list, x) \in Seq(S) /\ Append(list, x) # <<>> /\ Len(Append(list, x)) > 0
         /\ Members(Append(list, x)) = Members(list) \cup {x}
         /\ Injective(list) /\ x \notin Members(list) => Injective(Append(list, x))
<1> DEFINE r == Append(list, x)
<1>1. r \in Seq(S) /\ Len(r) = Len(list) + 1 /\ r[Len(list) + 1] = x /\ Len(list) \in Nat /\ \A i \in 1..Len(list) : r[i] = list[i]
  BY AppendProperties, LenProperties
<1> HIDE DEF r
<1>2. 1..Len(r) = 1..Len(list) \cup {Len(list) + 1} /\ r # <<>> /\ Len(r) > 0
  BY <1>1, EmptySeq
<1>3. Members(r) = Members(list) \cup {x}
  BY <1>1, <1>2 DEF Members
<1>4. ASSUME Injective(list), x \notin Members(list) PROVE Injective(r)
  <2>1. ASSUME NEW i \in 1..Len(r), NEW j \in 1..Len(r), i < j PROVE r[i] # r[j]
    <3>1. i \in 1..Len(list)
      BY <1>1, <2>1
    <3>2. j \in 1..Len(list) \/ j = Len(list) + 1
      BY <1>2
    <3>3. r[i] = list[i] /\ list[i] # x
      BY <1>1, <1>4, <3>1 DEF Members
    <3> QED BY <1>1, <1>4, <2>1, <3>1, <3>2, <3>3 DEF Injective
  <2> QED BY <2>1 DEF Injective
<1> QED BY <1>1, <1>2, <1>3, <1>4 DEF r

\* A list of lines with a new one repeats none.
LEMMA LineAppend ==
  ASSUME NEW list \in Seq(Nat), NEW x \in Nat, NEW r, r = Append(list, x)
  PROVE  /\ r \in Seq(Nat) /\ r # <<>> /\ Len(r) > 0 /\ Members(r) = Members(list) \cup {x}
         /\ Injective(list) /\ x \notin Members(list) => Injective(r)
  BY MembersAppend

\* An empty list has no members.
LEMMA MembersEmpty == Members(<<>>) = {} /\ Injective(<<>>)
  BY EmptySeq DEF Members, Injective

\* One more line is one more page if it is a page mark.
LEMMA PagesGrow ==
  ASSUME NEW d, NEW m \in Nat
  PROVE  /\ PagesTo(d, m) \in Nat
         /\ PagesTo(d, m + 1) = PagesTo(d, m) + IF d[m + 1].kind = "page" THEN 1 ELSE 0
<1> DEFINE S(n) == {k \in 1..n : d[k].kind = "page"}
<1>1. \A n \in Nat : IsFiniteSet(S(n)) /\ Cardinality(S(n)) \in Nat
  BY Interval, FS_Subset, FS_CardinalityType
<1>2. 1..(m + 1) = 1..m \cup {m + 1} /\ m + 1 \notin 1..m
  OBVIOUS
<1>3. CASE d[m + 1].kind = "page"
  <2>1. S(m + 1) = S(m) \cup {m + 1} /\ m + 1 \notin S(m)
    BY <1>2, <1>3
  <2>2. Cardinality(S(m + 1)) = Cardinality(S(m)) + 1
    BY <1>1, <2>1, FS_AddElement
  <2> QED BY <1>1, <1>3, <2>2 DEF PagesTo
<1>4. CASE d[m + 1].kind # "page"
  <2>1. S(m + 1) = S(m)
    BY <1>2, <1>4
  <2>2. Cardinality(S(m + 1)) = Cardinality(S(m)) /\ Cardinality(S(m)) \in Nat
    BY <1>1, <2>1
  <2> QED BY <1>4, <2>2 DEF PagesTo
<1> QED BY <1>3, <1>4

\* One more line is there to be read.
LEMMA LedgerLonger ==
  ASSUME NEW d, NEW m, NEW f, NEW P, NEW pa, NEW co, NEW pg, Ledger(d, m, f, P, pa, co, pg), NEW l \in Lines
  PROVE  /\ Ledger(Append(d, l), m, f, P, pa, co, pg)
         /\ Len(Append(d, l)) = Len(d) + 1 /\ Append(d, l)[Len(d) + 1] = l
<1> DEFINE e == Append(d, l)
<1>1. d \in Seq(Lines) /\ Len(d) \in Nat /\ m \in 0..Len(d)
  BY LenProperties DEF Ledger
<1>2. e \in Seq(Lines) /\ Len(e) = Len(d) + 1 /\ e[Len(d) + 1] = l /\ \A n \in 1..Len(d) : e[n] = d[n]
  BY <1>1, AppendProperties
<1> HIDE DEF e
<1>3. \A n \in 1..m : e[n] = d[n]
  BY <1>1, <1>2
<1>4. \A n \in 0..m : PagesTo(e, n) = PagesTo(d, n)
  <2>1. ASSUME NEW n \in 0..m PROVE PagesTo(e, n) = PagesTo(d, n)
    <3>1. \A k \in 1..n : k \in 1..m
      BY <1>1
    <3>2. {k \in 1..n : e[k].kind = "page"} = {k \in 1..n : d[k].kind = "page"}
      BY <1>3, <3>1
    <3> QED BY <3>2 DEF PagesTo
  <2> QED BY <2>1
<1>5. \A r : Good(d, m, f, r) => Good(e, m, f, r)
  <2>1. ASSUME NEW r, Good(d, m, f, r) PROVE Good(e, m, f, r)
    <3>1. \A n \in Members(r.lines) : n \in 1..m /\ n \in 0..m
      BY <1>1, <2>1 DEF Good
    <3>2. \A n \in Members(r.lines) : e[n] = d[n] /\ PagesTo(e, n) = PagesTo(d, n)
      BY <1>3, <1>4, <3>1
    <3> QED BY <2>1, <3>2 DEF Good
  <2> QED BY <2>1
<1>6. m \in 0..Len(e) /\ m \in 0..m
  BY <1>1, <1>2
<1>7. Ledger(e, m, f, P, pa, co, pg)
  BY <1>2, <1>3, <1>4, <1>5, <1>6 DEF Ledger
<1> QED BY <1>2, <1>7 DEF e

\* What is open becomes a block.
LEMMA LedgerCloses ==
  ASSUME NEW d, NEW m, NEW f, NEW P, NEW pa, NEW co, NEW pg, Ledger(d, m, f, P, pa, co, pg),
         NEW r, Good(d, m, f, r), Members(r.lines) = Members(pa) \cup Members(co)
  PROVE  Ledger(d, m, f, Append(P, r), <<>>, <<>>, pg)
<1> DEFINE Q == Append(P, r)
<1>1. P \in Seq(BlockRecord) /\ Len(P) \in Nat /\ r \in BlockRecord
  BY LenProperties DEF Ledger, Good
<1>2. Q \in Seq(BlockRecord) /\ Len(Q) = Len(P) + 1 /\ Q[Len(P) + 1] = r /\ \A b \in 1..Len(P) : Q[b] = P[b]
  BY <1>1, AppendProperties
<1> HIDE DEF Q
<1>3. 1..Len(Q) = 1..Len(P) \cup {Len(P) + 1} /\ Len(P) + 1 \notin 1..Len(P)
  BY <1>1, <1>2
<1>4. \A b \in 1..Len(Q) : Good(d, m, f, Q[b])
  BY <1>2, <1>3 DEF Ledger
<1>5. /\ \A b, c \in 1..Len(P) : b # c => Members(P[b].lines) \cap Members(P[c].lines) = {}
      /\ \A b \in 1..Len(P) : Members(P[b].lines) \cap Members(r.lines) = {}
  BY DEF Ledger, Apart
<1>6. ASSUME NEW b \in 1..Len(Q), NEW c \in 1..Len(Q), b # c
      PROVE  Members(Q[b].lines) \cap Members(Q[c].lines) = {}
  BY <1>2, <1>3, <1>5, <1>6
<1>7. \A n : Listed(P, n) \/ n \in Members(r.lines) => Listed(Q, n)
  BY <1>2, <1>3 DEF Listed
<1>8. \A n \in 1..m : d[n].kind # "blank" =>
        Listed(Q, n) \/ n \in Members(<<>>) \cup Members(<<>>)
  BY <1>7 DEF Ledger
<1>9. <<>> \in Seq(Nat)
  BY EmptySeq
<1>10. Apart(Q, <<>>, <<>>)
  BY <1>6, MembersEmpty DEF Apart
<1> QED BY <1>2, <1>4, <1>8, <1>9, <1>10 DEF Ledger, Q

\* Closing the open paragraph accounts for the same lines.
LEMMA LedgerFlushes ==
  ASSUME NEW d, NEW m, NEW f, NEW P, NEW pa, NEW co, NEW pg, Ledger(d, m, f, P, pa, co, pg)
  PROVE  Ledger(d, m, f, IF pa = <<>> THEN P ELSE Append(P, Block("paragraph", pa, pg)), <<>>, co, pg)
<1>1. CASE pa = <<>>
  BY <1>1
<1>2. CASE pa # <<>>
  <2> DEFINE r == Block("paragraph", pa, pg)
  <2>1. Good(d, m, f, r) /\ co = <<>>
    BY <1>2 DEF Ledger
  <2>2. Members(r.lines) = Members(pa) \cup Members(co)
    BY <2>1, MembersEmpty DEF Block
  <2> HIDE DEF r
  <2>3. Ledger(d, m, f, Append(P, r), <<>>, <<>>, pg)
    BY <2>1, <2>2, LedgerCloses
  <2> QED BY <1>2, <2>1, <2>3 DEF r
<1> QED BY <1>1, <1>2

\* Closing the open code block accounts for the same lines.
LEMMA LedgerEndsCode ==
  ASSUME NEW d, NEW m, NEW f, NEW P, NEW pa, NEW co, NEW pg, Ledger(d, m, f, P, pa, co, pg), co # <<>>
  PROVE  pa = <<>> /\ Ledger(d, m, f, Append(P, Block("code", co, pg)), <<>>, <<>>, pg)
<1> DEFINE r == Block("code", co, pg)
<1>1. Good(d, m, f, r) /\ pa = <<>>
  BY DEF Ledger
<1>2. Members(r.lines) = Members(pa) \cup Members(co)
  BY <1>1, MembersEmpty DEF Block
<1> HIDE DEF r
<1> QED BY <1>1, <1>2, LedgerCloses DEF r

\* The next line is in nothing yet.
LEMMA LedgerNext ==
  ASSUME NEW d, NEW m, NEW f, NEW P, NEW pa, NEW co, NEW pg, Ledger(d, m, f, P, pa, co, pg), m < Len(d)
  PROVE  /\ m + 1 \in 0..Len(d) /\ m + 1 \in Nat /\ d[m + 1] \in Lines
         /\ \A r : Good(d, m, f, r) => Good(d, m + 1, f, r) /\ m + 1 \notin Members(r.lines)
         /\ \A b \in 1..Len(P) : Good(d, m + 1, f, P[b]) /\ m + 1 \notin Members(P[b].lines)
         /\ m + 1 \notin Members(pa) /\ m + 1 \notin Members(co)
         /\ 1..(m + 1) = 1..m \cup {m + 1}
         /\ f # "docx" => PagesTo(d, m + 1) = pg + IF d[m + 1].kind = "page" THEN 1 ELSE 0
<1>1. d \in Seq(Lines) /\ Len(d) \in Nat /\ m \in Nat
  BY LenProperties DEF Ledger
<1>2. /\ m + 1 \in 0..Len(d) /\ m + 1 \in Nat /\ m + 1 \notin 1..m /\ 1..(m + 1) = 1..m \cup {m + 1}
      /\ m + 1 \in 1..Len(d)
  BY <1>1
<1>3. \A r : Good(d, m, f, r) => Good(d, m + 1, f, r) /\ m + 1 \notin Members(r.lines)
  BY <1>2 DEF Good
<1>4. \A b \in 1..Len(P) : Good(d, m + 1, f, P[b]) /\ m + 1 \notin Members(P[b].lines)
  BY <1>3 DEF Ledger
<1>5. m + 1 \notin Members(pa)
  <2>1. CASE pa = <<>>
    BY <2>1, MembersEmpty
  <2>2. CASE pa # <<>>
    BY <1>3, <2>2 DEF Ledger, Block
  <2> QED BY <2>1, <2>2
<1>6. m + 1 \notin Members(co)
  <2>1. CASE co = <<>>
    BY <2>1, MembersEmpty
  <2>2. CASE co # <<>>
    BY <1>3, <2>2 DEF Ledger, Block
  <2> QED BY <2>1, <2>2
<1>7. d[m + 1] \in Lines
  BY <1>1, <1>2, ElementOfSeq
<1>8. f # "docx" => PagesTo(d, m + 1) = pg + IF d[m + 1].kind = "page" THEN 1 ELSE 0
  BY <1>1, PagesGrow DEF Ledger
<1> QED BY <1>2, <1>3, <1>4, <1>5, <1>6, <1>7, <1>8

\* A blank line needs no block.
LEMMA LedgerSkips ==
  ASSUME NEW d, NEW m, NEW f, NEW P, NEW pa, NEW co, NEW pg, Ledger(d, m, f, P, pa, co, pg), m < Len(d),
         d[m + 1].kind = "blank"
  PROVE  Ledger(d, m + 1, f, P, pa, co, pg)
<1>1. /\ m + 1 \in 0..Len(d) /\ 1..(m + 1) = 1..m \cup {m + 1}
      /\ \A r : Good(d, m, f, r) => Good(d, m + 1, f, r)
      /\ f # "docx" => PagesTo(d, m + 1) = pg + 0
  BY LedgerNext
<1>2. f # "docx" => pg = PagesTo(d, m + 1)
  BY <1>1 DEF Ledger
<1> DEFINE k == m + 1
<1> HIDE DEF k
<1>3. \A n \in 1..k : d[n].kind # "blank" =>
       Listed(P, n) \/ n \in Members(pa) \cup Members(co)
  BY <1>1 DEF Ledger, k
<1>4. k \in 0..Len(d) /\ (f # "docx" => pg = PagesTo(d, k)) /\ \A r : Good(d, m, f, r) => Good(d, k, f, r)
  BY <1>1, <1>2 DEF k
<1>5. Ledger(d, k, f, P, pa, co, pg)
  BY <1>3, <1>4 DEF Ledger
<1> QED BY <1>5 DEF k

\* The next line becomes a block of its own.
LEMMA LedgerBlock ==
  ASSUME NEW d, NEW m, NEW f, NEW P, NEW co, NEW pg, Ledger(d, m, f, P, <<>>, co, pg), m < Len(d),
         NEW t \in {"paragraph", "list", "table", "heading", "page_break"}, NEW p \in Nat, NEW pn \in Nat,
         d[m + 1].kind # "blank",
         t = "heading" => d[m + 1].kind = "heading",
         t = "page_break" => d[m + 1].kind = "page",
         t \notin {"heading", "page_break"} => d[m + 1].kind \notin {"page", "heading"},
         f # "docx" => p = pn /\ pn = PagesTo(d, m + 1)
  PROVE  Ledger(d, m + 1, f, Append(P, Block(t, <<m + 1>>, p)), <<>>, co, pn)
<1> DEFINE k == m + 1
           r == Block(t, <<k>>, p)
           Q == Append(P, r)
<1>1. /\ k \in 0..Len(d) /\ k \in Nat /\ d[k] \in Lines /\ 1..k = 1..m \cup {k} /\ k \in 1..k
      /\ \A s : Good(d, m, f, s) => Good(d, k, f, s) /\ k \notin Members(s.lines)
      /\ \A b \in 1..Len(P) : Good(d, k, f, P[b]) /\ k \notin Members(P[b].lines)
      /\ k \notin Members(co)
  BY LedgerNext
<1>2. d[k].kind # "blank" /\ d[k].size > 0
  BY <1>1, ChunkingAssumption
<1>3. f # "docx" => PagesTo(d, k) = p
  OBVIOUS
<1>4. /\ t = "heading" => d[k].kind = "heading"
      /\ t = "page_break" => d[k].kind = "page"
      /\ t \notin {"heading", "page_break"} => d[k].kind \notin {"blank", "page", "heading"}
  BY <1>2
<1>5. P \in Seq(BlockRecord) /\ Len(P) \in Nat /\ co \in Seq(Nat)
  BY LenProperties DEF Ledger
<1> HIDE DEF k
<1>6. /\ r \in BlockRecord /\ r.type = t /\ r.lines = <<k>> /\ r.page = p
      /\ Members(r.lines) = {k} /\ Len(r.lines) = 1 /\ Injective(r.lines)
  <2>1. <<k>> = Append(<<>>, k) /\ <<>> \in Seq(Nat) /\ Len(<<k>>) = 1
    BY <1>1
  <2>2. Members(<<k>>) = {k} /\ Injective(<<k>>) /\ <<k>> \in Seq(Nat)
    <3>1. /\ Append(<<>>, k) \in Seq(Nat) /\ Members(Append(<<>>, k)) = Members(<<>>) \cup {k}
          /\ Injective(<<>>) /\ k \notin Members(<<>>) => Injective(Append(<<>>, k))
      BY <1>1, <2>1, LineAppend
    <3> QED BY <2>1, <3>1, MembersEmpty
  <2> QED BY <2>1, <2>2 DEF Block, BlockRecord
<1> HIDE DEF r
<1>7. Good(d, k, f, r)
  BY <1>1, <1>2, <1>3, <1>4, <1>6 DEF Good
<1>8. Q \in Seq(BlockRecord) /\ Len(Q) = Len(P) + 1 /\ Q[Len(P) + 1] = r /\ \A b \in 1..Len(P) : Q[b] = P[b]
  BY <1>5, <1>6, AppendProperties
<1> HIDE DEF Q
<1>9. 1..Len(Q) = 1..Len(P) \cup {Len(P) + 1} /\ Len(P) + 1 \notin 1..Len(P)
  BY <1>5, <1>8
<1>10. \A b \in 1..Len(Q) : Good(d, k, f, Q[b])
  BY <1>1, <1>7, <1>8, <1>9
<1>11. Apart(Q, <<>>, co)
  <2>1. Apart(P, <<>>, co)
    BY DEF Ledger
  <2>2. ASSUME NEW b \in 1..Len(Q), NEW c \in 1..Len(Q), b # c
        PROVE  Members(Q[b].lines) \cap Members(Q[c].lines) = {}
    <3>1. \A g \in 1..Len(Q) : (g \in 1..Len(P) /\ Q[g] = P[g]) \/ (g = Len(P) + 1 /\ Members(Q[g].lines) = {k})
      BY <1>6, <1>8, <1>9
    <3>2. CASE b \in 1..Len(P) /\ c \in 1..Len(P)
      <4>1. Members(P[b].lines) \cap Members(P[c].lines) = {}
        BY <2>1, <2>2, <3>2 DEF Apart
      <4> QED BY <1>8, <3>2, <4>1
    <3>3. \A g \in 1..Len(P) : k \notin Members(Q[g].lines)
      BY <1>1, <1>8
    <3> QED BY <2>2, <3>1, <3>2, <3>3
  <2>3. ASSUME NEW b \in 1..Len(Q)
        PROVE  Members(Q[b].lines) \cap (Members(<<>>) \cup Members(co)) = {}
    BY <1>1, <1>6, <1>8, <1>9, <2>1, MembersEmpty DEF Apart
  <2> QED BY <2>2, <2>3 DEF Apart
<1>12. \A n : Listed(P, n) \/ n = k => Listed(Q, n)
  BY <1>6, <1>8, <1>9 DEF Listed
<1>13. \A n \in 1..k : d[n].kind # "blank" =>
         Listed(Q, n) \/ n \in Members(<<>>) \cup Members(co)
  BY <1>1, <1>12 DEF Ledger
<1>14. ASSUME co # <<>> PROVE Good(d, k, f, Block("code", co, pn))
  <2>1. Good(d, k, f, Block("code", co, pg))
    BY <1>1, <1>14 DEF Ledger
  <2> QED BY <2>1 DEF Good, Block, BlockRecord
<1>15. d \in Seq(Lines) /\ <<>> \in Seq(Nat) /\ (f # "docx" => pn = PagesTo(d, k))
  BY EmptySeq DEF Ledger, k
<1>16. Ledger(d, k, f, Q, <<>>, co, pn)
  BY <1>1, <1>5, <1>8, <1>10, <1>11, <1>13, <1>14, <1>15 DEF Ledger
<1> QED BY <1>16 DEF Q, r, k

\* The next line belongs to what is open.
LEMMA LedgerOpen ==
  ASSUME NEW d, NEW m, NEW f, NEW P, NEW pa, NEW co, NEW pg, Ledger(d, m, f, P, pa, co, pg), m < Len(d),
         d[m + 1].kind # "page"
  PROVE  /\ co = <<>> /\ d[m + 1].kind \notin {"blank", "heading"} =>
              Ledger(d, m + 1, f, P, Append(pa, m + 1), <<>>, pg)
         /\ pa = <<>> /\ (co # <<>> \/ d[m + 1].kind \notin {"blank", "heading"}) =>
              Ledger(d, m + 1, f, P, <<>>, Append(co, m + 1), pg)
<1> DEFINE k == m + 1
<1>1. /\ k \in 0..Len(d) /\ k \in Nat /\ d[k] \in Lines /\ 1..k = 1..m \cup {k} /\ k \in 1..k
      /\ \A s : Good(d, m, f, s) => Good(d, k, f, s) /\ k \notin Members(s.lines)
      /\ \A b \in 1..Len(P) : Good(d, k, f, P[b]) /\ k \notin Members(P[b].lines)
      /\ k \notin Members(pa) /\ k \notin Members(co)
  BY LedgerNext
<1>2. f # "docx" => PagesTo(d, k) = pg
  <2>1. f # "docx" => PagesTo(d, k) = pg + 0
    BY LedgerNext
  <2> QED BY <2>1 DEF Ledger
<1>3. P \in Seq(BlockRecord) /\ pa \in Seq(Nat) /\ co \in Seq(Nat) /\ pg \in Nat /\ d \in Seq(Lines) /\ <<>> \in Seq(Nat)
  BY EmptySeq DEF Ledger
<1>4. d[k].kind # "page"
  OBVIOUS
<1> HIDE DEF k
<1>5. d[k].kind # "blank" => d[k].size > 0
  BY <1>1, ChunkingAssumption
<1>6. Apart(P, pa, co) /\ \A n \in 1..m : d[n].kind # "blank" =>
         Listed(P, n) \/ n \in Members(pa) \cup Members(co)
  BY DEF Ledger
<1>7. ASSUME co = <<>>, d[k].kind \notin {"blank", "heading"} PROVE Ledger(d, k, f, P, Append(pa, k), <<>>, pg)
  <2> DEFINE a == Append(pa, k)
             r == Block("paragraph", a, pg)
  <2>1. Injective(pa) /\ \A n \in Members(pa) : n \in 1..m /\ d[n].size > 0 /\ (f # "docx" => PagesTo(d, n) = pg)
    <3>1. CASE pa = <<>>
      BY <3>1, MembersEmpty
    <3>2. CASE pa # <<>>
      BY <3>2 DEF Ledger, Good, Block
    <3> QED BY <3>1, <3>2
  <2>2. a \in Seq(Nat) /\ a # <<>> /\ Len(a) > 0 /\ Members(a) = Members(pa) \cup {k} /\ Injective(a)
    <3>1. /\ a \in Seq(Nat) /\ a # <<>> /\ Len(a) > 0 /\ Members(a) = Members(pa) \cup {k}
          /\ Injective(pa) /\ k \notin Members(pa) => Injective(a)
      BY <1>1, <1>3, LineAppend
    <3> QED BY <1>1, <2>1, <3>1
  <2> HIDE DEF a
  <2>3. r \in BlockRecord /\ r.type = "paragraph" /\ r.lines = a /\ r.page = pg
    BY <1>3, <2>2 DEF Block, BlockRecord
  <2> HIDE DEF r
  <2>4. \A n \in Members(a) : n \in 1..k /\ d[n].size > 0 /\ (f # "docx" => PagesTo(d, n) = pg)
    BY <1>1, <1>2, <1>5, <1>7, <2>1, <2>2
  <2>5. \E n \in Members(a) : d[n].kind \notin {"blank", "page", "heading"}
    BY <1>4, <1>7, <2>2
  <2>6. Good(d, k, f, r)
    BY <2>2, <2>3, <2>4, <2>5 DEF Good
  <2>7. Apart(P, a, <<>>)
    BY <1>1, <1>6, <1>7, <2>2 DEF Apart
  <2>8. \A n \in 1..k : d[n].kind # "blank" =>
         Listed(P, n) \/ n \in Members(a) \cup Members(<<>>)
    BY <1>1, <1>6, <1>7, <2>2
  <2>9. Ledger(d, k, f, P, a, <<>>, pg)
    BY <1>1, <1>2, <1>3, <2>2, <2>6, <2>7, <2>8 DEF Ledger, r
  <2> QED BY <2>9 DEF a
<1>8. ASSUME pa = <<>>, co # <<>> \/ d[k].kind \notin {"blank", "heading"}
      PROVE  Ledger(d, k, f, P, <<>>, Append(co, k), pg)
  <2> DEFINE a == Append(co, k)
             r == Block("code", a, pg)
  <2>1. Injective(co) /\ \A n \in Members(co) : n \in 1..m
    <3>1. CASE co = <<>>
      BY <3>1, MembersEmpty
    <3>2. CASE co # <<>>
      BY <3>2 DEF Ledger, Good, Block
    <3> QED BY <3>1, <3>2
  <2>2. a \in Seq(Nat) /\ a # <<>> /\ Len(a) > 0 /\ Members(a) = Members(co) \cup {k} /\ Injective(a)
    <3>1. /\ a \in Seq(Nat) /\ a # <<>> /\ Len(a) > 0 /\ Members(a) = Members(co) \cup {k}
          /\ Injective(co) /\ k \notin Members(co) => Injective(a)
      BY <1>1, <1>3, LineAppend
    <3> QED BY <1>1, <2>1, <3>1
  <2> HIDE DEF a
  <2>3. r \in BlockRecord /\ r.type = "code" /\ r.lines = a /\ r.page = pg
    BY <1>3, <2>2 DEF Block, BlockRecord
  <2> HIDE DEF r
  <2>4. \A n \in Members(a) : n \in 1..k
    BY <1>1, <2>1, <2>2
  <2>5. \E n \in Members(a) : d[n].kind \notin {"blank", "page", "heading"}
    <3>1. CASE co # <<>>
      <4>1. \E n \in Members(co) : d[n].kind \notin {"blank", "page", "heading"}
        BY <3>1 DEF Ledger, Good, Block
      <4> QED BY <2>2, <4>1
    <3>2. CASE co = <<>>
      BY <1>4, <1>8, <2>2, <3>2
    <3> QED BY <3>1, <3>2
  <2>6. Good(d, k, f, r)
    BY <2>2, <2>3, <2>4, <2>5 DEF Good
  <2>7. Apart(P, <<>>, a)
    BY <1>1, <1>6, <1>8, <2>2 DEF Apart
  <2>8. \A n \in 1..k : d[n].kind # "blank" =>
         Listed(P, n) \/ n \in Members(<<>>) \cup Members(a)
    BY <1>1, <1>6, <1>8, <2>2
  <2>9. Ledger(d, k, f, P, <<>>, a, pg)
    BY <1>1, <1>2, <1>3, <2>2, <2>6, <2>7, <2>8 DEF Ledger, r
  <2> QED BY <2>9 DEF a
<1> QED BY <1>7, <1>8 DEF k

-----------------------------------------------------------------------------
(* What is said of a text stays true while the chunker leaves it alone.    *)
LEMMA SameBlocks ==
  ASSUME doc' = doc, parsed' = parsed
  PROVE  /\ Blocks' = Blocks /\ Nums' = Nums /\ Body' = Body /\ Kept' = Kept
         /\ \A b : LinesOf(b)' = LinesOf(b) /\ Type(b)' = Type(b) /\ Level(b)' = Level(b)
         /\ \A b : (Atomic(b)' <=> Atomic(b)) /\ (IsHeading(b)' <=> IsHeading(b)) /\ (BodyBlock(b)' <=> BodyBlock(b))
         /\ \A bs : (Lone(bs)' <=> Lone(bs)) /\ (BlockList(bs)' <=> BlockList(bs)) /\ Pages(bs)' = Pages(bs)
         /\ \A bs, k : LinesUpto(bs, k)' = LinesUpto(bs, k)
<1>1. Blocks' = Blocks /\ Nums' = Nums
  BY DEF Blocks, Nums
<1>2. Body' = Body
  BY DEF Body
<1>3. Kept' = Kept
  BY <1>2 DEF Kept
<1>4. \A b : LinesOf(b)' = LinesOf(b) /\ Type(b)' = Type(b) /\ Level(b)' = Level(b)
  BY DEF LinesOf, Type, Level
<1>5. \A b : (Atomic(b)' <=> Atomic(b)) /\ (IsHeading(b)' <=> IsHeading(b)) /\ (BodyBlock(b)' <=> BodyBlock(b))
  BY DEF Atomic, IsHeading, BodyBlock, Type
<1>6. \A bs : Lone(bs)' <=> Lone(bs)
  BY DEF Lone, Atomic, Type
<1>7. \A bs : BlockList(bs)' <=> BlockList(bs)
  BY <1>1 DEF BlockList
<1>8. \A bs : Pages(bs)' = Pages(bs)
  BY DEF Pages
<1>9. \A bs, k : LinesUpto(bs, k)' = LinesUpto(bs, k)
  BY DEF LinesUpto, LinesOf
<1> QED BY <1>1, <1>2, <1>3, <1>4, <1>5, <1>6, <1>7, <1>8, <1>9

\* The places of lines and their characters stay what they were.
LEMMA SameText ==
  ASSUME doc' = doc, parsed' = parsed
  PROVE  /\ \A bs : Pieces(bs)' = Pieces(bs) /\ TextLength(bs)' = TextLength(bs)
         /\ \A c, n, x : Has(c, n, x)' <=> Has(c, n, x)
         /\ \A C, n : OnceIn(C, n)' <=> OnceIn(C, n)
<1>1. \A lines : Sizes(lines)' = Sizes(lines)
  BY DEF Sizes
<1>2. \A lines, from : Placed(lines, from)' = Placed(lines, from)
  BY DEF Placed, Sizes
<1>3. \A bs : Lengths(bs)' = Lengths(bs)
  BY DEF Lengths, Sizes
<1>4. \A bs : Pieces(bs)' = Pieces(bs)
  BY DEF Pieces, Lengths, Placed, Sizes
<1>5. \A bs : TextLength(bs)' = TextLength(bs)
  BY DEF TextLength, Lengths, Sizes
<1>6. \A c, n, x : Has(c, n, x)' <=> Has(c, n, x)
  BY <1>4 DEF Has
<1>7. \A C, n : OnceIn(C, n)' <=> OnceIn(C, n)
  BY <1>6 DEF OnceIn
<1> QED BY <1>4, <1>5, <1>6, <1>7

\* The headings above stay what they were.
LEMMA SameHeadings ==
  ASSUME doc' = doc, parsed' = parsed
  PROVE  /\ \A b : Above(b)' = Above(b) /\ (NoneSkipped(b)' <=> NoneSkipped(b))
         /\ \A b, p : StandsUnder(b, p)' <=> StandsUnder(b, p)
         /\ \A a, p : PathIs(a, p)' <=> PathIs(a, p)
<1>1. \A b : Above(b)' = Above(b)
  BY DEF Above, IsHeading, Type, Level
<1>2. \A b : Parents(b)' = Parents(b)
  BY <1>1, SameBlocks DEF Parents
<1>3. \A b : NoneSkipped(b)' <=> NoneSkipped(b)
  BY <1>2, SameBlocks DEF NoneSkipped
<1>4. \A b, p : StandsUnder(b, p)' <=> StandsUnder(b, p)
  BY <1>1, <1>3 DEF StandsUnder
<1>5. \A a, p : PathIs(a, p)' <=> PathIs(a, p)
  BY <1>1, <1>3, SameBlocks DEF PathIs
<1> QED BY <1>1, <1>3, <1>4, <1>5

\* Chunks stay as sound as they were.
LEMMA SameChunks ==
  ASSUME doc' = doc, parsed' = parsed
  PROVE  /\ \A c : (Fine(c)' <=> Fine(c)) /\ (Sound(c)' <=> Sound(c))
         /\ \A C, z : Packed(C, z)' <=> Packed(C, z)
         /\ \A a, p, q : Waiting(a, p, q)' <=> Waiting(a, p, q)
         /\ \A a, h : Met(a, h)' <=> Met(a, h)
         /\ \A a, p, q, h, C : Chunked(a, p, q, h, C)' <=> Chunked(a, p, q, h, C)
         /\ \A C : Settled(C)' <=> Settled(C)
<1>1. \A c : Fine(c)' <=> Fine(c)
  BY SameBlocks, SameText, SameHeadings DEF Fine
<1>2. \A c : Sound(c)' <=> Sound(c)
  BY SameBlocks, SameText, SameHeadings DEF Sound
<1>3. \A C, z : Packed(C, z)' <=> Packed(C, z)
  BY <1>1, SameBlocks, SameText DEF Packed
<1>4. \A a, p, q : Waiting(a, p, q)' <=> Waiting(a, p, q)
  BY SameBlocks, SameText, SameHeadings DEF Waiting
<1>5. \A a, h : Met(a, h)' <=> Met(a, h)
  BY SameBlocks DEF Met
<1>6. \A a, p, q, h, C : Chunked(a, p, q, h, C)' <=> Chunked(a, p, q, h, C)
  BY <1>3, <1>4, <1>5, SameHeadings DEF Chunked
<1>7. \A C : Settled(C)' <=> Settled(C)
  BY <1>2, SameBlocks, SameText DEF Settled
<1> QED BY <1>1, <1>2, <1>3, <1>4, <1>5, <1>6, <1>7

-----------------------------------------------------------------------------
(* The invariant.                                                          *)
ReadSoFar == Ledger(doc, Len(doc), format, parsed, para, code, page)

Parsing == /\ format \in Formats /\ pc \in {"read", "chunk", "done", "failed"}
           /\ ReadSoFar
           /\ pc # "read" \/ format = "docx" => para = <<>> /\ code = <<>>

ChunkingInv ==
  /\ Parsing
  /\ pc \in {"read", "failed"} => chunks = <<>>
  /\ pc = "read" => at = 1 /\ path = <<>> /\ pending = <<>> /\ headings = <<>>
  /\ pc = "chunk" => Len(parsed) > 0 /\ Chunked(at, path, pending, headings, chunks)
  /\ pc = "done" => Settled(chunks)

\* What the parser leaves is what the chunker relies on.
LEMMA ReadyIs ==
  ASSUME Ledger(doc, Len(doc), format, parsed, <<>>, <<>>, page) PROVE Ready
<1>1. /\ doc \in Seq(Lines) /\ parsed \in Seq(BlockRecord) /\ Len(doc) \in Nat /\ Len(parsed) \in Nat
      /\ DOMAIN parsed = Blocks /\ Nums = 1..Len(doc)
  BY LenProperties DEF Ledger, Blocks, Nums
<1>2. ASSUME NEW b \in Blocks PROVE Good(doc, Len(doc), format, parsed[b])
  BY <1>2 DEF Ledger, Blocks
<1>3. \A n : PagesTo(doc, n) = PageOf(n)
  BY DEF PagesTo, PageOf
<1>4. ASSUME NEW b \in Blocks
      PROVE  /\ parsed[b] \in BlockRecord /\ Len(parsed[b].lines) > 0 /\ Injective(parsed[b].lines)
             /\ \A n \in LinesOf(b) : n \in Nums
             /\ Type(b) # "code" => \A n \in LinesOf(b) : doc[n].size > 0
             /\ Type(b) # "code" /\ format # "docx" => \A n \in LinesOf(b) : PageOf(n) = parsed[b].page
             /\ Type(b) = "heading" => \A n \in LinesOf(b) : doc[n].kind = "heading"
             /\ Type(b) = "page_break" => \A n \in LinesOf(b) : doc[n].kind = "page"
             /\ BodyBlock(b) => \E n \in LinesOf(b) : doc[n].kind \notin {"blank", "page", "heading"}
  BY <1>1, <1>2, <1>3 DEF Good, LinesOf, Type, BodyBlock
<1>5. ASSUME NEW b \in Blocks
      PROVE  /\ parsed[b].lines \in Seq(Nums) /\ parsed[b].page \in Int
             /\ Type(b) \in {"paragraph", "list", "table", "code", "heading", "page_break"}
             /\ parsed[b].lines[1] \in LinesOf(b)
  <2>1. parsed[b].lines \in Seq(Nat) /\ parsed[b].page \in Nat /\ parsed[b].type \in {"paragraph", "list", "table", "code", "heading", "page_break"}
    BY <1>4 DEF BlockRecord
  <2>2. \A i \in 1..Len(parsed[b].lines) : parsed[b].lines[i] \in Nums
    BY <1>4 DEF LinesOf, Members
  <2>3. parsed[b].lines \in Seq(Nums)
    <3>1. Len(parsed[b].lines) \in Nat /\ parsed[b].lines = [i \in 1..Len(parsed[b].lines) |-> parsed[b].lines[i]]
      BY <2>1, LenProperties
    <3> QED BY <2>2, <3>1, IsASeq
  <2>4. 1 \in 1..Len(parsed[b].lines)
    BY <1>4, <2>1, LenProperties
  <2> QED BY <2>1, <2>3, <2>4 DEF Type, LinesOf, Members
<1>6. Laid
  <2>1. \A b, c \in Blocks : b # c => LinesOf(b) \cap LinesOf(c) = {}
    BY DEF Ledger, Apart, Blocks, LinesOf
  <2> QED BY <1>4, <1>5, <2>1 DEF Laid
<1>7. \A n \in Nums : doc[n].kind # "blank" => \E b \in Blocks : n \in LinesOf(b)
  BY <1>1, MembersEmpty DEF Ledger, Listed, Blocks, LinesOf
<1>8. ASSUME NEW b \in Blocks, Type(b) = "heading" PROVE Level(b) \in Nat \ {0}
  <2>1. doc[parsed[b].lines[1]].kind = "heading" /\ parsed[b].lines[1] \in Nums
    BY <1>4, <1>5, <1>8
  <2>2. doc[parsed[b].lines[1]] \in Lines
    BY <1>1, <2>1, ElementOfSeq
  <2> QED BY <2>1, <2>2, ChunkingAssumption DEF Level
<1>9. \A b \in Blocks : BodyBlock(b) => LinesOf(b) \cap Body # {}
  <2>1. DOMAIN doc = Nums
    BY <1>1, LenProperties
  <2> QED BY <1>4, <2>1 DEF Body
<1>10. Written /\ Paged
  BY <1>1, <1>5 DEF Written, Paged
<1>11. \A b \in Blocks : Type(b) # "code" => Solid(b)
  BY <1>4 DEF Solid
<1> QED BY <1>1, <1>4, <1>5, <1>6, <1>7, <1>8, <1>9, <1>10, <1>11 DEF Ready

\* Once the text is read, the chunker can rely on it.
LEMMA ReadyNow ==
  ASSUME ChunkingInv, pc # "read" PROVE Ready
<1>1. Ledger(doc, Len(doc), format, parsed, <<>>, <<>>, page)
  BY DEF ChunkingInv, Parsing, ReadSoFar
<1> QED BY <1>1, ReadyIs

\* What every reading step starts from: the text with the line, and the paragraph closed.
LEMMA ReadLine ==
  ASSUME ReadSoFar, NEW l \in Lines, Read(l)
  PROVE  /\ doc' \in Seq(Lines) /\ Len(doc') = Number /\ doc'[Number] = l /\ Len(doc) \in Nat /\ Len(doc) < Len(doc')
         /\ Ledger(doc', Len(doc), format, parsed, para, code, page)
         /\ Ledger(doc', Len(doc), format, Flushed, <<>>, code, page)
         /\ format # "docx" => PagesTo(doc', Number) = page + IF l.kind = "page" THEN 1 ELSE 0
         /\ page \in Nat
<1>1. doc' = Append(doc, l)
  BY DEF Read
<1>2. doc \in Seq(Lines) /\ Len(doc) \in Nat /\ page \in Nat
  BY LenProperties DEF ReadSoFar, Ledger
<1>3. /\ Ledger(doc', Len(doc), format, parsed, para, code, page)
      /\ Len(doc') = Len(doc) + 1 /\ doc'[Len(doc) + 1] = l
  BY <1>1, LedgerLonger DEF ReadSoFar
<1>4. Ledger(doc', Len(doc), format, Flushed, <<>>, code, page)
  BY <1>3, LedgerFlushes DEF Flushed
<1>5. Len(doc) < Len(doc')
  BY <1>2, <1>3
<1>6. format # "docx" => PagesTo(doc', Len(doc) + 1) = page + IF l.kind = "page" THEN 1 ELSE 0
  BY <1>3, <1>5, LedgerNext
<1>7. doc' \in Seq(Lines)
  BY <1>3 DEF Ledger
<1> QED BY <1>2, <1>3, <1>4, <1>5, <1>6, <1>7 DEF Number

\* Each step of the parser keeps its account of the lines.
LEMMA ReadsPageMark ==
  ASSUME ReadSoFar, NEW l \in Lines, PageMark(l) PROVE ReadSoFar'
<1>1. /\ doc' \in Seq(Lines) /\ Len(doc') = Number /\ doc'[Number] = l /\ Len(doc) \in Nat /\ Len(doc) < Len(doc')
      /\ Ledger(doc', Len(doc), format, Flushed, <<>>, code, page)
      /\ format # "docx" => PagesTo(doc', Number) = page + IF l.kind = "page" THEN 1 ELSE 0
      /\ page \in Nat
  BY ReadLine DEF PageMark
<1>2. /\ l.kind = "page" /\ parsed' = Append(Flushed, Block("page_break", <<Number>>, page + 1))
      /\ para' = <<>> /\ page' = page + 1 /\ code' = code /\ format' = format /\ format # "docx"
  BY DEF PageMark, Read
<1>3. Number = Len(doc) + 1 /\ page + 1 \in Nat /\ PagesTo(doc', Number) = page + 1
  BY <1>1, <1>2 DEF Number
<1>4. Ledger(doc', Len(doc) + 1, format, Append(Flushed, Block("page_break", <<Len(doc) + 1>>, page + 1)), <<>>, code, page + 1)
  BY <1>1, <1>2, <1>3, LedgerBlock
<1> QED BY <1>1, <1>2, <1>3, <1>4 DEF ReadSoFar

LEMMA ReadsSingle ==
  ASSUME ReadSoFar, NEW l \in Lines, Single(l) PROVE ReadSoFar'
<1>1. /\ doc' \in Seq(Lines) /\ Len(doc') = Number /\ doc'[Number] = l /\ Len(doc) \in Nat /\ Len(doc) < Len(doc')
      /\ Ledger(doc', Len(doc), format, Flushed, <<>>, code, page)
      /\ format # "docx" => PagesTo(doc', Number) = page + IF l.kind = "page" THEN 1 ELSE 0
      /\ page \in Nat
  BY ReadLine DEF Single
<1>2. /\ l.kind \in {"heading", "list"} /\ parsed' = Append(Flushed, Block(l.kind, <<Number>>, page))
      /\ para' = <<>> /\ page' = page /\ code' = code /\ format' = format /\ format # "docx"
  BY DEF Single, Read
<1>3. Number = Len(doc) + 1 /\ PagesTo(doc', Number) = page
  BY <1>1, <1>2 DEF Number
<1>4. Ledger(doc', Len(doc) + 1, format, Append(Flushed, Block(l.kind, <<Len(doc) + 1>>, page)), <<>>, code, page)
  BY <1>1, <1>2, <1>3, LedgerBlock
<1> QED BY <1>1, <1>2, <1>3, <1>4 DEF ReadSoFar

LEMMA ReadsBlank ==
  ASSUME ReadSoFar, NEW l \in Lines, Blank(l) PROVE ReadSoFar'
<1>1. /\ doc' \in Seq(Lines) /\ Len(doc') = Number /\ doc'[Number] = l /\ Len(doc) < Len(doc')
      /\ Ledger(doc', Len(doc), format, Flushed, <<>>, code, page)
  BY ReadLine DEF Blank
<1>2. /\ l.kind = "blank" /\ parsed' = Flushed
      /\ para' = <<>> /\ page' = page /\ code' = code /\ format' = format
  BY DEF Blank, Read
<1>3. Number = Len(doc) + 1
  BY DEF Number
<1>4. Ledger(doc', Len(doc) + 1, format, Flushed, <<>>, code, page)
  BY <1>1, <1>2, <1>3, LedgerSkips
<1> QED BY <1>1, <1>2, <1>3, <1>4 DEF ReadSoFar

LEMMA ReadsTextLine ==
  ASSUME ReadSoFar, NEW l \in Lines, TextLine(l) PROVE ReadSoFar'
<1>1. /\ doc' \in Seq(Lines) /\ Len(doc') = Number /\ doc'[Number] = l /\ Len(doc) < Len(doc')
      /\ Ledger(doc', Len(doc), format, parsed, para, code, page)
  BY ReadLine DEF TextLine
<1>2. /\ l.kind \in {"text", "fence"} /\ parsed' = parsed /\ code = <<>>
      /\ para' = Append(para, Number) /\ page' = page /\ code' = code /\ format' = format
  BY DEF TextLine, Read
<1>3. Number = Len(doc) + 1
  BY DEF Number
<1>4. Ledger(doc', Len(doc) + 1, format, parsed, Append(para, Len(doc) + 1), <<>>, page)
  BY <1>1, <1>2, <1>3, LedgerOpen
<1> QED BY <1>1, <1>2, <1>3, <1>4 DEF ReadSoFar

LEMMA ReadsCodeLine ==
  ASSUME ReadSoFar, NEW l \in Lines, CodeLine(l) PROVE ReadSoFar'
<1>1. /\ doc' \in Seq(Lines) /\ Len(doc') = Number /\ doc'[Number] = l /\ Len(doc) < Len(doc')
      /\ Ledger(doc', Len(doc), format, parsed, para, code, page)
  BY ReadLine DEF CodeLine
<1>2. /\ l.kind # "page" /\ parsed' = parsed /\ code # <<>>
      /\ code' = Append(code, Number) /\ page' = page /\ para' = para /\ format' = format
  BY DEF CodeLine, Read
<1>3. Number = Len(doc) + 1 /\ para = <<>>
  BY <1>2 DEF Number, ReadSoFar, Ledger
<1>4. Ledger(doc', Len(doc) + 1, format, parsed, <<>>, Append(code, Len(doc) + 1), page)
  BY <1>1, <1>2, <1>3, LedgerOpen
<1> QED BY <1>1, <1>2, <1>3, <1>4 DEF ReadSoFar

LEMMA ReadsFence ==
  ASSUME ReadSoFar, NEW l \in Lines, Fence(l) PROVE ReadSoFar'
<1>1. /\ doc' \in Seq(Lines) /\ Len(doc') = Number /\ doc'[Number] = l /\ Len(doc) < Len(doc')
      /\ Ledger(doc', Len(doc), format, parsed, para, code, page)
      /\ Ledger(doc', Len(doc), format, Flushed, <<>>, code, page)
  BY ReadLine DEF Fence
<1>2. l.kind = "fence" /\ page' = page /\ format' = format
  BY DEF Fence, Read
<1>3. Number = Len(doc) + 1
  BY DEF Number
<1>4. CASE code = <<>>
  <2>1. parsed' = Flushed /\ para' = <<>> /\ code' = <<Number>>
    BY <1>4 DEF Fence
  <2>2. Ledger(doc', Len(doc) + 1, format, Flushed, <<>>, Append(code, Len(doc) + 1), page)
    BY <1>1, <1>2, <1>3, LedgerOpen
  <2>3. code' = Append(code, Len(doc) + 1)
    BY <1>3, <1>4, <2>1
  <2> QED BY <1>1, <1>2, <1>3, <2>1, <2>2, <2>3 DEF ReadSoFar
<1>5. CASE code # <<>>
  <2>1. /\ parsed' = Append(parsed, Block("code", Append(code, Number), page))
        /\ code' = <<>> /\ para' = para
    BY <1>5 DEF Fence
  <2>2. para = <<>>
    BY <1>5 DEF ReadSoFar, Ledger
  <2> DEFINE c == Append(code, Len(doc) + 1)
  <2>3. Ledger(doc', Len(doc) + 1, format, parsed, <<>>, c, page)
    BY <1>1, <1>2, <1>3, <1>5, <2>2, LedgerOpen
  <2>4. c # <<>>
    <3>1. code \in Seq(Nat) /\ Len(doc) + 1 \in Nat
      BY LenProperties DEF ReadSoFar, Ledger
    <3> QED BY <3>1, LineAppend
  <2> HIDE DEF c
  <2>5. Ledger(doc', Len(doc) + 1, format, Append(parsed, Block("code", c, page)), <<>>, <<>>, page)
    BY <2>3, <2>4, LedgerEndsCode
  <2> QED BY <1>1, <1>2, <1>3, <2>1, <2>2, <2>5 DEF ReadSoFar, c
<1> QED BY <1>4, <1>5

LEMMA ReadsElement ==
  ASSUME ReadSoFar, NEW l \in Lines, Element(l), para = <<>> PROVE ReadSoFar'
<1>1. /\ doc' \in Seq(Lines) /\ Len(doc') = Number /\ doc'[Number] = l /\ Len(doc) < Len(doc')
      /\ Ledger(doc', Len(doc), format, parsed, para, code, page) /\ page \in Nat
  BY ReadLine DEF Element
<1>2. /\ l.kind \in {"text", "heading", "table", "blank"} /\ para' = para
      /\ page' = page /\ code' = code /\ format' = format /\ format = "docx"
      /\ parsed' = IF l.kind = "blank" THEN parsed
                   ELSE Append(parsed, Block(IF l.kind = "text" THEN "paragraph" ELSE l.kind, <<Number>>, 0))
  BY DEF Element, Read
<1>3. Number = Len(doc) + 1
  BY DEF Number
<1>4. CASE l.kind = "blank"
  <2>1. Ledger(doc', Len(doc) + 1, format, parsed, para, code, page)
    BY <1>1, <1>3, <1>4, LedgerSkips
  <2> QED BY <1>1, <1>2, <1>3, <1>4, <2>1 DEF ReadSoFar
<1>5. CASE l.kind # "blank"
  <2> DEFINE t == IF l.kind = "text" THEN "paragraph" ELSE l.kind
  <2>1. /\ t \in {"paragraph", "list", "table", "heading", "page_break"} /\ t # "page_break"
        /\ t = "heading" => l.kind = "heading"
        /\ t \notin {"heading", "page_break"} => l.kind \notin {"page", "heading"}
    BY <1>2, <1>5
  <2>2. parsed' = Append(parsed, Block(t, <<Len(doc) + 1>>, 0))
    BY <1>2, <1>3, <1>5
  <2> HIDE DEF t
  <2>3. 0 \in Nat
    OBVIOUS
  <2>4. Ledger(doc', Len(doc) + 1, format, Append(parsed, Block(t, <<Len(doc) + 1>>, 0)), <<>>, code, page)
    BY <1>1, <1>2, <1>3, <1>5, <2>1, <2>3, LedgerBlock
  <2> QED BY <1>1, <1>2, <1>3, <2>2, <2>4 DEF ReadSoFar
<1> QED BY <1>4, <1>5

\* A line that is read keeps the invariant.
LEMMA Reads ==
  ASSUME ChunkingInv, NEW l \in Lines,
         PageMark(l) \/ Fence(l) \/ CodeLine(l) \/ Single(l) \/ Blank(l) \/ TextLine(l) \/ Element(l)
  PROVE  ChunkingInv'
<1>1. /\ ReadSoFar /\ format \in Formats /\ (format = "docx" => para = <<>> /\ code = <<>>)
      /\ pc = "read" => chunks = <<>> /\ at = 1 /\ path = <<>> /\ pending = <<>> /\ headings = <<>>
  BY DEF ChunkingInv, Parsing
<1>2. pc = "read" /\ pc' = pc /\ format' = format /\ UNCHANGED <<at, path, pending, headings, chunks>>
  BY DEF PageMark, Fence, CodeLine, Single, Blank, TextLine, Element, Read, chunking
<1>3. ReadSoFar'
  <2>1. CASE Element(l)
    <3>1. para = <<>>
      BY <1>1, <2>1 DEF Element
    <3> QED BY <1>1, <2>1, <3>1, ReadsElement
  <2> QED BY <1>1, <2>1, ReadsPageMark, ReadsFence, ReadsCodeLine, ReadsSingle, ReadsBlank, ReadsTextLine
<1>4. format = "docx" => para' = <<>> /\ code' = <<>>
  BY <1>1 DEF PageMark, Fence, CodeLine, Single, Blank, TextLine, Element
<1> QED BY <1>1, <1>2, <1>3, <1>4 DEF ChunkingInv, Parsing

\* The chunker begins with no block taken.
LEMMA StartsChunking ==
  ASSUME Len(parsed') \in Nat PROVE Chunked(1, <<>>, <<>>, <<>>, <<>>)'
<1>1. /\ \A S : <<>> \in Seq(S)
      /\ Len(<<>>) = 0 /\ 1..Len(<<>>) = {} /\ 1..(Len(<<>>) - 1) = {} /\ Members(<<>>) = {} /\ Increasing(<<>>)
  BY EmptySeq DEF Members, Increasing
<1>2. 1 \in 1..(Len(parsed') + 1) /\ 1..(1 - 1) = {}
  OBVIOUS
<1>3. PathIs(1, <<>>)'
  <2>1. Above(1)' = {}
    BY <1>2 DEF Above
  <2> QED BY <1>1, <2>1 DEF PathIs
<1>4. Waiting(1, <<>>, <<>>)'
  BY <1>1 DEF Waiting
<1>5. \A b \in Blocks' : ~(b < 1)
  BY DEF Blocks
<1>6. Met(1, <<>>)'
  BY <1>1, <1>5 DEF Met
<1>7. Packed(<<>>, 1)'
  BY <1>1, <1>5 DEF Packed
<1> QED BY <1>2, <1>3, <1>4, <1>6, <1>7 DEF Chunked

\* The end of the text keeps the invariant.
LEMMA EndsText ==
  ASSUME ChunkingInv, EndOfText PROVE ChunkingInv'
<1>1. /\ ReadSoFar /\ format \in Formats /\ pc = "read"
      /\ chunks = <<>> /\ at = 1 /\ path = <<>> /\ pending = <<>> /\ headings = <<>>
  BY DEF ChunkingInv, Parsing, EndOfText
<1>2. /\ parsed' = Closed /\ para' = <<>> /\ code' = <<>>
      /\ pc' = IF Closed = <<>> THEN "failed" ELSE "chunk"
      /\ UNCHANGED <<format, doc, page, at, path, pending, headings, chunks>>
  BY DEF EndOfText, chunking
<1>3. Ledger(doc, Len(doc), format, Closed, <<>>, <<>>, page)
  <2>1. CASE code = <<>>
    BY <1>1, <2>1, LedgerFlushes DEF ReadSoFar, Closed, Flushed
  <2>2. CASE code # <<>>
    BY <1>1, <2>2, LedgerEndsCode DEF ReadSoFar, Closed
  <2> QED BY <2>1, <2>2
<1>4. ReadSoFar'
  BY <1>2, <1>3 DEF ReadSoFar
<1>5. Closed \in Seq(BlockRecord)
  BY <1>3 DEF Ledger
<1>6. Len(parsed') \in Nat /\ (Closed # <<>> => Len(parsed') > 0)
  BY <1>2, <1>5, EmptySeq, LenProperties
<1>7. Chunked(at, path, pending, headings, chunks)'
  BY <1>1, <1>2, <1>6, StartsChunking
<1> QED BY <1>1, <1>2, <1>4, <1>6, <1>7 DEF ChunkingInv, Parsing

\* A step of the chunker keeps the invariant.
LEMMA Chunks ==
  ASSUME ChunkingInv, SkipBreak \/ TakeHeading \/ TakeAtomic \/ TakeBody \/ ChunkEnd
  PROVE  ChunkingInv'
<1>1. /\ pc = "chunk" /\ Parsing /\ Len(parsed) > 0
      /\ Chunked(at, path, pending, headings, chunks)
  BY DEF ChunkingInv, SkipBreak, TakeHeading, TakeAtomic, TakeBody, ChunkEnd, Take
<1>2. Ready
  BY <1>1, ReadyNow
<1>3. UNCHANGED <<format, doc, parsed, para, code, page>>
  BY DEF SkipBreak, TakeHeading, TakeAtomic, TakeBody, ChunkEnd, Take, reading
<1>4. (pc' = "chunk" \/ pc' = "done") => Parsing'
  BY <1>1, <1>3 DEF Parsing, ReadSoFar
<1>5. CASE SkipBreak \/ TakeHeading \/ TakeAtomic \/ TakeBody
  <2>1. pc' = "chunk" /\ at' = at + 1 /\ at <= Len(parsed)
    BY <1>1, <1>5 DEF SkipBreak, TakeHeading, TakeAtomic, TakeBody, Take
  <2>2. at \in Blocks
    BY <1>1, <2>1 DEF Chunked, Blocks
  <2>3. \A a, p, q, h, C : Chunked(a, p, q, h, C)' <=> Chunked(a, p, q, h, C)
    BY <1>3, SameChunks
  <2>4. CASE SkipBreak
    <3>1. UNCHANGED <<path, pending, headings, chunks>> /\ Type(at) = "page_break"
      BY <2>4 DEF SkipBreak
    <3>2. Chunked(at + 1, path, pending, headings, chunks)
      BY <1>1, <1>2, <2>2, <3>1, StepBreak
    <3>3. Chunked(at, path, pending, headings, chunks)'
      BY <2>1, <2>3, <3>1, <3>2
    <3> QED BY <1>1, <1>3, <1>4, <2>1, <3>3 DEF ChunkingInv
  <2>5. CASE TakeHeading
    <3>1. /\ chunks' = EmitPending /\ pending' = <<>> /\ headings' = Append(headings, at)
          /\ path' = Under(path, at) /\ Type(at) = "heading"
      BY <2>5 DEF TakeHeading
    <3>2. Chunked(at + 1, Under(path, at), <<>>, Append(headings, at), EmitPending)
      BY <1>1, <1>2, <2>2, <3>1, StepHeading
    <3>3. Chunked(at, path, pending, headings, chunks)'
      BY <2>1, <2>3, <3>1, <3>2
    <3> QED BY <1>1, <1>3, <1>4, <2>1, <3>3 DEF ChunkingInv
  <2>6. CASE TakeAtomic
    <3>1. /\ chunks' = EmitPending \o Emit(<<at>>, path) /\ pending' = <<>> /\ headings' = headings
          /\ path' = path /\ Atomic(at)
      BY <2>6 DEF TakeAtomic
    <3>2. Chunked(at + 1, path, <<>>, headings, EmitPending \o Emit(<<at>>, path))
      BY <1>1, <1>2, <2>2, <3>1, StepAtomic
    <3>3. Chunked(at, path, pending, headings, chunks)'
      BY <2>1, <2>3, <3>1, <3>2
    <3> QED BY <1>1, <1>3, <1>4, <2>1, <3>3 DEF ChunkingInv
  <2>7. CASE TakeBody
    <3>1. Type(at) \in {"paragraph", "list"} /\ path' = path /\ headings' = headings
      BY <2>7 DEF TakeBody
    <3>2. CASE pending # <<>> /\ Fits(at)
      <4>1. pending' = Append(pending, at) /\ chunks' = chunks
        BY <2>7, <3>2 DEF TakeBody
      <4>2. Chunked(at + 1, path, Append(pending, at), headings, chunks)
        BY <1>1, <1>2, <2>2, <3>1, <3>2, StepJoin
      <4>3. Chunked(at, path, pending, headings, chunks)'
        BY <2>1, <2>3, <3>1, <4>1, <4>2
      <4> QED BY <1>1, <1>3, <1>4, <2>1, <4>3 DEF ChunkingInv
    <3>3. CASE ~(pending # <<>> /\ Fits(at))
      <4>1. pending' = <<at>> /\ chunks' = EmitPending
        BY <2>7, <3>3 DEF TakeBody
      <4>2. Chunked(at + 1, path, <<at>>, headings, EmitPending)
        BY <1>1, <1>2, <2>2, <3>1, StepStart
      <4>3. Chunked(at, path, pending, headings, chunks)'
        BY <2>1, <2>3, <3>1, <4>1, <4>2
      <4> QED BY <1>1, <1>3, <1>4, <2>1, <4>3 DEF ChunkingInv
    <3> QED BY <3>2, <3>3
  <2> QED BY <1>5, <2>4, <2>5, <2>6, <2>7
<1>6. CASE ChunkEnd
  <2>1. chunks' = Remaining /\ pc' = "done" /\ at > Len(parsed)
    BY <1>6 DEF ChunkEnd
  <2>2. Settled(Remaining)
    BY <1>1, <1>2, <2>1, RemainingIs
  <2>3. Settled(chunks)'
    BY <1>3, <2>1, <2>2, SameChunks
  <2> QED BY <1>4, <2>1, <2>3 DEF ChunkingInv
<1> QED BY <1>5, <1>6

\* The invariant holds of an empty text.
LEMMA StartsReading ==
  ASSUME ChunkingInit PROVE ChunkingInv
<1>1. /\ \A S : <<>> \in Seq(S)
      /\ Len(<<>>) = 0 /\ 1..Len(<<>>) = {} /\ Members(<<>>) = {}
  BY EmptySeq DEF Members
<1>2. PagesTo(<<>>, 0) = 0
  <2>1. {k \in 1..0 : <<>>[k].kind = "page"} = {}
    OBVIOUS
  <2> QED BY <2>1, FS_EmptySet DEF PagesTo
<1>3. Ledger(<<>>, 0, format, <<>>, <<>>, <<>>, 0)
  BY <1>1, <1>2 DEF Ledger, Apart
<1>4. /\ format \in Formats /\ doc = <<>> /\ parsed = <<>> /\ para = <<>> /\ code = <<>> /\ page = 0 /\ pc = "read"
      /\ at = 1 /\ path = <<>> /\ pending = <<>> /\ headings = <<>> /\ chunks = <<>>
  BY DEF ChunkingInit
<1>5. ReadSoFar
  BY <1>1, <1>3, <1>4 DEF ReadSoFar
<1> QED BY <1>4, <1>5 DEF ChunkingInv, Parsing

\* Stuttering keeps the invariant.
LEMMA ChunkingStays ==
  ASSUME ChunkingInv, UNCHANGED chunkingVars PROVE ChunkingInv'
<1>1. UNCHANGED <<format, doc, parsed, para, code, page, pc, at, path, pending, headings, chunks>>
  BY DEF chunkingVars, reading, chunking
<1>2. Parsing'
  BY <1>1 DEF ChunkingInv, Parsing, ReadSoFar
<1>3. pc = "chunk" => Chunked(at, path, pending, headings, chunks)'
  BY <1>1, SameChunks DEF ChunkingInv
<1>4. pc = "done" => Settled(chunks)'
  BY <1>1, SameChunks DEF ChunkingInv
<1> QED BY <1>1, <1>2, <1>3, <1>4 DEF ChunkingInv

(* Whatever is read and however it is packed, the parser accounts for      *)
(* every line, and the chunker for every block before the next one.        *)
THEOREM ChunkingInvariant == ChunkingSpec => []ChunkingInv
<1>1. ASSUME ChunkingInv, [ChunkingNext]_chunkingVars PROVE ChunkingInv'
  BY <1>1, Reads, EndsText, Chunks, ChunkingStays DEF ChunkingNext
<1> QED BY <1>1, StartsReading, PTL DEF ChunkingSpec

\* The invariant implies the three properties.
LEMMA ChunkingProperties ==
  ASSUME ChunkingInv PROVE NothingLost /\ CutOnlyWhenLong /\ PlaceCited
<1>1. pc = "done" => NothingLost /\ CutOnlyWhenLong /\ PlaceCited
  <2>1. ASSUME pc = "done" PROVE NothingLost /\ CutOnlyWhenLong /\ PlaceCited
    <3>1. Settled(chunks) /\ Ready
      BY <2>1, ReadyNow DEF ChunkingInv
    <3> QED BY <3>1, SoundProperties, SettledProperties DEF Settled
  <2> QED BY <2>1
<1>2. pc = "chunk" => CutOnlyWhenLong /\ PlaceCited
  <2>1. ASSUME pc = "chunk" PROVE CutOnlyWhenLong /\ PlaceCited
    <3>1. Chunked(at, path, pending, headings, chunks) /\ Ready
      BY <2>1, ReadyNow DEF ChunkingInv
    <3>2. chunks \in Seq(ChunkRecord) /\ \A k \in 1..Len(chunks) : Sound(chunks[k])
      BY <3>1, FineSound DEF Chunked, Packed
    <3> QED BY <3>1, <3>2, SoundProperties
  <2> QED BY <2>1
<1>3. chunks = <<>> => CutOnlyWhenLong /\ PlaceCited
  <2>1. chunks = <<>> => DOMAIN chunks = {}
    OBVIOUS
  <2> QED BY <2>1 DEF CutOnlyWhenLong, PlaceCited
<1>4. pc # "done" => NothingLost
  BY DEF NothingLost
<1> QED BY <1>1, <1>2, <1>3, <1>4 DEF ChunkingInv, Parsing

(* Every character of the text that is no heading is in exactly one chunk, *)
(* and chunks are in its order, for every text, every format and every     *)
(* bound on a chunk.                                                       *)
THEOREM TextKept == ChunkingSpec => []NothingLost
  BY ChunkingInvariant, ChunkingProperties, PTL

(* No chunk is longer than max_chars but a table or code block alone, and  *)
(* no block that fits is cut, for every text and bound.                    *)
THEOREM TextCut == ChunkingSpec => []CutOnlyWhenLong
  BY ChunkingInvariant, ChunkingProperties, PTL

(* The path and pages of a chunk are the headings above its blocks and the *)
(* pages of its lines, for every text in which no level is skipped and no  *)
(* page mark is within code.                                               *)
THEOREM PlacesCited == ChunkingSpec => []PlaceCited
  BY ChunkingInvariant, ChunkingProperties, PTL

-----------------------------------------------------------------------------
(* The life of index versions.                                             *)

USE DEF Validate, Parse, Clean, Chunk, Embed, Index, Publish, Cleanup,
        WorkStage

---------------------------------------------------------------------------
(* Types.                                                                  *)

(* What an administrator, or a job's stage, does to the jobs. *)
JobsTyped ==
  /\ phase \in [Job -> {"absent", "live", "success", "failed", "cancelled"}]
  /\ begin \in [Job -> WorkStage]
  /\ effects \in [Job -> [WorkStage -> {0, 1}]]
  /\ jobType \in [Job -> AllJobTypes]

Reading == [ivs : SUBSET IndexVersion, bare : SUBSET IndexVersion,
            hash : 0..MaxPolicy, audience : Audience, searchable : BOOLEAN]

TxsTyped ==
  /\ step \in [Job -> {"idle", "embedding", "indexing", "upserted", "publishing",
                      "activated", "refreshing"}]
  /\ saw \in [Job -> Reading]

LEMMA TypeParts == TypeOK => JobsTyped /\ TxsTyped
BY DEF TypeOK, JobsTyped, TxsTyped, Reading

LEMMA NothingIsReading == Nothing \in Reading
BY SizesAssumption DEF Nothing, Reading, Audience

LEMMA GoTyped ==
  ASSUME TypeOK, NEW j \in Job, NEW r \in Reading, 
         NEW p \in {"idle", "embedding", "indexing", "upserted", "publishing",
                    "activated", "refreshing"},
         Go(j, p, r)
  PROVE  JobsTyped' /\ TxsTyped'
BY TypeParts DEF Go, JobsTyped, TxsTyped, jobs

LEMMA CommitTyped ==
  ASSUME TypeOK, NEW j \in Job, NEW s \in WorkStage, Commit(j, s)
  PROVE  JobsTyped' /\ TxsTyped'
BY TypeParts, NothingIsReading
   DEF Commit, Jobs!Perform, JobsTyped, TxsTyped

LEMMA EnqueueTyped ==
  ASSUME TypeOK, NEW j \in Job, NEW t \in AllJobTypes, NEW s \in WorkStage,
         Enqueue(j, t, s)
  PROVE  JobsTyped' /\ TxsTyped'
BY TypeParts DEF Enqueue, Jobs!Create, JobsTyped, TxsTyped, txs

LEMMA InitTyped == Init => TypeOK
<1> SUFFICES ASSUME Init PROVE TypeOK  OBVIOUS
<1>1. TxsTyped  BY NothingIsReading DEF Init, TxsTyped
<1>2. /\ life \in {"draft", "active", "archived", "deleted"}
      /\ idx \in {"none", "indexing", "indexed", "blocked"}
      /\ audience \in Audience
      /\ policy \in 0..MaxPolicy
      /\ version \in {"draft", "parsed", "chunked", "active"}
      /\ chunk \in {"none", "draft", "active"}
      /\ tight \in Nat
  BY SizesAssumption DEF Init
<1>3. /\ status \in [IndexVersion -> {"absent", "active"} \cup Draft \cup Past]
      /\ hash \in [IndexVersion -> 0..MaxPolicy]
      /\ refs \in [IndexVersion -> {"none", "draft", "active", "deleted"}]
      /\ drafts \in [IndexVersion -> Nat]
      /\ shown \in [IndexVersion -> Audience]
      /\ point \in [IndexVersion -> {"none", "draft", "active", "hidden"}]
  BY SizesAssumption DEF Init, Audience
<1>4. JobsTyped  BY DEF Init, JobsTyped, AllJobTypes
<1>5. gone \in BOOLEAN /\ barred \in BOOLEAN  BY Zenon DEF Init
<1> QED  BY <1>1, <1>2, <1>3, <1>4, <1>5 DEF TypeOK, TxsTyped, Reading, JobsTyped

LEMMA StepTyped == TypeOK /\ [Next]_vars => TypeOK'
<1> SUFFICES ASSUME TypeOK, [Next]_vars PROVE TypeOK'  OBVIOUS
<1> DEFINE Typed == JobsTyped' /\ TxsTyped'
<1> USE DEF document, blocks, indexes
<1>1. ASSUME NEW j \in Job, ValidateStage(j) PROVE TypeOK'
  <2>1. Typed  BY <1>1, CommitTyped DEF ValidateStage
  <2> QED  BY <1>1, <2>1 DEF ValidateStage, TypeOK, JobsTyped, TxsTyped, Reading
<1>2. ASSUME NEW j \in Job, ParseStage(j) \/ CleanStage(j) \/ ChunkStage(j)
      PROVE  TypeOK'
  <2>1. Typed  BY <1>2, CommitTyped DEF ParseStage, CleanStage, ChunkStage
  <2> QED  BY <1>2, <2>1 DEF ParseStage, CleanStage, ChunkStage, TypeOK,
                             JobsTyped, TxsTyped, Reading
<1>3. ASSUME NEW j \in Job, EmbedKeeps(j) PROVE TypeOK'
  <2>1. Typed  BY <1>3, CommitTyped DEF EmbedKeeps
  <2> QED  BY <1>3, <2>1 DEF EmbedKeeps, TypeOK, JobsTyped, TxsTyped, Reading
<1>4. ASSUME NEW j \in Job, EmbedRead(j) PROVE TypeOK'
  <2>1. [Nothing EXCEPT !.hash = policy] \in Reading
    BY NothingIsReading DEF TypeOK, Nothing, Reading
  <2>2. Typed  BY <1>4, <2>1, GoTyped DEF EmbedRead
  <2> QED  BY <1>4, <2>2 DEF EmbedRead, TypeOK, JobsTyped, TxsTyped, Reading
<1>5. ASSUME NEW j \in Job, NEW i \in IndexVersion, EmbedCommit(j, i)
      PROVE  TypeOK'
  <2>1. Typed  BY <1>5, CommitTyped DEF EmbedCommit
  <2>2. saw[j].hash \in 0..MaxPolicy  BY DEF TypeOK
  <2> QED  BY <1>5, <2>1, <2>2
           DEF EmbedCommit, TypeOK, JobsTyped, TxsTyped, Reading, Draft
<1>6. ASSUME NEW j \in Job, IndexRead(j) PROVE TypeOK'
  <2> DEFINE D == {i \in IndexVersion : status[i] = "draft"}
  <2>1. [Nothing EXCEPT !.ivs = D, !.bare = Unreferenced(D),
                        !.audience = audience] \in Reading
    BY NothingIsReading DEF TypeOK, Nothing, Reading, Unreferenced
  <2>2. Typed  BY <1>6, <2>1, GoTyped DEF IndexRead
  <2> QED  BY <1>6, <2>2 DEF IndexRead, TypeOK, JobsTyped, TxsTyped, Reading
<1>7. ASSUME NEW j \in Job, IndexWrite(j) PROVE TypeOK'
  <2>1. PICK F \in SUBSET saw[j].bare : Go(j, "upserted", [saw[j] EXCEPT !.bare = F])
    BY <1>7 DEF IndexWrite
  <2>2. saw[j] \in Reading  BY DEF TypeOK, Reading
  <2>3. [saw[j] EXCEPT !.bare = F] \in Reading  BY <2>2 DEF Reading
  <2>4. Typed  BY <2>1, <2>3, GoTyped
  <2> QED  BY <1>7, <2>4 DEF IndexWrite, TypeOK, JobsTyped, TxsTyped, Reading
<1>8. ASSUME NEW j \in Job, IndexCommit(j) PROVE TypeOK'
  <2>1. Typed  BY <1>8, CommitTyped DEF IndexCommit
  <2>2. saw[j].audience \in Audience  BY DEF TypeOK
  <2>3. drafts' \in [IndexVersion -> Nat] /\ shown' \in [IndexVersion -> Audience]
    BY <1>8, <2>2 DEF IndexCommit, TypeOK
  <2>4. refs' \in [IndexVersion -> {"none", "draft", "active", "deleted"}]
    BY <1>8 DEF IndexCommit, TypeOK
  <2>5. status' \in [IndexVersion -> {"absent", "active"} \cup Draft \cup Past]
    BY <1>8 DEF IndexCommit, TypeOK, Draft
  <2> QED  BY <1>8, <2>1, <2>3, <2>4, <2>5
           DEF IndexCommit, TypeOK, JobsTyped, TxsTyped, Reading
<1>9. ASSUME NEW j \in Job, PublishRead(j) PROVE TypeOK'
  <2> DEFINE L == {i \in IndexVersion : status[i] = "ready" /\ hash[i] = policy}
  <2>1. [Nothing EXCEPT !.ivs = L] \in Reading
    BY NothingIsReading DEF Nothing, Reading
  <2>2. Typed  BY <1>9, <2>1, GoTyped DEF PublishRead
  <2> QED  BY <1>9, <2>2 DEF PublishRead, TypeOK, JobsTyped, TxsTyped, Reading
<1>10. ASSUME NEW j \in Job, PublishWrite(j) PROVE TypeOK'
  <2>1. saw[j] \in Reading  BY DEF TypeOK, Reading
  <2>2. Typed  BY <1>10, <2>1, GoTyped DEF PublishWrite
  <2>3. point' \in [IndexVersion -> {"none", "draft", "active", "hidden"}]
    BY <1>10 DEF PublishWrite, Activated, TypeOK
  <2>4. UNCHANGED <<document, blocks, status, hash, refs, drafts, shown>>
    BY <1>10 DEF PublishWrite
  <2> QED  BY <2>2, <2>3, <2>4 DEF TypeOK, JobsTyped, TxsTyped, Reading, document, blocks
<1>11. ASSUME NEW j \in Job, PublishCommit(j) PROVE TypeOK'
  <2>1. Typed  BY <1>11, CommitTyped DEF PublishCommit
  <2>2. status' \in [IndexVersion -> {"absent", "active"} \cup Draft \cup Past]
    BY <1>11 DEF PublishCommit, Switched, TypeOK, Past
  <2>3. point' \in [IndexVersion -> {"none", "draft", "active", "hidden"}]
    BY <1>11 DEF PublishCommit, Activated, TypeOK
  <2>4. /\ refs' \in [IndexVersion -> {"none", "draft", "active", "deleted"}]
        /\ drafts' \in [IndexVersion -> Nat]
    BY <1>11 DEF PublishCommit, TypeOK
  <2> QED  BY <1>11, <2>1, <2>2, <2>3, <2>4
           DEF PublishCommit, TypeOK, JobsTyped, TxsTyped, Reading
<1>12. ASSUME NEW j \in Job, CleanupStage(j) PROVE TypeOK'
  <2>1. Typed  BY <1>12, CommitTyped DEF CleanupStage
  <2>2. status' \in [IndexVersion -> {"absent", "active"} \cup Draft \cup Past]
    BY <1>12 DEF CleanupStage, TypeOK, Past
  <2>3. /\ refs' \in [IndexVersion -> {"none", "draft", "active", "deleted"}]
        /\ drafts' \in [IndexVersion -> Nat]
        /\ point' \in [IndexVersion -> {"none", "draft", "active", "hidden"}]
    BY <1>12 DEF CleanupStage, TypeOK
  <2> QED  BY <1>12, <2>1, <2>2, <2>3
           DEF CleanupStage, TypeOK, JobsTyped, TxsTyped, Reading
<1>13. ASSUME NEW j \in Job, RefreshRead(j) PROVE TypeOK'
  <2> DEFINE r == [Nothing EXCEPT !.ivs = RefreshTargets, !.audience = audience,
                      !.searchable = life = "active" /\ idx = "indexed"]
  <2>1. RefreshTargets \subseteq IndexVersion  BY DEF RefreshTargets
  <2>2. r \in Reading
    BY <2>1, NothingIsReading DEF TypeOK, Nothing, Reading
  <2>3. Typed  BY <1>13, <2>2, GoTyped DEF RefreshRead
  <2> QED  BY <1>13, <2>3 DEF RefreshRead, TypeOK, JobsTyped, TxsTyped, Reading
<1>14. ASSUME NEW j \in Job, RefreshCommit(j) PROVE TypeOK'
  <2>1. Typed  BY <1>14, CommitTyped DEF RefreshCommit
  <2>2. saw[j].audience \in Audience  BY DEF TypeOK
  <2> QED  BY <1>14, <2>1, <2>2
           DEF RefreshCommit, BlocksLeft, TypeOK, JobsTyped, TxsTyped, Reading
<1>15. ASSUME NEW j \in Job, RefreshSkips(j) PROVE TypeOK'
  <2>1. Typed  BY <1>15, CommitTyped DEF RefreshSkips
  <2> QED  BY <1>15, <2>1 DEF RefreshSkips, TypeOK, JobsTyped, TxsTyped, Reading
<1>16. ASSUME NEW j \in Job, Abort(j) PROVE TypeOK'
  <2>1. Typed  BY <1>16, NothingIsReading, GoTyped DEF Abort
  <2> QED  BY <1>16, <2>1 DEF Abort, TypeOK, JobsTyped, TxsTyped, Reading
<1>17. ASSUME NEW j \in Job, Stop(j) PROVE TypeOK'
  <2>1. Typed  BY <1>17, TypeParts, NothingIsReading
               DEF Stop, Jobs!Fail, JobsTyped, TxsTyped
  <2> QED  BY <1>17, <2>1 DEF Stop, TypeOK, JobsTyped, TxsTyped, Reading
<1>18. ASSUME NEW j \in Job, NEW a \in Audience, ChangePermission(j, a)
       PROVE  TypeOK'
  <2>1. Typed
    BY <1>18, EnqueueTyped DEF ChangePermission, FirstStage, AllJobTypes
  <2>2. policy' \in 0..MaxPolicy
    BY <1>18, SizesAssumption DEF ChangePermission, NewSnapshot, TypeOK
  <2> QED  BY <1>18, <2>1, <2>2
           DEF ChangePermission, TypeOK, JobsTyped, TxsTyped, Reading
<1>19. ASSUME NEW j \in Job, Rebuild(j) \/ Delete(j) PROVE TypeOK'
  <2>1. Typed
    BY <1>19, EnqueueTyped DEF Rebuild, Delete, FirstStage, AllJobTypes
  <2> QED  BY <1>19, <2>1 DEF Rebuild, Delete, TypeOK, JobsTyped, TxsTyped, Reading
<1>20. ASSUME NEW i \in Job, NEW j \in Job, RetryJob(i, j) PROVE TypeOK'
  <2>1. jobType[i] \in AllJobTypes /\ RetryStage(jobType[i]) \in WorkStage
    BY DEF TypeOK, RetryStage
  <2>2. Typed  BY <1>20, <2>1, EnqueueTyped DEF RetryJob
  <2> QED  BY <1>20, <2>2 DEF RetryJob, TypeOK, JobsTyped, TxsTyped, Reading
<1>21. ASSUME NEW l \in {"active", "archived"}, SetLifecycle(l) PROVE TypeOK'
  BY <1>21 DEF SetLifecycle, jobs, txs, TypeOK
<1>22. CASE UNCHANGED vars
  BY <1>22 DEF vars, jobs, txs, TypeOK
<1> QED
  BY <1>1, <1>2, <1>3, <1>4, <1>5, <1>6, <1>7, <1>8, <1>9, <1>10, <1>11, <1>12,
     <1>13, <1>14, <1>15, <1>16, <1>17, <1>18, <1>19, <1>20, <1>21, <1>22
     DEF Next, StageStep, AdminStep, Rest

(* Every reachable state of the document, its index versions and the open  *)
(* transactions of its jobs is well typed.                                 *)
THEOREM IndexTypeCorrect == Spec => []TypeOK
BY InitTyped, StepTyped, PTL DEF Spec

---------------------------------------------------------------------------
(* Steps by what they do to the index versions.                            *)

(* An open transaction stays as it is, or ends. *)
SameOrEnded ==
  \A k \in Job : \/ step'[k] = step[k] /\ saw'[k] = saw[k]
                 \/ step'[k] = "idle" /\ saw'[k] = Nothing

(* Chunks that can be built from remain, and so do those in service. *)
Built  == version \in {"chunked", "active"} /\ chunk \in {"draft", "active"}
Served == version = "active" /\ chunk = "active"
Advances == (Built => Built') /\ (Served => Served')

(* A step that leaves the index versions alone, and may change the         *)
(* permission of the document.                                             *)
Quiet ==
  /\ UNCHANGED indexes
  /\ SameOrEnded
  /\ Advances
  /\ UNCHANGED <<audience, policy>> \/ policy' = policy + 1

LEMMA CommitEnds ==
  ASSUME TypeOK, NEW j \in Job, NEW s \in WorkStage, Commit(j, s)
  PROVE  SameOrEnded
BY DEF Commit, TypeOK, SameOrEnded

LEMMA EnqueueKeeps ==
  ASSUME NEW j \in Job, NEW t \in AllJobTypes, NEW s \in WorkStage,
         Enqueue(j, t, s)
  PROVE  SameOrEnded
BY DEF Enqueue, txs, SameOrEnded

LEMMA GoTo ==
  ASSUME TypeOK, NEW j \in Job, NEW r, NEW p, Go(j, p, r)
  PROVE  /\ step'[j] = p /\ saw'[j] = r
         /\ \A k \in Job : k # j => step'[k] = step[k] /\ saw'[k] = saw[k]
BY DEF Go, TypeOK

LEMMA StepKinds ==
  ASSUME TypeOK, [Next]_vars
  PROVE  \/ Quiet
         \/ \E j \in Job : EmbedRead(j) \/ \E i \in IndexVersion : EmbedCommit(j, i)
         \/ \E j \in Job : IndexRead(j) \/ IndexWrite(j) \/ IndexCommit(j)
         \/ \E j \in Job : PublishRead(j) \/ PublishWrite(j) \/ PublishCommit(j)
         \/ \E j \in Job : CleanupStage(j) \/ RefreshRead(j) \/ RefreshCommit(j)
<1> USE DEF Quiet, Advances, Built, Served
<1>1. ASSUME NEW j \in Job, ValidateStage(j) \/ ParseStage(j) \/ CleanStage(j)
                              \/ ChunkStage(j)
      PROVE  Quiet
  <2>1. SameOrEnded
    BY <1>1, CommitEnds DEF ValidateStage, ParseStage, CleanStage, ChunkStage
  <2>2. Advances
    BY <1>1 DEF ValidateStage, ParseStage, CleanStage, ChunkStage, document
  <2>3. UNCHANGED indexes /\ UNCHANGED <<audience, policy>>
    BY <1>1 DEF ValidateStage, ParseStage, CleanStage, ChunkStage, document
  <2> QED  BY <2>1, <2>2, <2>3
<1>2. ASSUME NEW j \in Job, EmbedKeeps(j) \/ RefreshSkips(j) PROVE Quiet
  <2>1. SameOrEnded  BY <1>2, CommitEnds DEF EmbedKeeps, RefreshSkips
  <2> QED  BY <1>2, <2>1 DEF EmbedKeeps, RefreshSkips, document
<1>3. ASSUME NEW j \in Job, Abort(j) \/ Stop(j) PROVE Quiet
  <2>1. SameOrEnded  BY <1>3 DEF Abort, Go, Stop, TypeOK, SameOrEnded
  <2> QED  BY <1>3, <2>1 DEF Abort, Stop, document
<1>4. ASSUME NEW j \in Job, NEW a \in Audience, ChangePermission(j, a)
      PROVE  Quiet
  <2>1. SameOrEnded
    BY <1>4, EnqueueKeeps DEF ChangePermission, FirstStage, AllJobTypes
  <2> QED  BY <1>4, <2>1 DEF ChangePermission, NewSnapshot
<1>5. ASSUME NEW j \in Job, Rebuild(j) \/ Delete(j) PROVE Quiet
  <2>1. SameOrEnded
    BY <1>5, EnqueueKeeps DEF Rebuild, Delete, FirstStage, AllJobTypes
  <2> QED  BY <1>5, <2>1 DEF Rebuild, Delete
<1>6. ASSUME NEW i \in Job, NEW j \in Job, RetryJob(i, j) PROVE Quiet
  <2>1. jobType[i] \in AllJobTypes /\ RetryStage(jobType[i]) \in WorkStage
    BY DEF TypeOK, RetryStage
  <2>2. SameOrEnded  BY <1>6, <2>1, EnqueueKeeps DEF RetryJob
  <2> QED  BY <1>6, <2>2 DEF RetryJob, document
<1>7. ASSUME NEW l \in {"active", "archived"}, SetLifecycle(l) PROVE Quiet
  BY <1>7 DEF SetLifecycle, txs, SameOrEnded
<1>8. CASE UNCHANGED vars
  BY <1>8 DEF vars, document, txs, SameOrEnded
<1> QED
  BY ONLY <1>1, <1>2, <1>3, <1>4, <1>5, <1>6, <1>7, <1>8, [Next]_vars
     DEF Next, StageStep, AdminStep, Rest
---------------------------------------------------------------------------
(* Coherence.                                                              *)

(* The references of an index version move with its status. *)
RefsFollowStatus ==
  \A i \in IndexVersion :
    /\ status[i] \in {"absent", "draft"} => refs[i] = "none"
    /\ status[i] = "ready" => refs[i] = "draft"
    /\ status[i] = "active" => refs[i] = "active"
    /\ status[i] \in Past => refs[i] \in {"active", "deleted"}

(* An index version is made from chunks, and activated with them. *)
BuiltFirst ==
  /\ \A i \in IndexVersion : status[i] # "absent" => Built
  /\ \A j \in Job : step[j] = "embedding" => Built
  /\ \A i \in IndexVersion : status[i] = "active" => Served

OneActive ==
  \A i, k \in IndexVersion : status[i] = "active" /\ status[k] = "active" => i = k

(* What a transaction has read exists, and what a refresh has read has     *)
(* been active.                                                            *)
SawExists ==
  \A j \in Job :
    /\ saw[j].bare \subseteq saw[j].ivs
    /\ \A i \in saw[j].ivs : status[i] # "absent"
    /\ step[j] = "refreshing" =>
         \A i \in saw[j].ivs : status[i] \in {"active"} \cup Past

Whole == TypeOK /\ RefsFollowStatus /\ BuiltFirst /\ OneActive /\ SawExists

LEMMA InitWhole == Init => Whole
<1> SUFFICES ASSUME Init PROVE Whole  OBVIOUS
<1>1. SawExists  BY DEF Init, SawExists, Nothing
<1>2. RefsFollowStatus /\ BuiltFirst /\ OneActive
  BY DEF Init, RefsFollowStatus, BuiltFirst, OneActive, Past
<1> QED  BY <1>1, <1>2, InitTyped DEF Whole

(* The index versions that a transaction has read stay what they were, as  *)
(* long as no status goes backwards.                                       *)
LEMMA SawKept ==
  ASSUME SawExists, SameOrEnded,
         \A i \in IndexVersion :
           /\ status[i] # "absent" => status'[i] # "absent"
           /\ status[i] \in {"active"} \cup Past => status'[i] \in {"active"} \cup Past,
         TypeOK
  PROVE  SawExists'
<1> SUFFICES ASSUME NEW j \in Job
             PROVE  /\ saw'[j].bare \subseteq saw'[j].ivs
                    /\ \A i \in saw'[j].ivs : status'[i] # "absent"
                    /\ step'[j] = "refreshing" =>
                         \A i \in saw'[j].ivs : status'[i] \in {"active"} \cup Past
  BY DEF SawExists
<1>1. saw[j].ivs \subseteq IndexVersion  BY DEF TypeOK
<1>2. CASE step'[j] = step[j] /\ saw'[j] = saw[j]
  BY <1>1, <1>2 DEF SawExists
<1>3. CASE step'[j] = "idle" /\ saw'[j] = Nothing
  BY <1>3 DEF Nothing
<1> QED  BY <1>2, <1>3 DEF SameOrEnded

(* A transaction that has just read. *)
LEMMA SawRead ==
  ASSUME SawExists, NEW j \in Job, NEW r, NEW p, UNCHANGED status,
         step'[j] = p, saw'[j] = r,
         \A k \in Job : k # j => step'[k] = step[k] /\ saw'[k] = saw[k],
         r.bare \subseteq r.ivs,
         \A i \in r.ivs : status[i] # "absent",
         p = "refreshing" => \A i \in r.ivs : status[i] \in {"active"} \cup Past
  PROVE  SawExists'
BY DEF SawExists

LEMMA StepWhole == Whole /\ [Next]_vars => Whole'
<1> SUFFICES ASSUME Whole, [Next]_vars PROVE Whole'  OBVIOUS
<1> USE DEF Whole
<1>0. TypeOK'  BY StepTyped
<1>1. CASE Quiet
  <2>1. UNCHANGED <<status, refs>>  BY <1>1 DEF Quiet, indexes
  <2>2. SawExists'  BY <1>1, <2>1, SawKept DEF Quiet
  <2>3. \A j \in Job : step'[j] = "embedding" => step[j] = "embedding"
    BY <1>1 DEF Quiet, SameOrEnded
  <2>4. BuiltFirst'  BY <1>1, <2>1, <2>3 DEF Quiet, Advances, BuiltFirst
  <2>5. RefsFollowStatus' /\ OneActive'
    BY <2>1 DEF RefsFollowStatus, OneActive
  <2> QED  BY <1>0, <2>2, <2>4, <2>5
<1>2. ASSUME NEW j \in Job, EmbedRead(j) PROVE Whole'
  <2> DEFINE r == [Nothing EXCEPT !.hash = policy]
  <2>1. /\ UNCHANGED <<status, refs, version, chunk>>
        /\ Go(j, "embedding", r)
    BY <1>2 DEF EmbedRead, document, indexes
  <2>2. Built  BY <1>2 DEF EmbedRead, IsTarget, HasChunks, Built
  <2>3. r.bare = {} /\ r.ivs = {}  BY DEF Nothing
  <2>4. SawExists'
    <3> HIDE DEF r
    <3> QED  BY <2>1, <2>3, GoTo, SawRead
  <2>5. BuiltFirst'  BY <2>1, <2>2 DEF BuiltFirst, Built, Served
  <2>6. RefsFollowStatus' /\ OneActive'
    BY <2>1 DEF RefsFollowStatus, OneActive
  <2> QED  BY <1>0, <2>4, <2>5, <2>6
<1>3. ASSUME NEW j \in Job, NEW i \in IndexVersion, EmbedCommit(j, i)
      PROVE  Whole'
  <2>1. /\ UNCHANGED <<refs, version, chunk>>
        /\ status[i] = "absent"
        /\ status' = [status EXCEPT ![i] = "draft"]
        /\ step[j] = "embedding"
    BY <1>3 DEF EmbedCommit, At, document
  <2>2. SameOrEnded  BY <1>3, CommitEnds DEF EmbedCommit
  <2>3. status \in [IndexVersion -> {"absent", "active"} \cup Draft \cup Past]
    BY DEF TypeOK
  <2>4. SawExists'  BY <2>1, <2>2, <2>3, SawKept DEF Past
  <2>5. \A k \in Job : step'[k] = "embedding" => step[k] = "embedding"
    BY <2>2 DEF SameOrEnded
  <2>6. BuiltFirst'  BY <2>1, <2>3, <2>5 DEF BuiltFirst, Built, Served
  <2>7. RefsFollowStatus' /\ OneActive'
    BY <2>1, <2>3 DEF RefsFollowStatus, OneActive, Past
  <2> QED  BY <1>0, <2>4, <2>6, <2>7
<1>4. ASSUME NEW j \in Job, IndexRead(j) PROVE Whole'
  <2> DEFINE D == {i \in IndexVersion : status[i] = "draft"}
             r == [Nothing EXCEPT !.ivs = D, !.bare = Unreferenced(D),
                                  !.audience = audience]
  <2>1. /\ UNCHANGED <<status, refs, version, chunk>>
        /\ Go(j, "indexing", r)
    BY <1>4 DEF IndexRead, document, indexes
  <2>2. r.bare = Unreferenced(D) /\ r.ivs = D  BY DEF Nothing
  <2>3. Unreferenced(D) \subseteq D /\ \A i \in D : status[i] # "absent"
    BY DEF Unreferenced
  <2>4. step'[j] = "indexing" /\ SawExists'
    <3> HIDE DEF r, D
    <3> QED  BY <2>1, <2>2, <2>3, GoTo, SawRead
  <2>5. \A k \in Job : step'[k] = "embedding" => step[k] = "embedding"
    BY <2>1, <2>4, GoTo
  <2>6. BuiltFirst'  BY <2>1, <2>5 DEF BuiltFirst, Built, Served
  <2>7. RefsFollowStatus' /\ OneActive'
    BY <2>1 DEF RefsFollowStatus, OneActive
  <2> QED  BY <1>0, <2>4, <2>6, <2>7
<1>5. ASSUME NEW j \in Job, IndexWrite(j) PROVE Whole'
  <2>1. PICK F \in SUBSET saw[j].bare : Go(j, "upserted", [saw[j] EXCEPT !.bare = F])
    BY <1>5 DEF IndexWrite
  <2> DEFINE r == [saw[j] EXCEPT !.bare = F]
  <2>2. UNCHANGED <<status, refs, version, chunk>>
    BY <1>5 DEF IndexWrite, document
  <2>3. r.bare = F /\ r.ivs = saw[j].ivs /\ Go(j, "upserted", r)
    BY <2>1 DEF TypeOK
  <2>4. F \subseteq saw[j].ivs /\ \A i \in saw[j].ivs : status[i] # "absent"
    BY DEF SawExists
  <2>5. step'[j] = "upserted" /\ SawExists'
    <3> HIDE DEF r
    <3>1. /\ step'[j] = "upserted" /\ saw'[j] = r
          /\ \A k \in Job : k # j => step'[k] = step[k] /\ saw'[k] = saw[k]
      BY <2>3, GoTo
    <3> QED  BY <2>2, <2>3, <2>4, <3>1, SawRead
  <2>6. \A k \in Job : step'[k] = "embedding" => step[k] = "embedding"
    BY <2>1, <2>5, GoTo
  <2>7. BuiltFirst'  BY <2>2, <2>6 DEF BuiltFirst, Built, Served
  <2>8. RefsFollowStatus' /\ OneActive'
    BY <2>2 DEF RefsFollowStatus, OneActive
  <2> QED  BY <1>0, <2>5, <2>7, <2>8
<1>6. ASSUME NEW j \in Job, IndexCommit(j) PROVE Whole'
  <2> DEFINE new == Unreferenced(saw[j].bare)
  <2>1. /\ UNCHANGED <<version, chunk>>
        /\ refs' = [i \in IndexVersion |-> IF i \in new THEN "draft" ELSE refs[i]]
        /\ status' = [i \in IndexVersion |->
                        IF i \in saw[j].ivs /\ status[i] = "draft" /\ refs'[i] = "draft"
                        THEN "ready" ELSE status[i]]
    BY <1>6 DEF IndexCommit, document
  <2>2. SameOrEnded  BY <1>6, CommitEnds DEF IndexCommit
  <2>3. \A i \in new : i \in saw[j].ivs /\ refs[i] = "none" /\ status[i] = "draft"
    <3>1. saw[j].bare \subseteq IndexVersion  BY DEF TypeOK
    <3>2. \A i \in new : i \in saw[j].ivs /\ refs[i] = "none" /\ status[i] # "absent"
      BY DEF Unreferenced, SawExists
    <3>3. \A i \in IndexVersion : status[i] \in {"absent", "active"} \cup Draft \cup Past
      BY DEF TypeOK
    <3> QED  BY <3>1, <3>2, <3>3 DEF Unreferenced, RefsFollowStatus, Draft
  <2>4. \A i \in IndexVersion :
          \/ i \in new /\ status[i] = "draft" /\ status'[i] = "ready"
             /\ refs'[i] = "draft"
          \/ i \notin new /\ status'[i] = status[i] /\ refs'[i] = refs[i]
    <3> HIDE DEF new
    <3> QED  BY <2>1, <2>3 DEF RefsFollowStatus
  <2> HIDE DEF new
  <2>5. SawExists'  BY <2>2, <2>4, SawKept DEF Past
  <2>6. \A k \in Job : step'[k] = "embedding" => step[k] = "embedding"
    BY <2>2 DEF SameOrEnded
  <2>7. BuiltFirst'  BY <2>1, <2>4, <2>6 DEF BuiltFirst, Built, Served
  <2>8. RefsFollowStatus' /\ OneActive'
    BY <2>4 DEF RefsFollowStatus, OneActive, Past
  <2> QED  BY <1>0, <2>5, <2>7, <2>8
<1>7. ASSUME NEW j \in Job, PublishRead(j) PROVE Whole'
  <2> DEFINE L == {i \in IndexVersion : status[i] = "ready" /\ hash[i] = policy}
             r == [Nothing EXCEPT !.ivs = L]
  <2>1. /\ UNCHANGED <<status, refs, version, chunk>>
        /\ Go(j, "publishing", r)
    BY <1>7 DEF PublishRead, document, indexes
  <2>2. r.bare = {} /\ r.ivs = L  BY DEF Nothing
  <2>3. \A i \in L : status[i] # "absent"  OBVIOUS
  <2>4. step'[j] = "publishing" /\ SawExists'
    <3> HIDE DEF r, L
    <3> QED  BY <2>1, <2>2, <2>3, GoTo, SawRead
  <2>5. \A k \in Job : step'[k] = "embedding" => step[k] = "embedding"
    BY <2>1, <2>4, GoTo
  <2>6. BuiltFirst'  BY <2>1, <2>5 DEF BuiltFirst, Built, Served
  <2>7. RefsFollowStatus' /\ OneActive'
    BY <2>1 DEF RefsFollowStatus, OneActive
  <2> QED  BY <1>0, <2>4, <2>6, <2>7
<1>8. ASSUME NEW j \in Job, PublishWrite(j) PROVE Whole'
  <2>1. /\ UNCHANGED <<status, refs, version, chunk>>
        /\ Go(j, "activated", saw[j])
    BY <1>8 DEF PublishWrite, document
  <2>2. step'[j] = "activated" /\ SawExists'
    BY <2>1, GoTo DEF SawExists
  <2>3. \A k \in Job : step'[k] = "embedding" => step[k] = "embedding"
    BY <2>1, <2>2, GoTo
  <2>4. BuiltFirst'  BY <2>1, <2>3 DEF BuiltFirst, Built, Served
  <2>5. RefsFollowStatus' /\ OneActive'
    BY <2>1 DEF RefsFollowStatus, OneActive
  <2> QED  BY <1>0, <2>2, <2>4, <2>5
<1>9. ASSUME NEW j \in Job, PublishCommit(j) PROVE Whole'
  <2> DEFINE L == saw[j].ivs
  <2>1. /\ version' = IF version = "chunked" THEN "active" ELSE version
        /\ chunk' = IF chunk = "draft" THEN "active" ELSE chunk
        /\ status' = [i \in IndexVersion |-> Switched(i, L)]
        /\ refs' = [i \in IndexVersion |->
                      IF i \in L /\ refs[i] = "draft" THEN "active" ELSE refs[i]]
    BY <1>9 DEF PublishCommit
  <2>2. SameOrEnded  BY <1>9, CommitEnds DEF PublishCommit
  <2>3. \A i \in IndexVersion :
          \/ IsNewest(i, L) /\ status[i] = "ready" /\ status'[i] = "active"
          \/ status[i] = "active" /\ status'[i] = "pending_delete"
          \/ i \in L /\ status[i] = "ready" /\ status'[i] = "pending_delete"
          \/ status'[i] = status[i] /\ (status[i] = "active" => IsNewest(i, L))
             /\ ~(i \in L /\ status[i] = "ready")
    BY <2>1 DEF Switched
  <2>4. L \subseteq IndexVersion /\ \A i \in L : IsNewest(i, L) => status[i] # "absent"
    BY DEF TypeOK, SawExists
  <2>5. \A i, k \in IndexVersion : IsNewest(i, L) /\ IsNewest(k, L) => i = k
    BY SizesAssumption DEF IsNewest, IndexVersion
  <2>6. SawExists'  BY <2>2, <2>3, SawKept DEF Past
  <2>7. \A k \in Job : step'[k] = "embedding" => step[k] = "embedding"
    BY <2>2 DEF SameOrEnded
  <2>8. BuiltFirst'
    <3>1. Built => Built' /\ Served'  BY <2>1 DEF Built, Served
    <3>2. \A i \in IndexVersion : status'[i] # "absent" => status[i] # "absent"
      BY <2>3
    <3> QED  BY <2>7, <3>1, <3>2 DEF BuiltFirst
  <2>9. OneActive'  BY <2>3, <2>5 DEF OneActive
  <2>10. RefsFollowStatus'
    <3> SUFFICES ASSUME NEW i \in IndexVersion
                 PROVE  /\ status'[i] \in {"absent", "draft"} => refs'[i] = "none"
                        /\ status'[i] = "ready" => refs'[i] = "draft"
                        /\ status'[i] = "active" => refs'[i] = "active"
                        /\ status'[i] \in Past => refs'[i] \in {"active", "deleted"}
      BY DEF RefsFollowStatus
    <3>1. IsNewest(i, L) => i \in L  BY DEF IsNewest
    <3>2. refs'[i] = IF i \in L /\ refs[i] = "draft" THEN "active" ELSE refs[i]
      BY <2>1
    <3> HIDE DEF L
    <3> QED  BY <2>3, <3>1, <3>2 DEF RefsFollowStatus, Past
  <2> QED  BY <1>0, <2>6, <2>8, <2>9, <2>10
<1>10. ASSUME NEW j \in Job, CleanupStage(j) PROVE Whole'
  <2> DEFINE P == {i \in IndexVersion : status[i] = "pending_delete" /\ refs[i] # "deleted"}
  <2>1. /\ UNCHANGED <<version, chunk>>
        /\ status' = [i \in IndexVersion |-> IF i \in P THEN "archived" ELSE status[i]]
        /\ refs' = [i \in IndexVersion |-> IF i \in P THEN "deleted" ELSE refs[i]]
    BY <1>10 DEF CleanupStage, document
  <2>2. SameOrEnded  BY <1>10, CommitEnds DEF CleanupStage
  <2>3. \A i \in IndexVersion :
          \/ status[i] = "pending_delete" /\ status'[i] = "archived"
             /\ refs'[i] = "deleted"
          \/ status'[i] = status[i] /\ refs'[i] = refs[i]
    BY <2>1
  <2> HIDE DEF P
  <2>4. SawExists'  BY <2>2, <2>3, SawKept DEF Past
  <2>5. \A k \in Job : step'[k] = "embedding" => step[k] = "embedding"
    BY <2>2 DEF SameOrEnded
  <2>6. BuiltFirst'  BY <2>1, <2>3, <2>5 DEF BuiltFirst, Built, Served
  <2>7. RefsFollowStatus' /\ OneActive'
    BY <2>3 DEF RefsFollowStatus, OneActive, Past
  <2> QED  BY <1>0, <2>4, <2>6, <2>7
<1>11. ASSUME NEW j \in Job, RefreshRead(j) PROVE Whole'
  <2> DEFINE r == [Nothing EXCEPT !.ivs = RefreshTargets, !.audience = audience,
                      !.searchable = life = "active" /\ idx = "indexed"]
  <2>1. /\ UNCHANGED <<status, refs, version, chunk>>
        /\ Go(j, "refreshing", r)
    BY <1>11 DEF RefreshRead, document, indexes
  <2>2. r.bare = {} /\ r.ivs = RefreshTargets  BY DEF Nothing
  <2>3. \A i \in RefreshTargets : status[i] = "active"  BY DEF RefreshTargets
  <2>4. step'[j] = "refreshing" /\ SawExists'
    <3> HIDE DEF r
    <3> QED  BY <2>1, <2>2, <2>3, GoTo, SawRead
  <2>5. \A k \in Job : step'[k] = "embedding" => step[k] = "embedding"
    BY <2>1, <2>4, GoTo
  <2>6. BuiltFirst'  BY <2>1, <2>5 DEF BuiltFirst, Built, Served
  <2>7. RefsFollowStatus' /\ OneActive'
    BY <2>1 DEF RefsFollowStatus, OneActive
  <2> QED  BY <1>0, <2>4, <2>6, <2>7
<1>12. ASSUME NEW j \in Job, RefreshCommit(j) PROVE Whole'
  <2>1. /\ UNCHANGED <<version, chunk, status>>
        /\ refs' = [i \in IndexVersion |-> IF i \in saw[j].ivs THEN "active" ELSE refs[i]]
        /\ step[j] = "refreshing"
    BY <1>12 DEF RefreshCommit, At, document
  <2>2. SameOrEnded  BY <1>12, CommitEnds DEF RefreshCommit
  <2>3. \A i \in saw[j].ivs : status[i] \in {"active"} \cup Past
    BY <2>1 DEF SawExists
  <2>4. SawExists'  BY <2>1, <2>2, SawKept
  <2>5. \A k \in Job : step'[k] = "embedding" => step[k] = "embedding"
    BY <2>2 DEF SameOrEnded
  <2>6. BuiltFirst'  BY <2>1, <2>5 DEF BuiltFirst, Built, Served
  <2>7. RefsFollowStatus' /\ OneActive'
    BY <2>1, <2>3 DEF RefsFollowStatus, OneActive, Past
  <2> QED  BY <1>0, <2>4, <2>6, <2>7
<1> QED
  BY ONLY StepKinds, Whole, [Next]_vars, <1>1, <1>2, <1>3, <1>4, <1>5, <1>6,
     <1>7, <1>8, <1>9, <1>10, <1>11, <1>12
     DEF Whole

LEMMA AlwaysWhole == Spec => []Whole
BY InitWhole, StepWhole, PTL DEF Spec

(* For every number of jobs, publishes, rebuilds and refreshes, one index  *)
(* version at most is active, and what it needs is active with it.         *)
THEOREM IndexCoherent == Spec => []Coherent
<1>1. Whole => Coherent
  BY DEF Whole, RefsFollowStatus, BuiltFirst, Served, OneActive, Coherent, Draft
<1> QED  BY <1>1, AlwaysWhole, PTL

---------------------------------------------------------------------------
(* No revival.                                                             *)

(* What a step may do to the status of an index version. *)
LEMMA StatusSteps ==
  ASSUME TypeOK, [Next]_vars, NEW i \in IndexVersion
  PROVE  \/ status'[i] = status[i]
         \/ status[i] = "absent" /\ status'[i] = "draft"
         \/ status[i] = "draft"  /\ status'[i] = "ready"
         \/ status[i] = "ready"  /\ status'[i] \in {"active", "pending_delete"}
         \/ status[i] = "active" /\ status'[i] = "pending_delete"
         \/ status[i] = "pending_delete" /\ status'[i] = "archived"
<1>1. CASE Quiet
  BY <1>1 DEF Quiet, indexes
<1>2. ASSUME NEW j \in Job, EmbedRead(j) \/ IndexRead(j) \/ PublishRead(j)
                              \/ RefreshRead(j)
      PROVE  UNCHANGED status
  BY <1>2 DEF EmbedRead, IndexRead, PublishRead, RefreshRead, indexes
<1>3. ASSUME NEW j \in Job, IndexWrite(j) \/ PublishWrite(j) \/ RefreshCommit(j)
      PROVE  UNCHANGED status
  BY <1>3 DEF IndexWrite, PublishWrite, RefreshCommit
<1>4. ASSUME NEW j \in Job, NEW k \in IndexVersion, EmbedCommit(j, k)
      PROVE  \/ status'[i] = status[i]
             \/ status[i] = "absent" /\ status'[i] = "draft"
  BY <1>4 DEF EmbedCommit, TypeOK
<1>5. ASSUME NEW j \in Job, IndexCommit(j)
      PROVE  \/ status'[i] = status[i]
             \/ status[i] = "draft" /\ status'[i] = "ready"
  BY <1>5 DEF IndexCommit
<1>6. ASSUME NEW j \in Job, PublishCommit(j)
      PROVE  \/ status'[i] = status[i]
             \/ status[i] = "ready"  /\ status'[i] \in {"active", "pending_delete"}
             \/ status[i] = "active" /\ status'[i] = "pending_delete"
  BY <1>6 DEF PublishCommit, Switched
<1>7. ASSUME NEW j \in Job, CleanupStage(j)
      PROVE  \/ status'[i] = status[i]
             \/ status[i] = "pending_delete" /\ status'[i] = "archived"
  BY <1>7 DEF CleanupStage
<1> QED
  BY ONLY StepKinds, TypeOK, [Next]_vars, i \in IndexVersion,
     <1>1, <1>2, <1>3, <1>4, <1>5, <1>6, <1>7

(* For every number of jobs, a replaced index version never serves again,  *)
(* and only a ready one is made active.                                    *)
THEOREM NothingRevived == Spec => NoRevival
<1>1. TypeOK /\ [Next]_vars =>
        [\A i \in IndexVersion :
           /\ status[i] \in Past => status'[i] \in Past
           /\ status[i] # "active" /\ status'[i] = "active" => status[i] = "ready"]_vars
  BY StatusSteps DEF Past
<1> QED  BY <1>1, IndexTypeCorrect, PTL DEF Spec, NoRevival

---------------------------------------------------------------------------
(* What the permission snapshot of an index version vouches for.           *)

HashesPast ==
  /\ \A i \in IndexVersion : hash[i] <= policy
  /\ \A j \in Job : saw[j].hash <= policy

(* What a transaction will write is right for the index versions that were *)
(* built for the snapshot of the document.                                 *)
ReadVouches ==
  \A j \in Job : step[j] \in {"indexing", "upserted", "refreshing"} =>
    \A i \in saw[j].ivs : hash[i] = policy => saw[j].audience = audience

Vouched == Whole /\ HashesPast /\ ReadVouches /\ HashVouches

LEMMA InitVouched == Init => Vouched
<1> SUFFICES ASSUME Init PROVE Vouched  OBVIOUS
<1>1. HashesPast /\ ReadVouches /\ HashVouches
  BY DEF Init, HashesPast, ReadVouches, HashVouches, Nothing
<1> QED  BY <1>1, InitWhole DEF Vouched

(* A change of permission leaves every index version behind; other steps   *)
(* that write no hash and no payload change nothing that counts.           *)
LEMMA VouchedKept ==
  ASSUME Vouched, SameOrEnded, UNCHANGED <<hash, shown>>,
         UNCHANGED <<audience, policy>> \/ policy' = policy + 1,
         \A i \in IndexVersion : status'[i] \in {"ready", "active"} =>
                                   status[i] \in {"ready", "active"}
  PROVE  (HashesPast /\ ReadVouches /\ HashVouches)'
<1> USE DEF Vouched
<1>1. /\ hash \in [IndexVersion -> 0..MaxPolicy] /\ policy \in 0..MaxPolicy
      /\ \A j \in Job : saw[j].hash \in 0..MaxPolicy /\ saw[j].ivs \subseteq IndexVersion
  BY DEF Whole, TypeOK
<1>2. Nothing.hash = 0 /\ Nothing.ivs = {}  BY DEF Nothing
<1>3. policy' >= policy /\ policy' \in Int
  BY <1>1, SizesAssumption
<1>4. HashesPast'
  BY <1>1, <1>2, <1>3, SizesAssumption DEF HashesPast, SameOrEnded
<1>5. \A i \in IndexVersion : hash[i] = policy' =>
         policy' = policy /\ UNCHANGED audience
  BY <1>1, <1>3, SizesAssumption DEF HashesPast
<1>6. ReadVouches'
  BY <1>1, <1>2, <1>5 DEF ReadVouches, SameOrEnded
<1>7. HashVouches'
  BY <1>5 DEF HashVouches
<1> QED  BY <1>4, <1>6, <1>7

(* A transaction that has just read. *)
LEMMA VouchedRead ==
  ASSUME Vouched, NEW j \in Job, NEW r, NEW p,
         UNCHANGED <<audience, policy, status, hash, shown>>, Go(j, p, r),
         r.hash <= policy,
         p \in {"indexing", "upserted", "refreshing"} =>
           \A i \in r.ivs : hash[i] = policy => r.audience = audience
  PROVE  (HashesPast /\ ReadVouches /\ HashVouches)'
<1>1. /\ step'[j] = p /\ saw'[j] = r
      /\ \A k \in Job : k # j => step'[k] = step[k] /\ saw'[k] = saw[k]
  BY GoTo DEF Vouched, Whole
<1>2. HashesPast'  BY <1>1 DEF Vouched, HashesPast
<1>3. ReadVouches'
  <2> SUFFICES ASSUME NEW k \in Job, step'[k] \in {"indexing", "upserted", "refreshing"},
                      NEW i \in saw'[k].ivs, hash[i] = policy
               PROVE  saw'[k].audience = audience
    BY DEF ReadVouches
  <2>1. CASE k = j  BY <1>1, <2>1
  <2>2. CASE k # j  BY <1>1, <2>2 DEF Vouched, ReadVouches
  <2> QED  BY <2>1, <2>2
<1>4. HashVouches'  BY DEF Vouched, HashVouches
<1> QED  BY <1>2, <1>3, <1>4

LEMMA StepVouched == Vouched /\ [Next]_vars => Vouched'
<1> SUFFICES ASSUME Vouched, [Next]_vars PROVE Vouched'  OBVIOUS
<1> DEFINE Goal == (HashesPast /\ ReadVouches /\ HashVouches)'
<1>0. Whole' /\ TypeOK  BY StepWhole DEF Vouched, Whole
<1> SUFFICES Goal  BY <1>0 DEF Vouched
<1>s. \A i \in IndexVersion : status'[i] \in {"ready", "active"} =>
        status[i] \in {"ready", "active"} \/ (status[i] = "draft" /\ status'[i] = "ready")
  BY <1>0, StatusSteps
<1>p. Nothing.hash <= policy  BY <1>0, SizesAssumption DEF TypeOK, Nothing
<1>1. CASE Quiet
  <2>1. UNCHANGED <<status, hash, shown>>  BY <1>1 DEF Quiet, indexes
  <2> QED  BY <1>1, <2>1, VouchedKept DEF Quiet
<1>2. ASSUME NEW j \in Job, EmbedRead(j) PROVE Goal
  <2> DEFINE r == [Nothing EXCEPT !.hash = policy]
  <2>1. /\ UNCHANGED <<audience, policy, status, hash, shown>>
        /\ Go(j, "embedding", r)
    BY <1>2 DEF EmbedRead, document, indexes
  <2>2. r.hash <= policy  BY <1>0, SizesAssumption DEF TypeOK, Nothing
  <2> HIDE DEF r
  <2> QED  BY <2>1, <2>2, VouchedRead
<1>3. ASSUME NEW j \in Job, NEW i \in IndexVersion, EmbedCommit(j, i) PROVE Goal
  <2>1. /\ UNCHANGED <<audience, policy, shown>>
        /\ status[i] = "absent"
        /\ status' = [status EXCEPT ![i] = "draft"]
        /\ hash' = [hash EXCEPT ![i] = saw[j].hash]
    BY <1>3 DEF EmbedCommit, document
  <2>2. SameOrEnded  BY <1>0, <1>3, CommitEnds DEF EmbedCommit
  <2>3. HashesPast'
    BY <1>0, <1>p, <2>1, <2>2 DEF TypeOK, Vouched, HashesPast, SameOrEnded
  <2>4. \A k \in Job : i \notin saw[k].ivs
    BY <2>1 DEF Vouched, Whole, SawExists
  <2>5. \A k \in Job : \A h \in saw[k].ivs : hash'[h] = hash[h]
    BY <1>0, <2>1, <2>4 DEF TypeOK
  <2>6. ReadVouches'
    BY <2>1, <2>2, <2>5 DEF Vouched, ReadVouches, SameOrEnded, Nothing
  <2>7. HashVouches'
    BY <1>0, <2>1 DEF TypeOK, Vouched, HashVouches
  <2> QED  BY <2>3, <2>6, <2>7
<1>4. ASSUME NEW j \in Job, IndexRead(j) PROVE Goal
  <2> DEFINE D == {i \in IndexVersion : status[i] = "draft"}
             r == [Nothing EXCEPT !.ivs = D, !.bare = Unreferenced(D),
                                  !.audience = audience]
  <2>1. /\ UNCHANGED <<audience, policy, status, hash, shown>>
        /\ Go(j, "indexing", r)
    BY <1>4 DEF IndexRead, document, indexes
  <2>2. r.hash = Nothing.hash /\ r.audience = audience  BY DEF Nothing
  <2> HIDE DEF r
  <2> QED  BY <1>p, <2>1, <2>2, VouchedRead
<1>5. ASSUME NEW j \in Job, IndexWrite(j) PROVE Goal
  <2>1. PICK F \in SUBSET saw[j].bare : Go(j, "upserted", [saw[j] EXCEPT !.bare = F])
    BY <1>5 DEF IndexWrite
  <2> DEFINE r == [saw[j] EXCEPT !.bare = F]
  <2>2. UNCHANGED <<audience, policy, status, hash, shown>> /\ step[j] = "indexing"
    BY <1>5 DEF IndexWrite, document, At
  <2>3. /\ r.hash = saw[j].hash /\ r.ivs = saw[j].ivs
        /\ r.audience = saw[j].audience /\ Go(j, "upserted", r)
    BY <1>0, <2>1 DEF TypeOK
  <2>4. saw[j].hash <= policy /\ \A i \in saw[j].ivs :
          hash[i] = policy => saw[j].audience = audience
    BY <2>2 DEF Vouched, HashesPast, ReadVouches
  <2> HIDE DEF r
  <2> QED  BY <2>2, <2>3, <2>4, VouchedRead
<1>6. ASSUME NEW j \in Job, IndexCommit(j) PROVE Goal
  <2> DEFINE new == Unreferenced(saw[j].bare)
  <2>1. /\ UNCHANGED <<audience, policy, hash>>
        /\ shown' = [i \in IndexVersion |->
                       IF i \in new THEN saw[j].audience ELSE shown[i]]
        /\ refs' = [i \in IndexVersion |-> IF i \in new THEN "draft" ELSE refs[i]]
        /\ status' = [i \in IndexVersion |->
                        IF i \in saw[j].ivs /\ status[i] = "draft" /\ refs'[i] = "draft"
                        THEN "ready" ELSE status[i]]
        /\ step[j] = "upserted"
    BY <1>6 DEF IndexCommit, document, At
  <2>2. SameOrEnded  BY <1>0, <1>6, CommitEnds DEF IndexCommit
  <2>3. \A i \in new : i \in saw[j].ivs  BY DEF Unreferenced, Vouched, Whole, SawExists
  <2>4. \A i \in new : hash[i] = policy => saw[j].audience = audience
    BY <2>1, <2>3 DEF Vouched, ReadVouches
  <2>5. HashesPast' /\ ReadVouches'
    BY <1>p, <2>1, <2>2 DEF Vouched, HashesPast, ReadVouches, SameOrEnded, Nothing
  <2>6. ASSUME NEW i \in IndexVersion, status'[i] \in {"ready", "active"}, hash[i] = policy
        PROVE  shown'[i] = audience
    <3> HIDE DEF new
    <3>1. CASE i \in new  BY <2>1, <2>4, <2>6, <3>1
    <3>2. CASE i \notin new /\ status[i] \in {"ready", "active"}
      BY <2>1, <2>6, <3>2 DEF Vouched, HashVouches
    <3>3. CASE i \notin new /\ status[i] = "draft"
      <4>1. refs[i] = "none"  BY <3>3 DEF Vouched, Whole, RefsFollowStatus
      <4> QED  BY <2>1, <2>6, <3>3, <4>1
    <3> QED  BY <1>s, <2>6, <3>1, <3>2, <3>3
  <2>7. HashVouches'  BY <2>1, <2>6 DEF HashVouches
  <2> QED  BY <2>5, <2>7
<1>7. ASSUME NEW j \in Job, PublishRead(j) PROVE Goal
  <2> DEFINE r == [Nothing EXCEPT !.ivs = {i \in IndexVersion :
                                     status[i] = "ready" /\ hash[i] = policy}]
  <2>1. /\ UNCHANGED <<audience, policy, status, hash, shown>>
        /\ Go(j, "publishing", r)
    BY <1>7 DEF PublishRead, document, indexes
  <2>2. r.hash = Nothing.hash  BY DEF Nothing
  <2> HIDE DEF r
  <2> QED  BY <1>p, <2>1, <2>2, VouchedRead
<1>8. ASSUME NEW j \in Job, PublishWrite(j) PROVE Goal
  <2>1. /\ UNCHANGED <<audience, policy, status, hash, shown>>
        /\ Go(j, "activated", saw[j])
    BY <1>8 DEF PublishWrite, document
  <2>2. saw[j].hash <= policy  BY DEF Vouched, HashesPast
  <2> QED  BY <2>1, <2>2, VouchedRead
<1>9. ASSUME NEW j \in Job, PublishCommit(j) \/ CleanupStage(j) PROVE Goal
  <2>1. SameOrEnded  BY <1>0, <1>9, CommitEnds DEF PublishCommit, CleanupStage
  <2>2. UNCHANGED <<hash, shown, audience, policy>>
    BY <1>9 DEF PublishCommit, CleanupStage, document
  <2>3. \A i \in IndexVersion : status'[i] \in {"ready", "active"} =>
          status[i] \in {"ready", "active"}
    BY <1>9 DEF PublishCommit, CleanupStage, Switched
  <2> QED  BY <2>1, <2>2, <2>3, VouchedKept
<1>10. ASSUME NEW j \in Job, RefreshRead(j) PROVE Goal
  <2> DEFINE r == [Nothing EXCEPT !.ivs = RefreshTargets, !.audience = audience,
                      !.searchable = life = "active" /\ idx = "indexed"]
  <2>1. /\ UNCHANGED <<audience, policy, status, hash, shown>>
        /\ Go(j, "refreshing", r)
    BY <1>10 DEF RefreshRead, document, indexes
  <2>2. r.hash = Nothing.hash /\ r.audience = audience  BY DEF Nothing
  <2> HIDE DEF r
  <2> QED  BY <1>p, <2>1, <2>2, VouchedRead
<1>11. ASSUME NEW j \in Job, RefreshCommit(j) PROVE Goal
  <2>1. /\ UNCHANGED <<audience, policy, hash, status>>
        /\ shown' = [i \in IndexVersion |->
                       IF i \in saw[j].ivs THEN saw[j].audience ELSE shown[i]]
        /\ step[j] = "refreshing"
    BY <1>11 DEF RefreshCommit, document, At
  <2>2. SameOrEnded  BY <1>0, <1>11, CommitEnds DEF RefreshCommit
  <2>3. \A i \in saw[j].ivs : hash[i] = policy => saw[j].audience = audience
    BY <2>1 DEF Vouched, ReadVouches
  <2>4. HashesPast' /\ ReadVouches'
    BY <1>p, <2>1, <2>2 DEF Vouched, HashesPast, ReadVouches, SameOrEnded, Nothing
  <2>5. HashVouches'  BY <2>1, <2>3 DEF Vouched, HashVouches
  <2> QED  BY <2>4, <2>5
<1> QED
  BY ONLY StepKinds, <1>0, [Next]_vars, <1>1, <1>2, <1>3, <1>4, <1>5, <1>6,
     <1>7, <1>8, <1>9, <1>10, <1>11

(* For every number of permission changes and refreshes, the entries of an *)
(* index version that was built for the document's snapshot show its       *)
(* audience.                                                               *)
THEOREM HashesVouch == Spec => []HashVouches
<1>1. Vouched => HashVouches  BY DEF Vouched
<1> QED  BY <1>1, InitVouched, StepVouched, PTL DEF Spec

---------------------------------------------------------------------------
(* Blocks and their refresh jobs.                                          *)

(* A job that does not exist has no type of its own, no transaction and no *)
(* effects; only a job that builds writes index entries.                   *)
JobsOpen ==
  \A j \in Job :
    /\ phase[j] = "absent" =>
         step[j] = "idle" /\ jobType[j] = "upload" /\ effects[j][Index] = 0
    /\ step[j] \in {"indexing", "upserted"} => jobType[j] # "permission_refresh"

(* A refresh that no commit, but also no end of the job took from those    *)
(* that a block may still be waiting for.                                  *)
Owing == Unrefreshed \cup Stranded

Owed == TypeOK /\ JobsOpen /\ tight <= Cardinality(Owing)

LEMMA CommitOpens ==
  ASSUME TypeOK, JobsOpen, NEW j \in Job, NEW s \in WorkStage, Commit(j, s),
         s # Index \/ jobType[j] # "permission_refresh"
  PROVE  JobsOpen' /\ Owing \subseteq Owing'
<1>1. /\ phase[j] = "live" /\ phase'[j] \in {"live", "success"}
      /\ effects' = [effects EXCEPT ![j][s] = 1]
      /\ \A k \in Job : k # j => phase'[k] = phase[k]
      /\ step' = [step EXCEPT ![j] = "idle"]
      /\ UNCHANGED jobType
  BY DEF Commit, Jobs!Perform, TypeOK
<1>2. \A k \in Job : \A t \in WorkStage : k # j \/ t # s => effects'[k][t] = effects[k][t]
  BY <1>1 DEF TypeOK
<1>3. Index \in WorkStage  OBVIOUS
<1>4. JobsOpen'
  BY <1>1, <1>2, <1>3 DEF JobsOpen, TypeOK
<1>5. ASSUME NEW k \in Owing PROVE k \in Owing'
  <2>1. k \in Job /\ Uncommitted(k)  BY <1>5 DEF Owing, Unrefreshed, Stranded
  <2>2. k # j
    <3> SUFFICES ASSUME k = j PROVE FALSE  OBVIOUS
    <3>1. Index \in Jobs!Rest(j)  BY <1>3, <2>1 DEF Uncommitted, Jobs!Rest
    <3>2. s <= Index /\ Index <= s
      BY <2>1, <3>1 DEF Commit, Jobs!Perform, Jobs!IsNext, Jobs!Rest, Uncommitted
    <3> QED  BY <2>1, <3>2 DEF Uncommitted
  <2>3. phase'[k] = phase[k] /\ Uncommitted(k)'
    BY <1>1, <1>2, <1>3, <2>1, <2>2 DEF Uncommitted, Commit, Jobs!Perform
  <2> QED  BY <1>5, <2>1, <2>3 DEF Owing, Unrefreshed, Stranded
<1> QED  BY <1>4, <1>5

LEMMA GoOpens ==
  ASSUME TypeOK, JobsOpen, NEW j \in Job, NEW r, NEW p, Go(j, p, r),
         phase[j] = "live",
         p \in {"indexing", "upserted"} => jobType[j] # "permission_refresh"
  PROVE  JobsOpen' /\ Owing' = Owing
BY GoTo DEF Go, jobs, JobsOpen, Owing, Unrefreshed, Stranded, Uncommitted

LEMMA EnqueueOpens ==
  ASSUME TypeOK, JobsOpen, NEW j \in Job, NEW t \in AllJobTypes,
         NEW s \in WorkStage, Enqueue(j, t, s)
  PROVE  /\ JobsOpen'
         /\ j \notin Owing
         /\ Owing' = IF t = "permission_refresh" /\ s = Index THEN Owing \cup {j}
                                                              ELSE Owing
<1>1. /\ phase[j] = "absent" /\ phase' = [phase EXCEPT ![j] = "live"]
      /\ jobType' = [jobType EXCEPT ![j] = t]
      /\ begin' = [begin EXCEPT ![j] = s]
      /\ UNCHANGED <<effects, step>>
  BY DEF Enqueue, Jobs!Create, txs
<1>2. step[j] = "idle" /\ jobType[j] = "upload" /\ effects[j][Index] = 0
  BY <1>1 DEF JobsOpen
<1>3. JobsOpen'  BY <1>1, <1>2 DEF JobsOpen, TypeOK
<1>4. j \notin Owing  BY <1>1 DEF Owing, Unrefreshed, Stranded
<1>5. \A k \in Job : /\ jobType'[k] = IF k = j THEN t ELSE jobType[k]
                     /\ begin'[k] = IF k = j THEN s ELSE begin[k]
                     /\ phase'[k] = IF k = j THEN "live" ELSE phase[k]
  BY <1>1 DEF TypeOK
<1>6. Owing' = {k \in Job : phase'[k] \in {"live", "failed", "cancelled"} /\ Uncommitted(k)'}
  BY DEF Owing, Unrefreshed, Stranded
<1>7. Owing = {k \in Job : phase[k] \in {"live", "failed", "cancelled"} /\ Uncommitted(k)}
  BY DEF Owing, Unrefreshed, Stranded
<1>8. \A k \in Job \ {j} : phase'[k] = phase[k] /\ (Uncommitted(k)' <=> Uncommitted(k))
  BY <1>1, <1>5 DEF Uncommitted
<1>9. phase'[j] = "live" /\ (Uncommitted(j)' <=> t = "permission_refresh" /\ s = Index)
  <2>1. phase'[j] = "live" /\ jobType'[j] = t /\ begin'[j] = s  BY <1>5
  <2>2. effects'[j][Index] = 0  BY <1>1, <1>2
  <2> QED  BY <2>1, <2>2 DEF Uncommitted
<1> HIDE DEF Owing
<1> QED  BY ONLY <1>3, <1>4, <1>6, <1>7, <1>8, <1>9, j \in Job

LEMMA StepOwes ==
  ASSUME TypeOK, JobsOpen, [Next]_vars
  PROVE  /\ JobsOpen'
         /\ \/ UNCHANGED tight /\ Owing \subseteq Owing'
            \/ tight' = tight + 1 /\ \E j \in Job : /\ j \notin Owing
                                                  /\ Owing' = Owing \cup {j}
            \/ tight' = 0
<1> DEFINE Keeps == JobsOpen' /\ UNCHANGED tight /\ Owing \subseteq Owing'
<1>1. ASSUME NEW j \in Job, ValidateStage(j) \/ ParseStage(j) \/ CleanStage(j)
                              \/ ChunkStage(j) \/ EmbedKeeps(j)
      PROVE  Keeps
  <2>1. PICK s \in WorkStage \ {Index} : Commit(j, s)
    BY <1>1 DEF ValidateStage, ParseStage, CleanStage, ChunkStage, EmbedKeeps
  <2> QED  BY <1>1, <2>1, CommitOpens
           DEF ValidateStage, ParseStage, CleanStage, ChunkStage, EmbedKeeps, blocks
<1>2. ASSUME NEW j \in Job, NEW i \in IndexVersion, EmbedCommit(j, i) PROVE Keeps
  BY <1>2, CommitOpens DEF EmbedCommit, blocks
<1>3. ASSUME NEW j \in Job, PublishCommit(j) \/ CleanupStage(j) \/ RefreshSkips(j)
      PROVE  Keeps
  <2>1. PICK s \in WorkStage \ {Index} : Commit(j, s)
    BY <1>3 DEF PublishCommit, CleanupStage, RefreshSkips
  <2> QED  BY <1>3, <2>1, CommitOpens
           DEF PublishCommit, CleanupStage, RefreshSkips, blocks
<1>4. ASSUME NEW j \in Job, IndexCommit(j) PROVE Keeps
  <2>1. jobType[j] # "permission_refresh"  BY <1>4 DEF IndexCommit, At, JobsOpen
  <2> QED  BY <1>4, <2>1, CommitOpens DEF IndexCommit, blocks
<1>5. ASSUME NEW j \in Job, EmbedRead(j) \/ PublishRead(j) \/ PublishWrite(j)
                              \/ RefreshRead(j)
      PROVE  Keeps
  <2>1. PICK p, r : Go(j, p, r) /\ p \notin {"indexing", "upserted"}
    BY <1>5 DEF EmbedRead, PublishRead, PublishWrite, RefreshRead
  <2>2. phase[j] = "live"
    BY <1>5 DEF EmbedRead, PublishRead, PublishWrite, RefreshRead, At, AtStage
  <2>3. UNCHANGED tight
    BY <1>5 DEF EmbedRead, PublishRead, PublishWrite, RefreshRead, blocks
  <2> QED  BY <2>1, <2>2, <2>3, GoOpens
<1>6. ASSUME NEW j \in Job, IndexRead(j) \/ IndexWrite(j) PROVE Keeps
  <2>1. PICK p, r : Go(j, p, r)  BY <1>6 DEF IndexRead, IndexWrite
  <2>2. jobType[j] # "permission_refresh"
    BY <1>6 DEF IndexRead, IndexWrite, Builds, At, JobsOpen
  <2>3. phase[j] = "live" /\ UNCHANGED tight
    BY <1>6 DEF IndexRead, IndexWrite, At, AtStage, blocks
  <2> QED  BY <2>1, <2>2, <2>3, GoOpens
<1>7. ASSUME NEW j \in Job, RefreshCommit(j) PROVE JobsOpen' /\ tight' = 0
  <2>1. Commit(j, Index) /\ tight' = 0  BY <1>7 DEF RefreshCommit, BlocksLeft
  <2>2. /\ phase[j] = "live" /\ phase'[j] \in {"live", "success"}
        /\ effects' = [effects EXCEPT ![j][Index] = 1]
        /\ \A k \in Job : k # j => phase'[k] = phase[k]
        /\ step' = [step EXCEPT ![j] = "idle"]
        /\ UNCHANGED jobType
    BY <2>1 DEF Commit, Jobs!Perform, TypeOK
  <2>3. JobsOpen'  BY <2>2 DEF JobsOpen, TypeOK
  <2> QED  BY <2>1, <2>3
<1>8. ASSUME NEW j \in Job, Abort(j) PROVE Keeps
  BY <1>8, GoOpens DEF Abort, blocks
<1>9. ASSUME NEW j \in Job, Stop(j) PROVE Keeps
  BY <1>9 DEF Stop, Jobs!Fail, blocks, JobsOpen, TypeOK,
              Owing, Unrefreshed, Stranded, Uncommitted
<1>10. ASSUME NEW j \in Job, NEW a \in Audience, ChangePermission(j, a)
       PROVE  /\ JobsOpen'
              /\ \/ UNCHANGED tight /\ Owing \subseteq Owing'
                 \/ /\ tight' = tight + 1 /\ j \notin Owing
                    /\ Owing' = Owing \cup {j}
  <2>1. Enqueue(j, "permission_refresh", Index)
    BY <1>10 DEF ChangePermission, FirstStage
  <2>2. /\ JobsOpen' /\ j \notin Owing
        /\ Owing' = Owing \cup {j}
    BY <2>1, EnqueueOpens DEF AllJobTypes
  <2> QED  BY <1>10, <2>2 DEF ChangePermission
<1>11. ASSUME NEW j \in Job, Rebuild(j) \/ Delete(j) PROVE Keeps
  <2>1. PICK t \in AllJobTypes, s \in WorkStage : Enqueue(j, t, s)
    BY <1>11 DEF Rebuild, Delete, FirstStage, AllJobTypes
  <2> QED  BY <1>11, <2>1, EnqueueOpens DEF Rebuild, Delete, blocks
<1>12. ASSUME NEW i \in Job, NEW j \in Job, RetryJob(i, j) PROVE Keeps
  <2>1. jobType[i] \in AllJobTypes /\ RetryStage(jobType[i]) \in WorkStage
    BY DEF TypeOK, RetryStage
  <2> QED  BY <1>12, <2>1, EnqueueOpens DEF RetryJob, blocks
<1>13. ASSUME NEW l \in {"active", "archived"}, SetLifecycle(l) PROVE Keeps
  BY <1>13 DEF SetLifecycle, blocks, jobs, txs, JobsOpen,
               Owing, Unrefreshed, Stranded, Uncommitted
<1>14. CASE UNCHANGED vars
  BY <1>14 DEF vars, blocks, jobs, txs, JobsOpen,
               Owing, Unrefreshed, Stranded, Uncommitted
<1> QED
  BY ONLY <1>1, <1>2, <1>3, <1>4, <1>5, <1>6, <1>7, <1>8, <1>9, <1>10, <1>11,
     <1>12, <1>13, <1>14, [Next]_vars
     DEF Next, StageStep, AdminStep, Rest

LEMMA OwingIsFinite ==
  /\ IsFiniteSet(Owing) /\ Cardinality(Owing) \in Nat
  /\ IsFiniteSet(Owing') /\ Cardinality(Owing') \in Nat
<1>1. IsFiniteSet(Job)  BY FS_Interval, SizesAssumption DEF Job
<1>2. Owing \subseteq Job /\ Owing' \subseteq Job
  BY DEF Owing, Unrefreshed, Stranded
<1> QED  BY <1>1, <1>2, FS_Subset, FS_CardinalityType

(* For every number of jobs, each block that a tightening put on the       *)
(* document has a live refresh job that will release it, except for one    *)
(* block at most per refresh that failed or was cancelled.                 *)
THEOREM NoBlockOrphaned == Spec => []BlocksHaveJobs
<1>1. Init => Owed
  <2> SUFFICES ASSUME Init PROVE Owed  OBVIOUS
  <2>1. JobsOpen  BY DEF Init, JobsOpen
  <2>2. tight <= Cardinality(Owing)  BY OwingIsFinite DEF Init
  <2> QED  BY <2>1, <2>2, InitTyped DEF Owed
<1>2. Owed /\ [Next]_vars => Owed'
  <2> SUFFICES ASSUME Owed, [Next]_vars PROVE Owed'  OBVIOUS
  <2>1. TypeOK' /\ JobsOpen'  BY StepTyped, StepOwes DEF Owed
  <2>2. tight \in Nat /\ tight <= Cardinality(Owing)
    BY DEF Owed, TypeOK
  <2>3. CASE UNCHANGED tight /\ Owing \subseteq Owing'
    <3>1. Cardinality(Owing) <= Cardinality(Owing')
      BY <2>3, OwingIsFinite, FS_Subset
    <3>2. tight' <= Cardinality(Owing')
      BY <2>2, <2>3, <3>1, OwingIsFinite
    <3> QED  BY <2>1, <3>2 DEF Owed
  <2>4. CASE tight' = tight + 1 /\ \E j \in Job :
               j \notin Owing /\ Owing' = Owing \cup {j}
    <3>1. Cardinality(Owing') = Cardinality(Owing) + 1
      BY <2>4, OwingIsFinite, FS_AddElement
    <3>2. tight' <= Cardinality(Owing')
      BY <2>2, <2>4, <3>1, OwingIsFinite
    <3> QED  BY <2>1, <3>2 DEF Owed
  <2>5. CASE tight' = 0
    <3>1. tight' <= Cardinality(Owing')  BY <2>5, OwingIsFinite
    <3> QED  BY <2>1, <3>1 DEF Owed
  <2> QED  BY <2>3, <2>4, <2>5, StepOwes DEF Owed
<1>3. Owed => BlocksHaveJobs
  <2>1. /\ IsFiniteSet(Unrefreshed) /\ IsFiniteSet(Stranded)
        /\ Unrefreshed \cap Stranded = {}
    BY OwingIsFinite, FS_Subset DEF Owing, Unrefreshed, Stranded
  <2>2. Cardinality(Owing) = Cardinality(Unrefreshed) + Cardinality(Stranded)
    <3>1. Cardinality(Unrefreshed \cup Stranded) =
            Cardinality(Unrefreshed) + Cardinality(Stranded) - Cardinality({})
      BY <2>1, FS_Union
    <3>2. Cardinality(Unrefreshed) \in Nat /\ Cardinality(Stranded) \in Nat
      BY <2>1, FS_CardinalityType
    <3> QED  BY <3>1, <3>2, FS_EmptySet DEF Owing
  <2> QED  BY <2>2 DEF Owed, BlocksHaveJobs
<1> QED  BY <1>1, <1>2, <1>3, PTL DEF Spec

---------------------------------------------------------------------------
(* Deletion, and the jobs' contract.                                       *)

(* For every number of jobs, no query finds a deleted document. *)
THEOREM DeletedIsHidden == Spec => []DeletedNeverHit
<1> DEFINE Barred == gone => barred
<1>1. Init => Barred  BY DEF Init
<1>2. Barred /\ [Next]_vars => Barred'
  <2> SUFFICES ASSUME Barred, [Next]_vars PROVE Barred'  OBVIOUS
  <2> USE DEF blocks, document
  <2>1. ASSUME NEW j \in Job, StageStep(j) PROVE UNCHANGED <<gone, barred>>
    BY <2>1 DEF StageStep, ValidateStage, ParseStage, CleanStage, ChunkStage,
       EmbedKeeps, EmbedRead, EmbedCommit, IndexRead, IndexWrite, IndexCommit,
       PublishRead, PublishWrite, PublishCommit, CleanupStage, RefreshRead,
       RefreshCommit, RefreshSkips
  <2>2. ASSUME NEW j \in Job, Abort(j) \/ Stop(j) PROVE UNCHANGED <<gone, barred>>
    BY <2>2 DEF Abort, Stop
  <2>3. ASSUME NEW j \in Job, AdminStep(j)
        PROVE  barred' = TRUE \/ UNCHANGED <<gone, barred>>
    BY <2>3 DEF AdminStep, ChangePermission, Rebuild, Delete, RetryJob
  <2>4. ASSUME NEW l \in {"active", "archived"}, SetLifecycle(l)
        PROVE  UNCHANGED <<gone, barred>>
    BY <2>4 DEF SetLifecycle
  <2>5. CASE UNCHANGED vars
    BY <2>5 DEF vars
  <2> QED  BY <2>1, <2>2, <2>3, <2>4, <2>5 DEF Next, Rest
<1>3. Barred => DeletedNeverHit  BY DEF DeletedNeverHit, KeywordHit
<1> QED  BY <1>1, <1>2, <1>3, PTL DEF Spec

(* Jobs do here only what JobLifecycle, which the job rows and the workers *)
(* implement, lets them do.                                                *)
THEOREM ContractKept == Spec => [][Jobs!Next]_(Jobs!jvars)
<1>1. TypeOK /\ [Next]_vars => [Jobs!Next]_(Jobs!jvars)
  <2> SUFFICES ASSUME TypeOK, [Next]_vars
               PROVE  Jobs!Next \/ UNCHANGED <<phase, begin, effects>>
    BY DEF Jobs!jvars
  <2>1. ASSUME NEW j \in Job, NEW s \in WorkStage, Commit(j, s) PROVE Jobs!Next
    BY <2>1 DEF Commit, Jobs!Next
  <2>2. ASSUME NEW j \in Job, NEW p, NEW r, Go(j, p, r)
        PROVE  UNCHANGED <<phase, begin, effects>>
    BY <2>2 DEF Go, jobs
  <2>3. ASSUME NEW j \in Job, StageStep(j)
        PROVE  Jobs!Next \/ UNCHANGED <<phase, begin, effects>>
    <3>1. ASSUME ValidateStage(j) \/ ParseStage(j) \/ CleanStage(j) \/ ChunkStage(j)
                 \/ EmbedKeeps(j) \/ (\E i \in IndexVersion : EmbedCommit(j, i))
          PROVE  \E s \in WorkStage : Commit(j, s)
      BY <3>1 DEF ValidateStage, ParseStage, CleanStage, ChunkStage, EmbedKeeps,
                  EmbedCommit
    <3>2. ASSUME IndexCommit(j) \/ PublishCommit(j) \/ CleanupStage(j)
                 \/ RefreshCommit(j) \/ RefreshSkips(j)
          PROVE  \E s \in WorkStage : Commit(j, s)
      BY <3>2 DEF IndexCommit, PublishCommit, CleanupStage, RefreshCommit,
                  RefreshSkips
    <3>3. ASSUME EmbedRead(j) \/ IndexRead(j) \/ IndexWrite(j)
          PROVE  \E p, r : Go(j, p, r)
      BY <3>3 DEF EmbedRead, IndexRead, IndexWrite
    <3>4. ASSUME PublishRead(j) \/ PublishWrite(j) \/ RefreshRead(j)
          PROVE  \E p, r : Go(j, p, r)
      BY <3>4 DEF PublishRead, PublishWrite, RefreshRead
    <3> QED  BY <2>1, <2>2, <2>3, <3>1, <3>2, <3>3, <3>4 DEF StageStep
  <2>4. ASSUME NEW j \in Job, Abort(j) \/ Stop(j)
        PROVE  Jobs!Next \/ UNCHANGED <<phase, begin, effects>>
    BY <2>2, <2>4 DEF Abort, Stop, Jobs!Next
  <2>5. ASSUME NEW j \in Job, AdminStep(j) PROVE Jobs!Next
    BY <2>5 DEF AdminStep, ChangePermission, Rebuild, Delete, RetryJob,
                Enqueue, Jobs!Next
  <2>6. ASSUME NEW l \in {"active", "archived"}, SetLifecycle(l)
        PROVE  UNCHANGED <<phase, begin, effects>>
    BY <2>6 DEF SetLifecycle, jobs
  <2>7. CASE UNCHANGED vars
    BY <2>7 DEF vars, jobs
  <2> QED  BY <2>1, <2>2, <2>3, <2>4, <2>5, <2>6, <2>7 DEF Next, Rest
<1> QED  BY <1>1, IndexTypeCorrect, PTL DEF Spec
=============================================================================
