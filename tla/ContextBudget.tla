---------------------------- MODULE ContextBudget ----------------------------
(***************************************************************************)
(* ContextBuilder: which of the candidates that passed the permission gate *)
(* go into the prompt, and how much of each.                               *)
(*                                                                         *)
(* A chunk's text is its number of characters, Length[c]; its first n      *)
(* characters cost Tokens(c, n) tokens.  White space at a cut is not       *)
(* modelled.  MaxTokens = 0 stands for no token budget.  Similarity and    *)
(* scores are in the unit of CandidateRanking; Lambda is in tenths.        *)
(***************************************************************************)
EXTENDS Integers, Sequences, FiniteSets, Lists

CONSTANTS
  DocumentOf, SectionOf, \* of each chunk
  Length,                \* characters of each chunk
  CharsPerToken,         \* of each chunk, at least 1
  Similarity,            \* of each pair of chunks
  MaxChunks, MaxChars, MaxTokens, MaxPerDocument, MaxPerSection,
  MmrEnabled, Lambda

ASSUME ContextAssumption ==
  /\ MaxChunks \in Nat \ {0} /\ MaxChars \in Nat \ {0} /\ MaxTokens \in Nat
  /\ MaxPerDocument \in Nat \ {0} /\ MaxPerSection \in Nat \ {0}
  /\ MmrEnabled \in BOOLEAN /\ Lambda \in 0..10
  /\ DOMAIN SectionOf = DOMAIN DocumentOf
  /\ Length \in [DOMAIN DocumentOf -> Nat]
  /\ CharsPerToken \in [DOMAIN DocumentOf -> Nat \ {0}]
  /\ Similarity \in [(DOMAIN DocumentOf) \X (DOMAIN DocumentOf) -> Int]

Least(a, b)  == IF a < b THEN a ELSE b
Tokens(c, n) == (n + CharsPerToken[c] - 1) \div CharsPerToken[c]

-----------------------------------------------------------------------------
(* Which candidates: at most MaxChunks, and for each sub-question at most  *)
(* so many of a document and of a section.                                 *)

\* _document_limit_key and _section_key; a chunk without a section is one.
SameDocument(a, b) == a.query = b.query /\ DocumentOf[a.chunk] = DocumentOf[b.chunk]
SameSection(a, b)  == SameDocument(a, b) /\ SectionOf[a.chunk] = SectionOf[b.chunk]

WithinLimits(c, chosen) ==
  /\ Cardinality({i \in DOMAIN chosen : SameDocument(c, chosen[i])}) < MaxPerDocument
  /\ Cardinality({i \in DOMAIN chosen : SameSection(c, chosen[i])}) < MaxPerSection

\* In order, each that still fits.
TakeNext(chosen, c) ==
  IF Len(chosen) < MaxChunks /\ WithinLimits(c, chosen) THEN Append(chosen, c) ELSE chosen

SelectByRank(cands, chosen) ==
  LET run[n \in 0..Len(cands)] == IF n = 0 THEN chosen ELSE TakeNext(run[n - 1], cands[n])
  IN run[Len(cands)]

\* The most relevant that is least like what is chosen, again and again.
MmrScore(c, chosen) ==
  LET likeness == {Similarity[<<c.chunk, chosen[i].chunk>>] : i \in DOMAIN chosen} \cup {0}
  IN Lambda * c.score - (10 - Lambda) * Largest(likeness)

Eligible(cands, chosen) ==
  {i \in DOMAIN cands : /\ \A j \in DOMAIN chosen : chosen[j].chunk # cands[i].chunk
                        /\ WithinLimits(cands[i], chosen)}

Best(cands, chosen) ==
  CHOOSE i \in Eligible(cands, chosen) : \A j \in Eligible(cands, chosen) :
    \/ MmrScore(cands[i], chosen) > MmrScore(cands[j], chosen)
    \/ MmrScore(cands[i], chosen) = MmrScore(cands[j], chosen) /\ i <= j

TakeBest(cands, chosen) ==
  IF Len(chosen) >= MaxChunks \/ Eligible(cands, chosen) = {} THEN chosen
  ELSE Append(chosen, cands[Best(cands, chosen)])

SelectWithMmr(cands, chosen) ==
  LET run[n \in 0..Len(cands)] == IF n = 0 THEN chosen ELSE TakeBest(cands, run[n - 1])
  IN run[Len(cands)]

Fill(cands, chosen) ==
  IF MmrEnabled THEN SelectWithMmr(cands, chosen) ELSE SelectByRank(cands, chosen)

\* The sub-questions of a list: query 0 is the user's own.
Parts(cands) == {cands[i].query : i \in DOMAIN cands} \ {0}

\* The first candidate of each sub-question, when there are several.
Seeds(cands) ==
  LET parts == Parts(cands)
  IN IF Cardinality(parts) <= 1 THEN <<>>
     ELSE [n \in 1..Cardinality(parts) |->
             Sublist(cands, {i \in DOMAIN cands : cands[i].query = Nth(parts, n)})[1]]

SelectItems(cands) ==
  LET seeds == SelectByRank(Seeds(cands), <<>>)
      left  == Sublist(cands, {i \in DOMAIN cands : \A j \in DOMAIN seeds : seeds[j].chunk # cands[i].chunk})
  IN Fill(left, seeds)

-----------------------------------------------------------------------------
(* How much of each.  With several sub-questions the budget is split by    *)
(* the number of selected chunks.                                          *)

Split(budget, chosen) ==
  IF Cardinality(Parts(chosen)) <= 1 THEN budget
  ELSE LET share == budget \div Len(chosen) IN IF share = 0 THEN 1 ELSE share

\* Faulty: the share of a chunk is granted without a look at what is left.
Fit_Variant(c, acc, charShare, tokenShare) ==
  LET kept == Least(Length[c], charShare)
  IN [n |-> kept, cut |-> kept < Length[c]]

Fit(c, acc, charShare, tokenShare) ==
  LET room   == Least(MaxChars - acc.chars, charShare)
      kept   == Least(Length[c], room)
      afford == Least(MaxTokens - acc.tokens, tokenShare)
      inTokens == Largest({n \in 0..kept : Tokens(c, n) <= afford})
  IN IF room <= 0 THEN [n |-> 0, cut |-> TRUE]
     ELSE IF MaxTokens = 0 \/ kept = 0 THEN [n |-> kept, cut |-> kept < Length[c]]
     ELSE IF afford <= 0 THEN [n |-> 0, cut |-> TRUE]
     ELSE [n |-> inTokens, cut |-> inTokens < Length[c]]

Exhausted(acc) == acc.chars >= MaxChars \/ (MaxTokens > 0 /\ acc.tokens >= MaxTokens)

\* Of an empty prompt.
NoContext == [chunks |-> <<>>, chars |-> 0, tokens |-> 0, cut |-> FALSE, done |-> FALSE]

Grant(acc, c, charShare, tokenShare) ==
  LET fit  == Fit(c.chunk, acc, charShare, tokenShare)
      next == [acc EXCEPT !.chunks = Append(@, [cand |-> c, chars |-> fit.n]),
                          !.chars  = @ + fit.n,
                          !.tokens = @ + Tokens(c.chunk, fit.n)]
  IN IF acc.done THEN acc
     ELSE IF fit.n = 0
          THEN [acc EXCEPT !.cut = @ \/ fit.cut, !.done = Exhausted(acc)]
          ELSE [next EXCEPT !.cut = @ \/ fit.cut \/ Exhausted(next),
                            !.done = Exhausted(next)]

\* The prompt's chunks: candidates with the characters kept of each.
BuildContext(cands) ==
  LET chosen == SelectItems(cands)
      run[n \in 0..Len(chosen)] ==
        IF n = 0 THEN NoContext
        ELSE Grant(run[n - 1], chosen[n], Split(MaxChars, chosen), Split(MaxTokens, chosen))
  IN run[Len(chosen)]
=============================================================================
