--------------------------- MODULE CandidateRanking ---------------------------
(***************************************************************************)
(* The ranking algorithms between recall and the context of an answer:     *)
(* rank fusion, the quota of each sub-question, reranking with its         *)
(* fallbacks, the relevance and quality gates and the selection that keeps *)
(* every sub-question.                                                     *)
(*                                                                         *)
(* A candidate is a record: its chunk, the query that found it (the index  *)
(* in the rewritten list), its rank in the list it came from, its score,   *)
(* the best score any leg gave it (base), whether it carries an embedding, *)
(* and its weight (of its query and its source).  Scores are whole numbers *)
(* of a unit in which every weight / (RrfK + rank) is exact; the code's    *)
(* floats round, which is not modelled.                                    *)
(***************************************************************************)
EXTENDS Integers, Sequences, FiniteSets, SequencesExt, Lists

CONSTANTS
  RrfK,      \* DEFAULT_RRF_K
  Unit,      \* what a score of 1 is written as
  MinRerank, \* rerank_min_score
  MinFusion, \* min_fusion_score
  MinSource  \* min_source_score

ASSUME RankingAssumption ==
  /\ RrfK \in Nat \ {0} /\ Unit \in Nat \ {0}
  /\ MinRerank \in Nat /\ MinFusion \in Nat /\ MinSource \in Nat

AtLeast(a, b) == IF a < b THEN b ELSE a

Share(cand) == (cand.weight * Unit) \div (RrfK + cand.rank)

-----------------------------------------------------------------------------
(* Fusion.  Entries are kept in the order in which chunks first appear; an *)
(* entry holds the candidate that stands for the chunk, the sum of shares  *)
(* and the best score seen.                                                *)

Absorb(entries, cand) ==
  LET same == {i \in DOMAIN entries : entries[i].best.chunk = cand.chunk}
  IN IF same = {}
     THEN Append(entries, [best |-> cand, total |-> Share(cand), raw |-> cand.score])
     ELSE LET i == CHOOSE i \in same : TRUE
              e == entries[i]
              takes == cand.score > e.raw \/ (~e.best.emb /\ cand.emb)
          IN [entries EXCEPT ![i] = [best  |-> IF takes THEN cand ELSE e.best,
                                     total |-> e.total + Share(cand),
                                     raw   |-> AtLeast(e.raw, cand.score)]]

Before(entries, i, j) ==
  \/ entries[i].total > entries[j].total
  \/ /\ entries[i].total = entries[j].total
     /\ \/ entries[i].best.rank < entries[j].best.rank
        \/ entries[i].best.rank = entries[j].best.rank /\ i < j

PlaceOf(entries, n) ==
  CHOOSE i \in DOMAIN entries :
    Cardinality({j \in DOMAIN entries : Before(entries, j, i)}) = n - 1

InOrder(entries) ==
  [n \in DOMAIN entries |->
     LET e == entries[PlaceOf(entries, n)]
     IN [e.best EXCEPT !.score = e.total, !.base = e.raw, !.rank = n]]

Fuse(raw) ==
  LET run[n \in 0..Len(raw)] == IF n = 0 THEN <<>> ELSE Absorb(run[n - 1], raw[n])
  IN InOrder(run[Len(raw)])

-----------------------------------------------------------------------------
(* Lists of candidates. *)

Ranked(cands) == [n \in DOMAIN cands |-> [cands[n] EXCEPT !.rank = n]]

\* The first candidate of every chunk.
OncePerChunk(cands) ==
  Sublist(cands, {i \in DOMAIN cands : \A j \in 1..(i - 1) : cands[j].chunk # cands[i].chunk})

Merge(first, rest) == OncePerChunk(first \o rest)

FoundBy(cands, q) == Sublist(cands, {i \in DOMAIN cands : cands[i].query = q})

\* The first of every group, then the second of every group, and so on.
RoundRobin(groups, rounds) ==
  LET n == Len(groups)
      Pick(k) == LET offset == (k \div n) + 1
                     group  == groups[(k % n) + 1]
                 IN IF offset <= Len(group) THEN <<group[offset]>> ELSE <<>>
  IN Joined([k \in 1..(rounds * n) |-> Pick(k - 1)])

-----------------------------------------------------------------------------
(* Sub-questions.  queries is the list that is searched for, of records    *)
(* with an index and a flag for the user's own question; the queries that  *)
(* an answer has to cover are the others, or the first when there is none. *)

Coverage(queries) ==
  LET parts == Sublist(queries, {i \in DOMAIN queries : ~queries[i].original})
  IN IF parts = <<>> THEN <<queries[1].index>>
     ELSE [i \in DOMAIN parts |-> parts[i].index]

QuotaOf(total, cov) ==
  AtLeast((AtLeast(total, 1) + Len(cov) - 1) \div Len(cov), 1)

\* Faulty: what is beyond the quotas is dropped.
PrioritizeQuota_Variant(cands, cov, quota) ==
  IF Len(cov) <= 1 \/ cands = <<>> THEN cands
  ELSE OncePerChunk(RoundRobin([i \in DOMAIN cov |-> FoundBy(cands, cov[i])], quota))

PrioritizeQuota(cands, cov, quota) ==
  IF Len(cov) <= 1 \/ cands = <<>> THEN cands
  ELSE Merge(RoundRobin([i \in DOMAIN cov |-> FoundBy(cands, cov[i])], quota), cands)

FirstPerQuery(cands, cov) ==
  Sublist(cands, {i \in DOMAIN cands :
                    /\ cands[i].query \in ToSet(cov)
                    /\ \A j \in 1..(i - 1) : cands[j].query # cands[i].query})

\* Faulty: the best candidates, whichever sub-question they belong to.
SelectWithCoverage_Variant(cands, cov, limit) == Prefix(cands, limit)

SelectWithCoverage(cands, cov, limit) ==
  IF cands = <<>> \/ limit <= 0 THEN <<>>
  ELSE Prefix(Merge(FirstPerQuery(cands, cov), cands), AtLeast(limit, AtLeast(Len(cov), 1)))

-----------------------------------------------------------------------------
(* Reranking.  reply is what one call of the reranker does: it is the one  *)
(* that keeps the order ("noop"), the texts cannot be read ("no_texts"),   *)
(* the provider fails ("failed"), or it answers ("ok") with a list of      *)
(* positions and scores, which may be short, out of range or repeated.     *)

Reranked(list, degraded, call) == [list |-> list, degraded |-> degraded, call |-> call]

RerankOk(cands, items, limit) ==
  LET valid == {n \in DOMAIN items :
                  /\ items[n].pos \in DOMAIN cands
                  /\ \A m \in 1..(n - 1) : items[m].pos # items[n].pos}
      used  == {items[n].pos : n \in valid}
      scored == [k \in 1..Cardinality(valid) |->
                   LET n == Nth(valid, k)
                   IN [cands[items[n].pos] EXCEPT !.rank = n, !.score = items[n].score]]
      rest   == Sublist(cands, DOMAIN cands \ used)
      filler == [k \in DOMAIN rest |-> [rest[k] EXCEPT !.rank = Len(scored) + k]]
  IN Prefix(scored \o filler, limit)

Rerank(cands, reply, limit) ==
  CASE reply.kind = "noop"     -> Reranked(Prefix(cands, limit), FALSE, "none")
    [] reply.kind = "no_texts" /\ cands # <<>>
                               -> Reranked(Prefix(cands, limit), TRUE, "none")
    [] reply.kind = "failed" /\ cands # <<>>
                               -> Reranked(Prefix(cands, limit), TRUE, "failed")
    [] reply.kind = "ok" /\ cands # <<>>
                               -> Reranked(RerankOk(cands, reply.items, limit), FALSE, "success")
    [] OTHER                   -> Reranked(<<>>, FALSE, "none")

\* One call for the whole list when there is one question to cover, else
\* one for the candidates of each sub-question; what no sub-question found
\* follows as it is.
RerankForQueries(cands, cov, reply, limit, perQuery) ==
  IF Len(cov) <= 1 THEN Rerank(cands, reply[cov[1]], limit)
  ELSE
    LET asked  == Sublist(cov, {i \in DOMAIN cov : FoundBy(cands, cov[i]) # <<>>})
        result == [i \in DOMAIN asked |->
                     Rerank(FoundBy(cands, asked[i]), reply[asked[i]], perQuery)]
        calls  == Sublist(result, {i \in DOMAIN result : result[i].call # "none"})
        rounds == Len(cands)
        groups == [i \in DOMAIN asked |-> result[i].list]
        filler == Sublist(cands, {i \in DOMAIN cands : cands[i].query \notin ToSet(cov)})
        merged == Ranked(Prefix(OncePerChunk(
                    (IF groups = <<>> THEN <<>> ELSE RoundRobin(groups, rounds)) \o filler), limit))
    IN Reranked(IF merged = <<>> THEN Prefix(cands, limit) ELSE merged,
                \E i \in DOMAIN result : result[i].degraded,
                IF calls = <<>> THEN "none" ELSE calls[1].call)

Trusted(reranked) == ~reranked.degraded /\ reranked.call = "success"

-----------------------------------------------------------------------------
(* The gates.  Scores of a reranker that answered are held against its     *)
(* threshold; without them the fused score and the best raw score decide.  *)

RelevanceGate(reranked) ==
  LET relevant == Sublist(reranked.list, {i \in DOMAIN reranked.list : reranked.list[i].score >= MinRerank})
  IN IF MinRerank = 0 \/ reranked.list = <<>> \/ ~Trusted(reranked)
     THEN [list |-> reranked.list, failed |-> FALSE]
     ELSE [list |-> relevant, failed |-> relevant = <<>>]

QualityGate(cands, reranked) ==
  LET accepted == Sublist(cands, {i \in DOMAIN cands : cands[i].score >= MinFusion /\ cands[i].base >= MinSource})
  IN IF cands = <<>> \/ Trusted(reranked)
     THEN [list |-> cands, failed |-> FALSE]
     ELSE [list |-> accepted, failed |-> accepted = <<>>]
=============================================================================
