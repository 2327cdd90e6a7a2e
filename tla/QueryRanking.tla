----------------------------- MODULE QueryRanking -----------------------------
(***************************************************************************)
(* One question on its way from the text a user typed to the text a user   *)
(* reads: QueryOrchestrator with its rewriting, fusion, gates, context and *)
(* citation checks.  The database, the models and the vector store are the *)
(* environment: each action draws what they return.  Who may read what is  *)
(* QueryAccess; here a gate lets an arbitrary set of chunks pass.          *)
(***************************************************************************)
EXTENDS CandidateRanking, ContextBudget

CONSTANTS
  Texts,         \* what a query may say
  Question,      \* the normalized text of the question
  Fallbacks,     \* lists of texts that the question may split into, itself first
  Responses,     \* lists of items that the rewriting model may answer
  MaxQueries,
  KeywordWeight, VectorWeight, OriginalWeight, RewriteWeight,
  Recalls,       \* what the two legs may find: text |-> [keyword, vector]
  Replies,       \* what one call of the reranker may do
  Readable,      \* the sets of chunks that a gate may let pass
  Neighbours,    \* chunks next to each chunk of its document, in order
  ExpandWindow,  \* context_expand_neighbors, 0 or 1
  TopK,          \* top_k of the request
  RerankInput,   \* rerank_input_top_k
  Modes          \* of a request: answer and search

Nothing == <<>>
Chunks  == DOMAIN DocumentOf

Items == [text : Texts, original : BOOLEAN, weight : Int]
Hits  == [chunk : Chunks, score : Int, emb : BOOLEAN]
Legs  == [keyword : Seq(Hits), vector : Seq(Hits), down : BOOLEAN]

ASSUME QuestionAssumption ==
  /\ Question \in Texts /\ MaxQueries \in Nat \ {0}
  /\ Fallbacks \subseteq Seq(Texts) \ {<<>>} /\ Responses \subseteq Seq(Items)
  /\ KeywordWeight \in Nat /\ VectorWeight \in Nat
  /\ OriginalWeight \in Nat /\ RewriteWeight \in Nat
  /\ \A found \in Recalls : found \in [Texts -> Legs]
  /\ \A reply \in Replies : reply.kind = "ok" => reply.items \in Seq([pos : Int, score : Int])
  /\ Neighbours \in [Chunks -> Seq(Chunks)] /\ ExpandWindow \in {0, 1}
  /\ TopK \in Nat \ {0} /\ RerankInput \in Nat \ {0}

VARIABLES
  mode,      \* of the request
  stage,     \* how far the question is
  queries,   \* retrieval_queries
  fused,     \* candidates after fusion
  offered,   \* candidates in the order in which the gate takes them
  admitted,  \* allowed_candidates of the first gate
  passed,    \* chunks that some gate let pass
  reranked,  \* the result of reranking
  primary,   \* final_primary_candidates
  expanded,  \* primary candidates and their neighbours
  read,      \* those of them whose text could be loaded
  context,   \* what ContextBuilder made of them
  reasons,   \* degrade_reasons
  answer     \* what the model said, and what is shown of it

rankingVars == <<mode, stage, queries, fused, offered, admitted, passed, reranked, primary,
                 expanded, read, context, reasons, answer>>

Cov     == Coverage(queries)
NoReply == [text |-> FALSE, refs |-> {}, malformed |-> FALSE, spoken |-> "none"]

-----------------------------------------------------------------------------
(* Rewriting.  An item is a text, whether its intent is "original", and a  *)
(* weight in twentieths.  The fallback is the question, put in the context *)
(* of the conversation, and the parts it splits into.                      *)

FallbackItems(texts) ==
  [i \in DOMAIN texts |-> [text |-> texts[i], original |-> i = 1,
                           weight |-> IF i = 1 THEN 20 ELSE 17]]

Clamp(w) == IF w < 2 THEN 2 ELSE IF w > 20 THEN 20 ELSE w

\* Each text once, at most MaxQueries, weights between 0.1 and 1.
MergeItems(first, others) ==
  LET all == first \o others
      new == Prefix(Sublist(all, {i \in DOMAIN all : \A j \in 1..(i - 1) : all[j].text # all[i].text}),
                    MaxQueries)
  IN [n \in DOMAIN new |-> [new[n] EXCEPT !.weight = Clamp(@)]]

\* The model's items follow the first of the fallback; without a model, or
\* when it fails or answers nothing usable, the fallback stands alone.
Rewritten(fallback, response) ==
  IF response = Nothing THEN MergeItems(<<>>, fallback)
  ELSE MergeItems(SubSeq(MergeItems(<<>>, fallback), 1, 1), MergeItems(<<>>, response))

RetrievalQueries(items) ==
  [i \in DOMAIN items |->
     LET original == items[i].original \/ items[i].text = Question
     IN [index |-> i - 1, text |-> items[i].text, original |-> original,
         weight |-> items[i].weight * (IF original THEN OriginalWeight ELSE RewriteWeight)]]

\* Candidates of one leg for one query, annotated with both weights.
Annotated(hits, query, sourceWeight) ==
  [r \in DOMAIN hits |->
     [chunk |-> hits[r].chunk, query |-> query.index, rank |-> r, score |-> hits[r].score,
      base |-> hits[r].score, emb |-> hits[r].emb, weight |-> query.weight * sourceWeight]]

\* First what the keyword leg found for each query, then the vector leg.
RawCandidates(found) ==
  LET Leg(leg, w) == Joined([i \in DOMAIN queries |->
                       Annotated(found[queries[i].text][leg], queries[i], w)])
  IN Leg("keyword", KeywordWeight) \o Leg("vector", VectorWeight)

-----------------------------------------------------------------------------

RankingInit ==
  /\ mode \in Modes /\ stage = "rewrite"
  /\ queries = Nothing /\ fused = Nothing /\ offered = Nothing /\ admitted = Nothing
  /\ passed = {} /\ reranked = Reranked(Nothing, FALSE, "none") /\ primary = Nothing
  /\ expanded = Nothing /\ read = Nothing /\ context = NoContext /\ reasons = {}
  /\ answer = NoReply

Rewrite(fallback, response) ==
  /\ stage = "rewrite"
  /\ queries' = RetrievalQueries(Rewritten(fallback, response))
  /\ stage' = "recall"
  /\ UNCHANGED <<mode, fused, offered, admitted, passed, reranked, primary,
                 expanded, read, context, reasons, answer>>

\* Both legs are asked for every query; a vector search that fails finds
\* nothing and leaves its reason.  Fusion keeps everything.
Recall(found) ==
  LET raw == RawCandidates(found)
      down == \E i \in DOMAIN queries : found[queries[i].text].down
  IN
  /\ stage = "recall"
  /\ fused' = Fuse(raw)
  /\ offered' = PrioritizeQuota(fused', Cov, QuotaOf(RerankInput, Cov))
  /\ reasons' = IF down THEN {"vector_retrieval_degraded"} ELSE {}
  /\ stage' = "gate"
  /\ UNCHANGED <<mode, queries, admitted, passed, reranked, primary, expanded, read,
                 context, answer>>

ChunksOf(list) == {list[i].chunk : i \in DOMAIN list}

\* The candidates whose chunk is one of these.
Of(cands, chunks) == Sublist(cands, {i \in DOMAIN cands : cands[i].chunk \in chunks})

GateLimit == AtLeast(TopK, AtLeast(RerankInput, Len(Cov)))

Gate(readable) ==
  /\ stage = "gate"
  /\ admitted' = Prefix(Of(offered, readable), GateLimit)
  /\ passed' = ChunksOf(admitted')
  /\ stage' = "rerank"
  /\ UNCHANGED <<mode, queries, fused, offered, reranked, primary, expanded, read,
                 context, reasons, answer>>

RerankAdmitted(reply) ==
  /\ stage = "rerank"
  /\ reranked' = RerankForQueries(admitted, Cov, reply, AtLeast(Len(admitted), TopK),
                                  QuotaOf(TopK, Cov))
  /\ reasons' = reasons \cup (IF reranked'.degraded THEN {"rerank_degraded"} ELSE {})
  /\ stage' = "filter"
  /\ UNCHANGED <<mode, queries, fused, offered, admitted, passed, primary, expanded,
                 read, context, answer>>

\* The relevance gate, the selection, the quality gate and the selection.
Filter ==
  LET limit    == AtLeast(TopK, Len(Cov))
      relevant == RelevanceGate(reranked)
      selected == SelectWithCoverage(relevant.list, Cov, limit)
      good     == QualityGate(selected, reranked)
  IN
  /\ stage = "filter"
  /\ primary' = SelectWithCoverage(good.list, Cov, limit)
  /\ reasons' = reasons
       \cup (IF relevant.failed THEN {"retrieval_relevance_too_low"} ELSE {})
       \cup (IF good.failed THEN {"retrieval_quality_too_low"} ELSE {})
  /\ stage' = "expand"
  /\ UNCHANGED <<mode, queries, fused, offered, admitted, passed, reranked,
                 expanded, read, context, answer>>

-----------------------------------------------------------------------------
(* Neighbours.  They belong to the query of their anchor, pass the gate    *)
(* again and follow the primary candidates.                                *)

NeighbourOf(anchor, chunk) ==
  [anchor EXCEPT !.chunk = chunk, !.emb = FALSE,
                 !.score = (@ * 85) \div 100, !.base = (@ * 85) \div 100]

NeighbourRows(anchors) ==
  Ranked(Joined([i \in DOMAIN anchors |->
    LET near == Neighbours[anchors[i].chunk]
    IN [k \in DOMAIN near |-> NeighbourOf(anchors[i], near[k])]]))

\* The gate finds a row by its chunk: of a chunk that several anchors share
\* it takes the last row, in the place of each.
NeighbourCandidates(anchors) ==
  LET rows == NeighbourRows(anchors)
      Same(n) == {m \in DOMAIN rows : rows[m].chunk = rows[n].chunk}
  IN [n \in DOMAIN rows |-> rows[Largest(Same(n))]]

ExpandLimit == AtLeast(TopK, MaxChunks * (1 + ExpandWindow * 2))

Expand(readable) ==
  LET near == IF ExpandWindow = 0 THEN Nothing
              ELSE Prefix(Of(NeighbourCandidates(primary), readable),
                          AtLeast(ExpandLimit - Len(primary), 0))
  IN
  /\ stage = "expand" /\ mode = "answer"
  /\ expanded' = Merge(primary, near)
  /\ passed' = passed \cup ChunksOf(near)
  /\ stage' = "build"
  /\ UNCHANGED <<mode, queries, fused, offered, admitted, reranked, primary, read,
                 context, reasons, answer>>

\* A request for sources alone stops here and cites the primary candidates.
CiteOnly ==
  /\ stage = "expand" /\ mode # "answer"
  /\ expanded' = primary
  /\ stage' = "done"
  /\ UNCHANGED <<mode, queries, fused, offered, admitted, passed, reranked, primary,
                 read, context, reasons, answer>>

\* loaded: the chunks that still exist when their texts are read.
Build(loaded) ==
  /\ stage = "build"
  /\ read' = Of(expanded, loaded)
  /\ context' = BuildContext(read')
  /\ stage' = "answer"
  /\ UNCHANGED <<mode, queries, fused, offered, admitted, passed, reranked, primary,
                 expanded, reasons, answer>>

-----------------------------------------------------------------------------
(* The answer.  said is what the model produced: nothing (it failed, or    *)
(* there was no context), or text with references to chunks, perhaps a     *)
(* malformed one.  Of a text that consists of references alone nothing is  *)
(* left for display.                                                       *)

Cited == IF mode = "answer"
         THEN {context.chunks[i].cand.chunk : i \in DOMAIN context.chunks}
         ELSE ChunksOf(expanded)

\* Faulty: one allowed reference vouches for the others.
Verdict_Variant(said) ==
  CASE said.refs = {} /\ ~said.malformed -> "citation_missing"
    [] said.malformed                    -> "citation_invalid_format"
    [] OTHER -> IF said.refs \cap Cited # {} THEN "valid" ELSE "citation_unauthorized"

Verdict(said) ==
  CASE said.refs = {} /\ ~said.malformed -> "citation_missing"
    [] said.malformed                    -> "citation_invalid_format"
    [] OTHER -> IF said.refs \subseteq Cited THEN "valid" ELSE "citation_unauthorized"

\* Attaching references needs a text and a source; a malformed reference is
\* stripped from the text first.
Attachable(said) == said.text /\ Cited # {}

Spoken(said) ==
  CASE Verdict(said) = "valid"                -> IF said.text THEN "model" ELSE "nothing"
    [] Verdict(said) = "citation_unauthorized" -> "refusal"
    [] OTHER -> IF Attachable(said) THEN "model" ELSE "refusal"

\* The answer model is asked only when there is a context.
Generate(said) ==
  /\ stage = "answer" /\ context.chunks # <<>>
  /\ said.text \/ said.refs # {} \/ said.malformed
  /\ answer' = [said EXCEPT !.spoken = Spoken(said)]
  /\ reasons' = reasons \cup (IF Spoken(said) = "refusal" THEN {Verdict(said)} ELSE {})
  /\ stage' = "done"
  /\ UNCHANGED <<mode, queries, fused, offered, admitted, passed, reranked, primary,
                 expanded, read, context>>

\* No context, or the model fails: the degraded answer explains the reasons.
Explain ==
  /\ stage = "answer"
  /\ answer' = [NoReply EXCEPT !.spoken = "refusal"]
  /\ reasons' = reasons \cup {IF context.chunks = <<>> THEN "llm_context_empty"
                              ELSE "llm_degraded"}
  /\ stage' = "done"
  /\ UNCHANGED <<mode, queries, fused, offered, admitted, passed, reranked, primary,
                 expanded, read, context>>

Said == [text : BOOLEAN, refs : SUBSET Chunks, malformed : BOOLEAN, spoken : {"none"}]

RankingNext ==
  \/ \E texts \in Fallbacks, r \in Responses \cup {Nothing} : Rewrite(FallbackItems(texts), r)
  \/ \E found \in Recalls : Recall(found)
  \/ \E readable \in Readable : Gate(readable)
  \/ /\ stage = "rerank"
     /\ \E reply \in [ToSet(Cov) -> Replies] : RerankAdmitted(reply)
  \/ Filter
  \/ \E readable \in Readable : Expand(readable)
  \/ CiteOnly
  \/ \E loaded \in {Chunks} \cup {Chunks \ {c} : c \in Chunks} : Build(loaded)
  \/ \E said \in Said : Generate(said)
  \/ Explain

RankingSpec == RankingInit /\ [][RankingNext]_rankingVars

-----------------------------------------------------------------------------
(* Properties. *)

Once(list)     == Cardinality(ChunksOf(list)) = Len(list)
Found(list, q) == {i \in DOMAIN list : list[i].query = q}

\* No chunk is lost or repeated between the two legs and the gate, and the
\* order of fusion is one of falling scores (fuse, _merge_candidates).
FusionKeepsAll ==
  stage = "gate" =>
    /\ Once(fused) /\ Once(offered) /\ ToSet(fused) = ToSet(offered)
    /\ \A i, j \in DOMAIN fused : i < j => fused[i].score >= fused[j].score

\* A broad sub-question cannot crowd out a narrow one: as many candidates of
\* each as its share of the rerank input, or all it has, stand before the
\* place where the gate stops (_prioritize_query_quota against limit).
QuotaBeforeLimit ==
  stage = "gate" /\ Len(Cov) > 1 =>
    \A q \in ToSet(Cov) :
      LET quota == RerankInput \div Len(Cov)
          all   == Cardinality(Found(offered, q))
      IN Cardinality(Found(Prefix(offered, GateLimit), q)) >= (IF all < quota THEN all ELSE quota)

\* Fusion and quota together: every sub-question that found something is
\* still there, whole, when the permission gate starts.
NothingStarved == FusionKeepsAll /\ QuotaBeforeLimit

\* However the reranker orders, repeats or omits candidates, and even when
\* it fails for one sub-question only: it adds nothing, and a sub-question
\* whose best candidate passes the thresholds is still among the candidates
\* of the answer (_interleave_reranked_groups,
\* _select_candidates_with_query_coverage).
SubQuestionsSurvive ==
  stage = "expand" =>
    LET list == RelevanceGate(reranked).list
        Passes(c) == Trusted(reranked) \/ (c.score >= MinFusion /\ c.base >= MinSource)
    IN /\ ChunksOf(reranked.list) \subseteq ChunksOf(admitted) /\ Once(reranked.list)
       /\ \A q \in ToSet(Cov) : \A i \in Found(list, q) :
            (Passes(list[i]) /\ \A j \in Found(list, q) : i <= j) => Found(primary, q) # {}

Used == [i \in DOMAIN context.chunks |-> context.chunks[i].cand]

\* The prompt keeps all its limits at once: chunks, chunks of a document and
\* of a section for each sub-question, characters and tokens.
PromptWithinLimits ==
  /\ Len(Used) <= MaxChunks /\ Once(Used)
  /\ \A i \in DOMAIN Used :
       /\ Cardinality({j \in DOMAIN Used : SameDocument(Used[i], Used[j])}) <= MaxPerDocument
       /\ Cardinality({j \in DOMAIN Used : SameSection(Used[i], Used[j])}) <= MaxPerSection
  /\ Total([i \in DOMAIN Used |-> context.chunks[i].chars]) <= MaxChars
  /\ MaxTokens > 0 =>
       Total([i \in DOMAIN Used |-> Tokens(Used[i].chunk, context.chunks[i].chars)]) <= MaxTokens

\* What a user sees rests on chunks that passed a permission gate of this
\* request: neighbours read around a candidate are gated themselves; a text
\* that refers to a chunk outside of the prompt is not shown; and a user left
\* without any text got an answer of nothing but references.  The exception
\* is a malformed reference in the same text: validate_answer_citations tests
\* for those first, and the service replaces all references by allowed ones
\* and shows the text, which the documentation has fail closed.
AnswersGrounded ==
  /\ ChunksOf(expanded) \subseteq passed
  /\ stage \in {"answer", "done"} => Cited \subseteq passed
  /\ answer.spoken = "model" => (answer.refs \subseteq Cited \/ answer.malformed)
  /\ answer.spoken = "nothing" => (~answer.text /\ answer.refs \subseteq Cited)
  /\ answer.spoken = "refusal" => reasons # {}

=============================================================================
