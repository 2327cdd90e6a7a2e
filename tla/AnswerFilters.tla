---------------------------- MODULE AnswerFilters ----------------------------
(***************************************************************************)
(* The texts an answer model produces, and what the service removes from   *)
(* them: reasoning in think blocks and [source:...] references, once from  *)
(* the whole answer and once, chunk by chunk, from the stream.  A text is  *)
(* a sequence of symbols.  <think is written "<" "t", </think is "<" "/",  *)
(* [source: is "[" "s"; "_" is white space, "x" and "y" stand for the      *)
(* identifiers of a source in the prompt and of one that is not, "h" is    *)
(* what the model only thinks.                                             *)
(***************************************************************************)
EXTENDS Naturals, Sequences, SequencesExt, FiniteSetsExt

Think    == <<"<", "t">>
EndThink == <<"<", "/", ">">>
Source   == <<"[", "s">>
Word     == {"t", "s", "x", "y", "h"}
Space    == "_"

At(s, i, w) == i + Len(w) - 1 <= Len(s) /\ SubSeq(s, i, i + Len(w) - 1) = w
Places(s, w) == {i \in DOMAIN s : At(s, i, w)}
From(s, i)   == SubSeq(s, i, Len(s))
Without(s, removed) == LET keep == SelectSeq([i \in DOMAIN s |-> i], LAMBDA i : i \notin removed)
                       IN [k \in DOMAIN keep |-> s[keep[k]]]

\* <think at a word boundary.
Opens(s)       == {i \in Places(s, Think) : i + 2 > Len(s) \/ s[i + 2] \notin Word}
TagEnds(s, i)  == {j \in DOMAIN s : j >= i + 2 /\ s[j] = ">"}
OpenTags(s)    == {i \in Opens(s) : TagEnds(s, i) # {}}
EndOfTag(s, i) == Min(TagEnds(s, i))
Blocks(s)      == {i \in OpenTags(s) : \E j \in Places(s, EndThink) : j > EndOfTag(s, i)}

\* Whole think blocks go, then a block that is never closed.
StripThinking(text) ==
  LET strip[s \in Seq(STRING)] ==
        IF Blocks(s) = {} THEN s
        ELSE LET i == Min(Blocks(s))
                 j == Min({k \in Places(s, EndThink) : k > EndOfTag(s, i)})
             IN SubSeq(s, 1, i - 1) \o strip[From(s, j + Len(EndThink))]
      rest == strip[text]
  IN IF Opens(rest) = {} THEN rest ELSE SubSeq(rest, 1, Min(Opens(rest)) - 1)

\* The ends of well-formed references that start at i, at most one.
RefEnds(s, i) == {j \in DOMAIN s : /\ j > i + 2 /\ s[j] = "]"
                                   /\ \A k \in i + 2..j - 1 : s[k] \notin {"]", Space}}
Refs(s)       == {i \in Places(s, Source) : RefEnds(s, i) # {}}
IdOf(s, i)    == SubSeq(s, i + 2, Min(RefEnds(s, i)) - 1)
Referenced(s) == {IdOf(s, i) : i \in Refs(s)}
Solid(s)      == SelectSeq(s, LAMBDA c : c # Space)

\* A reference goes with the white space before it.
StripRefs(s) ==
  LET spaces(i) == {k \in DOMAIN s : k < i /\ \A m \in k..i - 1 : s[m] = Space}
  IN Without(s, UNION {spaces(i) \cup (i..Min(RefEnds(s, i))) : i \in Refs(s)})

-----------------------------------------------------------------------------
(* The two filters of a stream.                                            *)

NewFilter == [buffer |-> <<>>, inside |-> FALSE, held |-> <<>>]

\* Faulty: a tag that is cut between two chunks is taken for text.
TagTail_Variant(s, w) == IF Len(s) >= Len(w) /\ At(s, Len(s) - Len(w) + 1, w) THEN Len(w) ELSE 0

\* How many symbols at the end of s may be the beginning of the tag w.
TagTail(s, w) == Max({0} \cup {n \in 1..Len(w) : n <= Len(s) /\
                               SubSeq(s, Len(s) - n + 1, Len(s)) = SubSeq(w, 1, n)})

\* What is visible of the chunks so far: symbols leave the buffer when they
\* can no longer be part of a tag.
ThinkingFeed(filter, chunk) ==
  LET run[b \in Seq(STRING), inside \in BOOLEAN, out \in Seq(STRING)] ==
        LET ends == Places(b, EndThink)
            tail == TagTail(b, IF inside THEN EndThink ELSE Think)
        IN IF inside
           THEN IF ends = {} THEN [buffer |-> From(b, Len(b) - tail + 1), inside |-> TRUE, out |-> out]
                ELSE run[From(b, Min(ends) + Len(EndThink)), FALSE, out]
           ELSE IF OpenTags(b) = {}
                THEN [buffer |-> From(b, Len(b) - tail + 1), inside |-> FALSE,
                      out |-> out \o SubSeq(b, 1, Len(b) - tail)]
                ELSE LET i == Min(OpenTags(b))
                     IN run[From(b, EndOfTag(b, i) + 1), TRUE, out \o SubSeq(b, 1, i - 1)]
  IN run[filter.buffer \o chunk, filter.inside, <<>>]

ThinkingFlush(filter) == IF filter.inside THEN <<>> ELSE StripThinking(filter.buffer)

\* Where a reference may have begun that has not ended yet; Len(s) + 1 if
\* nowhere.
RefTailStart(s) ==
  LET begun == Places(s, Source)
      open  == begun # {} /\ "]" \notin ToSet(From(s, Max(begun)))
  IN IF open THEN Max(begun) ELSE Len(s) - TagTail(s, Source) + 1

SourceFeed(held, visible) ==
  LET all == held \o visible
  IN [held |-> From(all, RefTailStart(all)), out |-> StripRefs(SubSeq(all, 1, RefTailStart(all) - 1))]

\* Nothing is sent before the first symbol that is not white space.
Trimmed(out, sent) ==
  IF Solid(sent) # <<>> THEN out
  ELSE LET solid == {i \in DOMAIN out : out[i] # Space}
       IN IF solid = {} THEN <<>> ELSE From(out, Min(solid))

=============================================================================
