---------------------------- MODULE MCQueryRanking ----------------------------
(* Four chunks of two documents; a question with up to two sub-questions. *)
EXTENDS QueryRanking

Item(text, original, weight) == [text |-> text, original |-> original, weight |-> weight]
MCTexts == {"q", "s1", "s2"}
MCFallbacks == {<<"q">>, <<"q", "s1", "s2">>}
\* Also a model that calls a sub-question the original one.
MCResponses == {<<Item("s2", FALSE, 40), Item("s1", FALSE, 1), Item("s2", FALSE, 5)>>,
                <<Item("s1", TRUE, 18), Item("s2", FALSE, 18)>>}

Hit(chunk, score, emb) == [chunk |-> chunk, score |-> score, emb |-> emb]
Leg(keyword, vector)   == [keyword |-> keyword, vector |-> vector, down |-> FALSE]
Down(keyword)          == [keyword |-> keyword, vector |-> <<>>, down |-> TRUE]
Blank == Leg(<<>>, <<>>)

MCRecalls ==
  LET a == Hit("a", 6, FALSE)  av == Hit("a", 4, TRUE)
      b == Hit("b", 1, FALSE)  bv == Hit("b", 5, TRUE)
      c == Hit("c", 3, FALSE)  dv == Hit("d", 2, TRUE)
      a1 == Hit("a", 8, TRUE)  d2 == Hit("d", 7, TRUE)
  IN {[q |-> Blank, s1 |-> Blank, s2 |-> Blank],
      [q |-> Leg(<<a, b>>, <<av, bv>>), s1 |-> Leg(<<a, b, c>>, <<a1, bv>>), s2 |-> Leg(<<c>>, <<d2>>)],
      [q |-> Down(<<a, b, c>>), s1 |-> Down(<<b, a>>), s2 |-> Leg(<<b, c>>, <<dv, bv>>)],
      [q |-> Leg(<<c>>, <<dv, av>>), s1 |-> Blank, s2 |-> Leg(<<a, b>>, <<bv, dv>>)]}

Scored(pos, score) == [pos |-> pos, score |-> score]
MCReplies == {[kind |-> "noop"], [kind |-> "failed"], [kind |-> "no_texts"],
              [kind |-> "ok", items |-> <<Scored(2, 9), Scored(2, 8), Scored(7, 8), Scored(1, 1)>>],
              [kind |-> "ok", items |-> <<Scored(1, 5)>>]}

MCDocumentOf == [a |-> "D1", b |-> "D1", c |-> "D2", d |-> "D2"]
MCSectionOf  == [a |-> "S1", b |-> "S1", c |-> "S1", d |-> "S2"]
MCLength     == [a |-> 7, b |-> 3, c |-> 1, d |-> 4]
MCCharsPerToken == [a |-> 1, b |-> 2, c |-> 1, d |-> 4]
MCSimilarity == [p \in (DOMAIN MCDocumentOf) \X (DOMAIN MCDocumentOf) |->
                   IF p[1] = p[2] THEN 6 ELSE IF MCDocumentOf[p[1]] = MCDocumentOf[p[2]] THEN 4 ELSE 1]
MCReadable   == {{}, {"a", "b"}, {"a", "c", "d"}, {"a", "b", "c", "d"}}
MCNeighbours == [a |-> <<"b">>, b |-> <<"a">>, c |-> <<"d">>, d |-> <<"c">>]
MCModes      == {"answer", "search"}
===============================================================================
