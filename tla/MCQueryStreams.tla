---------------------------- MODULE MCQueryStreams ----------------------------
(* Two questions: one over the stream, one over either route. *)
EXTENDS QueryStreams

Thought  == Think \o <<">", "h">> \o EndThink
Ref(id)  == Source \o <<id, "]">>

MCScripts == [r1 |-> {Thought \o <<"x">> \o Ref("x")}, r2 |-> {Ref("y")}]
MCWays    == [r1 |-> {<<"stream", "answer">>, <<"stream", "search">>}, r2 |-> {<<"plain", "answer">>}]
=============================================================================
