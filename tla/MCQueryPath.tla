---------------------------- MODULE MCQueryPath ----------------------------
(***************************************************************************)
(* Two requests over three chunks, of which "a" is edited and removed      *)
(* meanwhile, with a cache of two scores.  One deployment is hybrid with   *)
(* reranking and a language model; the other fuses by weighted scores and  *)
(* has neither.                                                            *)
(***************************************************************************)
EXTENDS QueryPath

MCIds == {"a", "b", "c"}
MCIdRank == [id \in MCIds |-> CASE id = "a" -> 1 [] id = "b" -> 2 [] id = "c" -> 3]
MCTextsOf == [id \in MCIds |-> CASE id = "a" -> {"ta", "ta2"} [] id = "b" -> {"tb"} [] id = "c" -> {"tc"}]
MCTexts == {"ta", "ta2", "tb", "tc"}
MCQueries == {"q", "r"}

\* The cosines that are not zero; the scale is 0 to 3.
Near(x, y) ==
    CASE <<x, y>> \in {<<"q", "tb">>, <<"q", "sb">>, <<"p", "tc">>, <<"h", "tc">>, <<"r", "ta">>,
                       <<"r", "sa">>, <<"sa", "ta">>, <<"sa2", "ta2">>, <<"sb", "tb">>, <<"sc", "tc">>} -> 3
      [] <<x, y>> \in {<<"q", "tc">>, <<"q", "sc">>, <<"r", "tc">>, <<"r", "sc">>, <<"p", "ta">>} -> 2
      [] <<x, y>> \in {<<"q", "ta">>, <<"q", "ta2">>, <<"sa", "tc">>, <<"claim", "tb">>} -> 1
      [] OTHER -> 0

Spoken == {"sa", "sa2", "sb", "sc", "claim", "short"}
MCLikeness == [x \in MCQueries \cup {"p", "h"} \cup Spoken |-> [y \in MCTexts \cup Spoken |-> Near(x, y)]]
MCRelevance == [x \in MCQueries |-> [t \in MCTexts |->
    IF x = "q" THEN (IF t \in {"tc", "ta2"} THEN 2 ELSE 0) ELSE IF t = "ta" THEN 1 ELSE 0]]

MCSentencesOf == [t \in MCTexts |->
    CASE t = "ta" -> <<Sentence("sa", <<>>)>>
      [] t = "ta2" -> <<Sentence("sa2", <<>>)>>
      [] t = "tb" -> <<Sentence("short", <<>>), Sentence("sb", <<>>)>>
      [] t = "tc" -> <<Sentence("sc", <<>>)>>]

\* The first sentence of "tc" ends in a bracketed reference of its own.
WithReferences == [MCSentencesOf EXCEPT !["tc"] = <<Sentence("sc", <<2>>)>>]

Hybrid == [expansion |-> "none", dense |-> TRUE, lexical |-> TRUE, rerank |-> TRUE, generates |-> TRUE,
           topDense |-> 2, topLexical |-> 2, fusion |-> "rrf", rrfK |-> 2, denseWeight |-> <<1, 2>>,
           candidates |-> 2, topK |-> 1, paraphrases |-> 1]
Plain == [Hybrid EXCEPT !.rerank = FALSE, !.generates = FALSE, !.fusion = "weighted", !.topK = 2,
                        !.denseWeight = <<2, 3>>]

Sent(queries, modes, topKs) == [query : queries, mode : modes, topK : topKs]
Nobody == [r \in Requests |-> {}]
Expanding == [settings |-> Hybrid,
              clients |-> [Nobody EXCEPT !["r1"] = Sent({"q"}, {None, "multi_query", "hyde"}, {None, 3})]]
Weighted == [settings |-> Plain,
             clients |-> [Nobody EXCEPT !["r1"] = Sent(MCQueries, {None}, {None, 3})]]
Concurrent == [settings |-> [Hybrid EXCEPT !.generates = FALSE, !.lexical = FALSE],
               clients |-> [Nobody EXCEPT !["r1"] = Sent(MCQueries, {None}, {None, 3}),
                                          !["r2"] = Sent(MCQueries, {None}, {3})]]
MCWorkloads == {Expanding, Weighted, Concurrent}

MCPhrasings == {<<EmptyLine, "p", "h">>}
MCPassages == {"h", EmptyLine}
Wrote(s) == [sentences |-> s, insufficient |-> FALSE]
MCCompletions == {Blank, Insufficient, Wrote(<<Sentence("sc", <<1>>)>>),
                  Wrote(<<Sentence("sc", <<1>>), Sentence("claim", <<2>>)>>),
                  Wrote(<<Sentence("sc", <<1, 9>>), Sentence(Nothing, <<1>>)>>)}
=============================================================================
