---------------------------- MODULE MCLogReads ----------------------------
EXTENDS LogReads

Records == {<<"n">>, <<"a", "n">>, <<"a", "a", "n">>}
Chunks == {<<"a">>, <<"n">>, <<"a", "a", "n">>}
Texts == {<<"a", "A", "a">>, <<"x", "a", "n">>, <<"e", "[", "m", "a", "n">>,
          <<"e", "I1", "I2", "a", "n">>, <<"n", "I1">>, <<"I2", "a">>}

MCPayloads ==
  [k \in Kinds |-> CASE k = "pager" -> Records [] k = "follower" -> Chunks [] OTHER -> Texts]
MCMaxAppends == [k \in Kinds |-> IF k = "searcher" THEN 3 ELSE 5]
MCPatterns == {<<"a">>, <<"a", "a">>, <<"A">>, <<"m">>, <<"I1", "I2">>, <<"n", "a">>}
=============================================================================
