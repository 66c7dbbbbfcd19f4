--------------------------- MODULE MCHybridBundle ---------------------------
(* A small instance of HybridBundle for TLC. *)
EXTENDS HybridBundle, TLC

CONSTANTS t1, t2

-----------------------------------------------------------------------------
(* The feature caches: the second name is one the first one's cache uses.   *)

MCNameOf == t1 :> <<"ordinaldb", "ltr">> @@ t2 :> <<"ordinaldb", "ltr", "labels">>
MCOtherNames == {<<"ordinaldb", "ids">>, <<"ordinaldb", "sparse_bm25">>}
MCCacheFiles == <<"labels", "queries">>

Labelled == [names |-> <<"rrf_score", "bm25_score">>, groups |-> 1, group_rows |-> 2,
             queries |-> 1, row_ids |-> 2, labels |-> 2, features |-> 4, finite |-> TRUE]
MCDataOf == "good" :> Labelled @@ "unlabelled" :> [Labelled EXCEPT !.labels = 1]

-----------------------------------------------------------------------------
(* Texts.  Bases: acce, id, pool, user, xypool, xy.  (xy is a prefix of     *)
(* xypool, but too short for a term: the two are never compared.)           *)

MCBaseLen == <<4, 2, 4, 4, 6, 2>>
MCIdf == <<<<288>>, <<693, 182>>, <<981, 470, 134>>>>   \* 1000 * idf

Word(base, s, form) == [base |-> base, s |-> s, form |-> form]
Token(base, s, form) == [whole |-> Word(base, s, form), parts |-> <<>>]
access == Token(1, 2, "lower")
acces == Token(1, 1, "lower")
ids == Token(2, 1, "lower")
id == Token(2, 0, "lower")
Pool == Token(3, 0, "mixed")
users == Token(4, 1, "lower")
xyPool == [whole |-> Word(5, 0, "mixed"), parts |-> <<Word(6, 0, "lower"), Word(3, 0, "mixed")>>]
accent == Token(1, 0, "other")

Doc(row, text) == [row_id |-> row, text |-> text]
Corpus(kind, docs) == [tokenizer |-> kind, docs |-> docs]
MCFirstCorpus ==
  Corpus("Simple", <<Doc(7, <<acces, users>>), Doc(8, <<Pool, ids>>), Doc(9, <<users, users>>)>>)
MCCorpora ==
  {Corpus("IdentifierSubtokens", <<Doc(8, <<xyPool>>), Doc(7, <<Pool, access>>), Doc(8, <<ids>>)>>),
   Corpus("Simple", <<Doc(7, <<users, users, users>>)>>),
   Corpus("Simple", <<Doc(9, <<id, accent>>), Doc(8, <<Pool>>), Doc(7, <<Pool>>)>>),
   Corpus("Simple", <<>>)}

MCQueryTexts == {<<>>, <<access, access>>, <<Pool, users>>, <<xyPool>>, <<users, id, ids, access>>}
MCAllowlists == {None, <<>>, <<9, 7, 7>>, <<8, 4>>}

\* The last of these has the rows of the second corpus: published between the
\* two verifications, it gives halves with different rows.
MCIdLists == {<<7, 8, 9>>, <<9, 8, 7>>, <<8, 7>>, <<7>>}
MCDenseScore == 4 :> 2 @@ 7 :> 1 @@ 8 :> 3 @@ 9 :> 2

Fusion(c, dense, sparse, k) ==
  [rank_constant |-> c, dense_window |-> dense, sparse_window |-> sparse, top_k |-> k]
MCFusionConfigs ==
  {Fusion(60, Unlimited, Unlimited, 2), Fusion(1, 1, 2, Unlimited), Fusion(1, 2, 0, 1)}

-----------------------------------------------------------------------------
(* Models: all trees of up to three nodes whose splits compare feature 1,   *)
(* and some of the other ways a record can be wrong.                        *)

Node(kind, f, left, right) ==
  [kind |-> kind, value |-> left, feature |-> f, threshold |-> 1, left |-> left, right |-> right]
Nodes == {Node("split", 1, l, r) : l, r \in 1..4}
         \cup {Node("leaf", 1, 1, 1), Node("partial", 1, 1, 1), Node("split", 3, 2, 3)}
Trees == UNION {[1..n -> Nodes] : n \in 0..3}
Stump(f) == <<Node("split", f, 2, 3), Node("leaf", 1, 1, 1), Node("leaf", 1, 5, 5)>>

Record(names, trees) ==
  [names |-> names, forbidden |-> {}, header |-> TRUE, base |-> 1, rate |-> 1, trees |-> trees]
MCModelRecords ==
  {Record(<<"rrf_score", "bm25_rank">>, <<tree>>) : tree \in Trees}
  \cup {Record(<<"rrf_score", "doc_cat_match">>, <<Stump(1)>>),
        Record(<<"rrf_score", "rrf_score">>, <<Stump(1)>>),
        [Record(<<"rrf_score">>, <<Stump(1)>>) EXCEPT !.header = FALSE],
        Record(<<"rrf_score">>, <<Stump(1), Stump(1), Stump(1)>>)}
MCDeployedModels ==
  {Record(<<"rrf_score">>, <<>>), Record(<<"dense_rank", "dense_cos">>, <<Stump(1), Stump(2)>>),
   Record(<<"bm25_score", "bm25_rank">>, <<[Stump(2) EXCEPT ![1].threshold = 2]>>),
   Record(<<"query_len_chars", "doc_len_chars">>, <<Stump(1)>>),
   Record(<<"title_len_chars">>, <<>>)}
MCLoadOptions == [max_trees |-> 2, max_nodes |-> 3, max_depth |-> 2, max_features |-> 2,
                  leakage |-> FALSE]
MCFeatureVectors == [1..2 -> 0..1]
=============================================================================
