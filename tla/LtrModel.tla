------------------------------ MODULE LtrModel ------------------------------
(***************************************************************************)
(* Learning to rank: the feature matrix of fused candidates and the tree   *)
(* ensemble that scores it (ordinaldb-hybrid/src/ltr_features.rs,          *)
(* ltr_model.rs).  Pure: no state.                                         *)
(*                                                                         *)
(* Numbers are integers.  A tree is a sequence of nodes, indexed from 0 in *)
(* the code and from 1 here; node i's children are left and right.         *)
(***************************************************************************)
EXTENDS RankFusion

-----------------------------------------------------------------------------
(* LtrFeatureBatch.  Inputs are [fused, bm25, rank_cos, dense_cos,          *)
(* doc_len, query_len]: the sources are batches or None, doc_len a       *)
(* function of row IDs and query_len a sequence, or None.                *)

SourceOf == [bm25_score |-> "bm25", bm25_rank |-> "bm25",
             rank_cos |-> "rank_cos", rank_cos_rank |-> "rank_cos",
             dense_cos |-> "dense_cos", dense_rank |-> "dense_cos"]
RankFeatures == {"bm25_rank", "rank_cos_rank", "dense_rank"}

\* validate_inputs
QueryCountsAgree(inputs) ==
  \A source \in {"bm25", "rank_cos", "dense_cos", "query_len"} :
    inputs[source] # None => Len(inputs[source]) = Len(inputs.fused)

\* Mutant: ranks count from 0.
RankFromZero(list, id) == RankIn(list, Unlimited, id) - 1

\* SourceHit.rank
SourceRank(list, id) == RankIn(list, Unlimited, id)

\* feature_value: Err when the source was not given or does not have the row
FeatureValue(name, row, q, inputs) ==
  CASE name = "rrf_score" -> row.score
    [] name \in DOMAIN SourceOf ->
         LET batch == inputs[SourceOf[name]] IN
         IF batch = None THEN Err
         ELSE IF RankIn(batch[q], Unlimited, row.row_id) = NoRank THEN Err
         ELSE IF name \in RankFeatures THEN SourceRank(batch[q], row.row_id)
         ELSE batch[q][RankIn(batch[q], Unlimited, row.row_id)].score
    [] name = "doc_len_chars" ->
         IF inputs.doc_len # None /\ row.row_id \in DOMAIN inputs.doc_len
         THEN inputs.doc_len[row.row_id] ELSE Err
    [] name = "query_len_chars" ->
         IF inputs.query_len = None THEN Err ELSE inputs.query_len[q]
    [] OTHER -> Err

IsFeatureList(names) == names # <<>> /\ \A i, j \in DOMAIN names : names[i] = names[j] => i = j

\* from_inputs: per query the rows [row_id, features], features in model order
FeaturesOf(inputs, names) ==
  LET Row(q, row) == [row_id |-> row.row_id,
                      features |-> [i \in DOMAIN names |-> FeatureValue(names[i], row, q, inputs)]]
      batch == [q \in DOMAIN inputs.fused |->
                  [i \in DOMAIN inputs.fused[q] |-> Row(q, inputs.fused[q][i])]]
  IN IF \/ ~IsFeatureList(names) \/ ~QueryCountsAgree(inputs)
        \/ \E q \in DOMAIN batch : \E i \in DOMAIN batch[q] :
             \E f \in DOMAIN names : batch[q][i].features[f] = Err
     THEN Err ELSE batch

-----------------------------------------------------------------------------
(* TreeEnsembleReranker.  A model record is [names, forbidden, header,      *)
(* base, rate, trees]: header says whether the fields with a fixed set of   *)
(* values have one.  A node is [kind, value] or [kind, feature, threshold,  *)
(* left, right], kind "leaf" or "split"; any other mixture of fields is     *)
(* "partial".  Options are [max_trees, max_nodes, max_depth, max_features,  *)
(* leakage].                                                                *)

\* validate_feature_schema
ValidSchema(record, o) ==
  /\ IsFeatureList(record.names) /\ Len(record.names) <= o.max_features
  /\ o.leakage \/ \A i \in DOMAIN record.names :
                    record.names[i] \notin record.forbidden \cup {"doc_cat_match"}

\* compile_node
ValidNode(node, nodes, names) ==
  \/ node.kind = "leaf"
  \/ /\ node.kind = "split"
     /\ node.feature \in DOMAIN names
     /\ {node.left, node.right} \subseteq DOMAIN nodes

TooDeep == {0}   \* no visited set: the walk failed

\* Mutant: the depth is compared before the node is counted.
WalkFromZero(nodes, maxDepth) ==
  LET walk[depth \in 0..(maxDepth + 1)] ==
        [n \in DOMAIN nodes |-> [path \in SUBSET DOMAIN nodes |->
          IF depth > maxDepth \/ n \in path THEN TooDeep
          ELSE IF nodes[n].kind = "leaf" THEN {n}
          ELSE {n} \cup walk[depth + 1][nodes[n].left][path \cup {n}]
                   \cup walk[depth + 1][nodes[n].right][path \cup {n}]]]
  IN walk[0][1][{}]

\* validate_reachable_tree: the nodes visited from the root, with 0 among them
\* when a path is deeper than allowed or returns to a node it came from
Walk(nodes, maxDepth) ==
  LET walk[depth \in 1..(maxDepth + 1)] ==
        [n \in DOMAIN nodes |-> [path \in SUBSET DOMAIN nodes |->
          IF depth > maxDepth \/ n \in path THEN TooDeep
          ELSE IF nodes[n].kind = "leaf" THEN {n}
          ELSE {n} \cup walk[depth + 1][nodes[n].left][path \cup {n}]
                   \cup walk[depth + 1][nodes[n].right][path \cup {n}]]]
  IN walk[1][1][{}]

\* compile_tree: every node is visited, and nothing else
ValidTree(nodes, names, o) ==
  /\ Len(nodes) \in 1..o.max_nodes
  /\ \A i \in DOMAIN nodes : ValidNode(nodes[i], nodes, names)
  /\ Walk(nodes, o.max_depth) = DOMAIN nodes

\* validate_options, validate_model_header, from_record_with_options
CompiledModel(record, o) ==
  IF /\ o.max_trees > 0 /\ o.max_nodes > 0 /\ o.max_depth > 0 /\ o.max_features > 0
     /\ ValidSchema(record, o) /\ record.header
     /\ Len(record.trees) <= o.max_trees
     /\ \A i \in DOMAIN record.trees : ValidTree(record.trees[i], record.names, o)
  THEN record ELSE Err

\* score_tree: at most one step more than there are nodes
ScoreTree(nodes, features) ==
  LET step[left \in 0..(Len(nodes) + 1)] ==
        [n \in DOMAIN nodes |->
          IF left = 0 THEN Err
          ELSE IF nodes[n].kind = "leaf" THEN nodes[n].value
          ELSE step[left - 1][IF features[nodes[n].feature] < nodes[n].threshold
                              THEN nodes[n].left ELSE nodes[n].right]]
  IN step[Len(nodes) + 1][1]

\* score_features
ScoreFeatures(model, features) ==
  LET leaves == [i \in DOMAIN model.trees |-> ScoreTree(model.trees[i], features)] IN
  IF Len(features) # Len(model.names) \/ \E i \in DOMAIN leaves : leaves[i] = Err THEN Err
  ELSE model.base + model.rate * SumOf(leaves)

\* rerank_batch.  The rows are those of a fused list, each row_id once.
RerankQuery(model, rows, k) ==
  Take(RankOrder({[row_id |-> rows[i].row_id, score |-> ScoreFeatures(model, rows[i].features)] :
                    i \in DOMAIN rows}), k)

\* rerank_fused_batch, TreeEnsembleReranker::rerank
Rerank(model, inputs, k) ==
  LET batch == FeaturesOf(inputs, model.names)
      lists == [q \in DOMAIN batch |-> RerankQuery(model, batch[q], k)]
  IN IF batch = Err THEN Err
     ELSE IF \E q \in DOMAIN batch : \E i \in DOMAIN batch[q] :
               ScoreFeatures(model, batch[q][i].features) = Err THEN Err
     ELSE FromSortedOffsetsHits(OffsetsOf(lists), SeqExt!FlattenSeq(lists))

-----------------------------------------------------------------------------
(* What an accepted tree promises                                           *)

\* The paths of at most depth nodes from the root that follow the split
\* semantics feature < threshold => left
IsWalkOf(nodes, features, path) ==
  /\ path[1] = 1
  /\ \A i \in 1..(Len(path) - 1) :
       /\ nodes[path[i]].kind = "split"
       /\ path[i + 1] = (IF features[nodes[path[i]].feature] < nodes[path[i]].threshold
                         THEN nodes[path[i]].left ELSE nodes[path[i]].right)

\* Every feature vector is scored, by the leaf its splits lead to, within
\* the depth the options allow.
TreeIsTotal(nodes, features, maxDepth) ==
  \E depth \in 1..maxDepth : \E path \in [1..depth -> DOMAIN nodes] :
    /\ IsWalkOf(nodes, features, path)
    /\ nodes[path[depth]].kind = "leaf"
    /\ ScoreTree(nodes, features) = nodes[path[depth]].value
=============================================================================
