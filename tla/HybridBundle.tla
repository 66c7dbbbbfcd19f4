---------------------------- MODULE HybridBundle ----------------------------
(***************************************************************************)
(* A bundle searched both ways (ordinaldb/src/hybrid.rs and                *)
(* ordinaldb-hybrid): the sparse file is built beside the bundle, copied   *)
(* into it by a publication, and opened with the dense index by two        *)
(* verifications one after the other; the results of both are fused and    *)
(* reranked by a model.  The trainers of FeatureCache work on the same     *)
(* bundle, and every verification reads what they attached.                *)
(***************************************************************************)
EXTENDS FeatureCache, SparseIndex, LtrModel

CONSTANTS
  Corpora,        \* what the sparse builder is given: [tokenizer, docs]
  FirstCorpus,    \* the corpus of the bundle published first
  IdLists,        \* row IDs of the published indexes, in slot order
  QueryTexts,     \* query texts
  Allowlists,     \* allowlists of row IDs, or None
  DenseScore,     \* DenseScore[id]: the score of id in the dense search
  FusionConfigs,  \* RrfConfig values
  LoadOptions,    \* LtrLoadOptions
  ModelRecords,   \* model records tried while nothing else happens
  DeployedModels, \* model records loaded to rerank
  FeatureVectors, \* feature vectors the trees are tried on
  MaxTop          \* bound: top_k

VARIABLES
  written,    \* the sparse file beside the bundle: [file, meant], meant the
              \* documents it was built from, None once it was damaged
  published,  \* the bundle: [ids, sparse], the latter a copy of written
  index,      \* Bm25MmapIndex opened from written: [file, meant], Err or None
  halves,     \* HybridBundle::open_verified: [ids, sparse], sparse None until
              \* that half is open too; or None
  model       \* TreeEnsembleReranker, Err or None

\* Row IDs are u64, and the bundle published first was written.
ASSUME CorporaAreTexts ==
  Corpora \cup {FirstCorpus} \subseteq CorpusRecords /\ WrittenFile(FirstCorpus) # Err

\* Published indexes name each row once, and the dense search scores all of
\* them; queries are texts.
ASSUME InputsAreTyped ==
  /\ NonFinite \notin Int
  /\ \A id \in DOMAIN DenseScore : id \in Nat /\ DenseScore[id] \in Int
  /\ IdLists \subseteq {ids \in Seq(DOMAIN DenseScore) : IsInjective(ids)}
  /\ Range(WrittenFile(FirstCorpus).row_ids) \subseteq DOMAIN DenseScore
  /\ QueryTexts \subseteq Texts /\ FusionConfigs \subseteq RrfConfigs

\* Idf is given for as many documents as a corpus has.
ASSUME IdfIsGiven ==
  \A corpus \in Corpora \cup {FirstCorpus} :
    LET n == Len(PendingDocs(corpus)) IN \A df \in 1..n : Idf[n][df] \in Int

\* A model file lists its feature names, its trees and the nodes of each tree,
\* with finite numbers; options are usize.
ASSUME TreeLists ==
  /\ LoadOptions.max_nodes \in Nat /\ LoadOptions.max_depth \in Nat
  /\ \A record \in ModelRecords \cup DeployedModels :
       /\ record.names \in Seq(STRING) /\ record.base \in Int /\ record.rate \in Int
       /\ Len(record.trees) \in Nat /\ DOMAIN record.trees = 1..Len(record.trees)
       /\ \A i \in DOMAIN record.trees :
            LET tree == record.trees[i] IN
            /\ Len(tree) \in Nat /\ DOMAIN tree = 1..Len(tree)
            /\ \A n \in DOMAIN tree : tree[n].kind = "leaf" => tree[n].value \in Int

\* Err and None are no number, list of lengths, ranked list or batch of lists.
ASSUME ResultsAreNeither ==
  \A v \in {Err, None} :
    /\ v \notin Int /\ v \notin Seq(Int) /\ v \notin Seq([row_id : Nat, score : Int])
    /\ v \notin Seq(Seq([row_id : Nat, features : Seq(Int)]))
    /\ v \notin Seq(Seq([row_id : Nat, score : Int]))

hybridVars == <<written, published, index, halves, model>>
vars == <<hybridVars, cacheVars>>

Built(corpus) == [file |-> WrittenFile(corpus), meant |-> PendingDocs(corpus)]

Init ==
  /\ CacheInit
  /\ written = Built(FirstCorpus)
  /\ published = [ids |-> written.file.row_ids, sparse |-> written]
  /\ index = None /\ halves = None /\ model = None

-----------------------------------------------------------------------------
(* Bounds: actions that do not read each other's state are not interleaved. *)

TrainersResting == \A t \in Trainers : ~Working(t)
FirstBundle == gen = 1 /\ place = "bundle"
TrainersIdle == made = {} /\ \A t \in Trainers : pc[t] = "idle"
FirstFile == written = Built(FirstCorpus)
BothOpen == halves # None /\ halves.sparse # None
Loaded == index # None \/ model # None

\* write_mmap: an error leaves the old file; the handle of it is dropped here
WriteMmap(corpus) ==
  /\ TrainersIdle /\ place = "bundle" /\ halves = None /\ model = None
  /\ written' = IF WrittenFile(corpus) = Err THEN written ELSE Built(corpus)
  /\ index' = None
  /\ UNCHANGED <<published, halves, model, cacheVars>>

\* One field of file f is changed: of the header (but not the tokenizer, k1 or
\* b), a document, a posting, a term entry, or the last posting is cut off.
Around(n) == {n - 1, n + 1} \cap Nat

DamagedHeaders(f) ==
  {[f EXCEPT !.fixed = FALSE]}
  \cup {[f EXCEPT !.file_len = n] : n \in Around(f.file_len)}
  \cup {[f EXCEPT !.doc_count = n] : n \in Around(f.doc_count)}
  \cup {[f EXCEPT !.term_count = n] : n \in Around(f.term_count)}
  \cup {[f EXCEPT !.postings_count = n] : n \in Around(f.postings_count)}
  \cup {[f EXCEPT !.total = n] : n \in Around(f.total)}

DamagedDocs(f) ==
  {[f EXCEPT !.row_ids[i] = id] : i \in DOMAIN f.row_ids, id \in DOMAIN DenseScore}
  \cup {[f EXCEPT !.doc_lens[i] = n] : i \in DOMAIN f.doc_lens, n \in 0..3}

DamagedPostings(f) ==
  {[f EXCEPT !.postings[i].doc = d] : i \in DOMAIN f.postings, d \in 1..(f.doc_count + 1)}
  \cup {[f EXCEPT !.postings[i].tf = n] : i \in DOMAIN f.postings, n \in 0..MaxTf}

DamagedEntry(e) ==
  {[e EXCEPT !.n = n] : n \in Around(e.n)} \cup {[e EXCEPT !.at = n] : n \in Around(e.at)}
  \cup {[e EXCEPT !.term.s = @ + 1]}

DamagedEntries(f) ==
  UNION {{[f EXCEPT !.entries[i] = e] : e \in DamagedEntry(f.entries[i])} : i \in DOMAIN f.entries}

WithTerm(f, i, term) == [f EXCEPT !.entries[i].term = term]

SwappedTerms(f) ==
  {WithTerm(WithTerm(f, i, f.entries[j].term), j, f.entries[i].term) :
     i \in DOMAIN f.entries, j \in DOMAIN f.entries}

CutFiles(f) ==
  LET cut == [f EXCEPT !.postings = SubSeq(@, 1, Len(@) - 1)]
  IN IF f.postings = <<>> THEN {} ELSE {cut, [cut EXCEPT !.file_len = FileLen(cut)]}

DamagedFiles(f) ==
  DamagedHeaders(f) \cup DamagedDocs(f) \cup DamagedPostings(f) \cup DamagedEntries(f)
  \cup SwappedTerms(f) \cup CutFiles(f)

\* The file is changed by something else than this program.
Damage ==
  /\ TrainersIdle /\ halves = None /\ ~Loaded /\ written.meant # None /\ FirstBundle
  /\ \E f \in DamagedFiles(written.file) \ {written.file} :
       written' = [file |-> f, meant |-> None]
  /\ UNCHANGED <<published, index, halves, model, cacheVars>>

\* Bm25MmapIndex::open
OpenSparseFile ==
  /\ TrainersIdle /\ halves = None /\ ~Loaded /\ FirstBundle
  /\ index' = IF OpenIndex(written.file) = Err THEN Err ELSE written
  /\ UNCHANGED <<written, published, halves, model, cacheVars>>

\* write_verified_bundle with the sparse file as a required auxiliary: the
\* bundle is put together beside the path, the old one taken away, and the new
\* one put in its place.
WithdrawBundle ==
  /\ ~Loaded /\ ~BothOpen
  /\ Withdraw
  /\ UNCHANGED hybridVars

PublishBundle(ids) ==
  /\ ~Loaded /\ ~BothOpen /\ (TrainersIdle \/ ids = published.ids)
  /\ published' = [ids |-> ids, sparse |-> written]
  /\ Publish
  /\ UNCHANGED <<written, index, halves, model>>

\* HybridBundle::open_verified, first step: IdMapIndex::open_verified
OpenDense ==
  /\ halves = None /\ ~Loaded /\ TrainersResting
  /\ VerifiesForLoad
  /\ halves' = [ids |-> published.ids, sparse |-> None]
  /\ UNCHANGED <<written, published, index, model, cacheVars>>

\* Second step: Bm25MmapIndex::open_verified_sidecar verifies again
OpenSparseHalf ==
  /\ halves # None /\ halves.sparse = None
  /\ LET sparse == published.sparse IN
     halves' = IF /\ VerifiesForLoad
                  /\ OpenIndex(sparse.file) # Err
                  /\ BoundToManifest(sparse.file, published.ids)
               THEN [halves EXCEPT !.sparse = sparse]
               ELSE None
  /\ UNCHANGED <<written, published, index, model, cacheVars>>

CloseBundle ==
  /\ BothOpen /\ model = None
  /\ halves' = None
  /\ UNCHANGED <<written, published, index, model, cacheVars>>

\* TreeEnsembleReranker::from_slice, load_unverified, load_verified_sidecar
LoadModel(record) ==
  /\ TrainersIdle /\ ~Loaded
  /\ model' = CompiledModel(record, LoadOptions)
  /\ UNCHANGED <<written, published, index, halves, cacheVars>>

Next ==
  \/ written.meant # None /\ \E corpus \in Corpora : WriteMmap(corpus)
  \/ Damage
  \/ OpenSparseFile
  \/ WithdrawBundle
  \/ \E ids \in IdLists : PublishBundle(ids)
  \/ OpenDense \/ OpenSparseHalf \/ CloseBundle
  \/ FirstFile /\ halves = None /\ FirstBundle /\ \E record \in ModelRecords : LoadModel(record)
  \/ BothOpen /\ \E record \in DeployedModels : LoadModel(record)
  \/ FirstFile /\ ~Loaded /\ halves = None /\ TrainerStep /\ UNCHANGED hybridVars

Spec == Init /\ [][Next]_vars

-----------------------------------------------------------------------------
(* Sparse search.  The reference is computed from the documents: a          *)
(* document is [row_id, count], count[t] the occurrences of term t.         *)

QueryTerms(f, q) == LET seq == TokenizeText(f.tokenizer, q) IN {seq[i] : i \in DOMAIN seq}
TermsIn(f, q) == QueryTerms(f, q) \cup {f.entries[i].term : i \in DOMAIN f.entries}

\* The documents an opened file stands for: those it was built from, or after
\* damage those its own postings describe
DocsMeant(opened, terms) ==
  LET f == opened.file
      Described(d, t) ==
        SumOf([i \in DOMAIN f.entries |->
          IF f.entries[i].term # t THEN 0
          ELSE SumOf([j \in 1..f.entries[i].n |->
                 LET p == EntryPostings(f, f.entries[i])[j] IN IF p.doc = d THEN p.tf ELSE 0])])
  IN IF opened.meant # None
     THEN [d \in DOMAIN opened.meant |->
             [row_id |-> opened.meant[d].row_id,
              count |-> [t \in terms |-> CountIn(opened.meant[d].terms, t)],
              len |-> Len(opened.meant[d].terms)]]
     ELSE [d \in 1..f.doc_count |->
             [row_id |-> f.row_ids[d], count |-> [t \in terms |-> Described(d, t)],
              len |-> f.doc_lens[d]]]

\* hits are the k best of the documents that contain a query term and are
\* allowed, by the BM25 scores of the documents as they were meant; df counts
\* all documents, allowed or not.
AreBestSparse(opened, q, k, allowlist, hits) ==
  LET f == opened.file
      terms == QueryTerms(f, q)
      docs == DocsMeant(opened, TermsIn(f, q))
      n == Len(docs)
      total == SumOf([d \in DOMAIN docs |-> docs[d].len])
      DF(t) == Cardinality({d \in DOMAIN docs : docs[d].count[t] > 0})
      inOrder == SeqExt!SetToSeq(terms)
      Score(d) == SumOf([i \in DOMAIN inOrder |->
                    IF docs[d].count[inOrder[i]] = 0 THEN 0
                    ELSE Weight(n, DF(inOrder[i]), docs[d].count[inOrder[i]], docs[d].len, total)])
      rows == {[row_id |-> docs[d].row_id, score |-> Score(d)] :
                 d \in {e \in DOMAIN docs : \E t \in terms : docs[e].count[t] > 0}}
      allowed == {r \in rows : allowlist = None \/ \E i \in DOMAIN allowlist : allowlist[i] = r.row_id}
      returned == {hits[i] : i \in DOMAIN hits}
  IN /\ Len(hits) = Min({k, Cardinality(allowed)}) /\ returned \subseteq allowed
     /\ \A i \in 2..Len(hits) : RanksBefore(hits[i - 1], hits[i])
     /\ \A r \in allowed \ returned : \A i \in DOMAIN hits : RanksBefore(hits[i], r)

\* An opened sparse file answers each query of a batch with the best
\* documents of the texts it was built from; a damaged one is refused, or
\* answers from what its own tables describe, without an error.  Only an
\* unknown row of an allowlist is refused.
SparseSearchIsSound ==
  index \notin {None, Err} =>
    \A p, q \in QueryTexts, k \in 0..MaxTop, allowlist \in Allowlists :
      LET lists == SparseSearchBatch(index.file, <<p, q>>, k, <<None, allowlist>>) IN
      IF allowlist # None /\ \E i \in DOMAIN allowlist : CountIn(index.file.row_ids, allowlist[i]) = 0
      THEN lists = Err
      ELSE /\ lists # Err
           /\ AreBestSparse(index, p, k, None, lists[1])
           /\ AreBestSparse(index, q, k, allowlist, lists[2])

\* What write_mmap writes, open accepts, and the file has every row.
WrittenFileOpens ==
  written.meant # None =>
    /\ OpenIndex(written.file) # Err
    /\ \A i \in DOMAIN written.meant : written.file.row_ids[i] = written.meant[i].row_id

-----------------------------------------------------------------------------
(* The opened bundle                                                        *)

DefaultFusion == [rank_constant |-> 60, dense_window |-> Unlimited,
                  sparse_window |-> Unlimited, top_k |-> Unlimited]

DenseList(ids) ==
  NormalizeRankedList([i \in DOMAIN ids |-> [row_id |-> ids[i], score |-> DenseScore[ids[i]]]])
SparseList(q) == SparseSearch(halves.sparse.file, q, Unlimited, None)

\* Fusion returns the rows of both windows, each once and with the rank and
\* score it has in each source; a row at least as good in both sources and
\* better in one comes first; and top_k is a prefix of the whole list.
FusionIsSound ==
  BothOpen /\ ~Loaded /\ TrainersIdle => \A q \in QueryTexts, config \in FusionConfigs :
    LET dense == DenseList(halves.ids)
        sparse == SparseList(q)
        all == RrfFuseBatch(<<dense>>, <<sparse>>, [config EXCEPT !.top_k = Unlimited])[1]
        RankIs(list, window, id, rank) ==
          IF rank = NoRank
          THEN \A i \in DOMAIN list : list[i].row_id = id => window # Unlimited /\ i > window
          ELSE list[rank].row_id = id /\ (window = Unlimited \/ rank <= window)
        NotWorse(a, b) == a # NoRank /\ (b = NoRank \/ a <= b)
        AtLeast(a, b) == a = b \/ NotWorse(a, b)
    IN /\ RrfFuseBatch(<<dense>>, <<sparse>>, config)[1] = Take(all, config.top_k)
       /\ \A i, j \in DOMAIN all : all[i].row_id = all[j].row_id => i = j
       /\ {all[i].row_id : i \in DOMAIN all}
            = {Take(dense, config.dense_window)[i].row_id :
                 i \in DOMAIN Take(dense, config.dense_window)}
              \cup {Take(sparse, config.sparse_window)[i].row_id :
                      i \in DOMAIN Take(sparse, config.sparse_window)}
       /\ \A i \in DOMAIN all :
            /\ RankIs(dense, config.dense_window, all[i].row_id, all[i].dense_rank)
            /\ RankIs(sparse, config.sparse_window, all[i].row_id, all[i].sparse_rank)
       /\ \A i, j \in DOMAIN all :
            /\ AtLeast(all[i].dense_rank, all[j].dense_rank)
            /\ AtLeast(all[i].sparse_rank, all[j].sparse_rank)
            /\ i # j
            => i < j \/ (all[i].dense_rank = all[j].dense_rank
                         /\ all[i].sparse_rank = all[j].sparse_rank)

\* Every tree a model was accepted with scores every feature vector, by the
\* leaf its thresholds lead to, within the depth the options allow.
AcceptedTreesScore ==
  model \notin {None, Err} =>
    \A i \in DOMAIN model.trees, features \in FeatureVectors :
      TreeIsTotal(model.trees[i], features, LoadOptions.max_depth)

\* Reranking returns the fused candidates themselves, in the order of the
\* model's scores and cut at top_k; the ranks the model sees are those fusion
\* gave (NoRank rows fail it); and it fails exactly when a candidate is
\* missing from a source the model needs, or the model has a feature name
\* that nothing computes and there is a candidate.
RerankIsSound ==
  BothOpen /\ model \notin {None, Err} => \A q \in QueryTexts, k \in {0, 1, Unlimited} :
    LET dense == DenseList(halves.ids)
        sparse == SparseList(q)
        fused == RrfFuseBatch(<<dense>>, <<sparse>>, DefaultFusion)
        inputs == [fused |-> fused, bm25 |-> <<sparse>>, dense_cos |-> <<dense>>,
                   rank_cos |-> None, doc_len |-> None, query_len |-> <<Len(q)>>]
        result == Rerank(model, inputs, k)
        Needs(name) == \E i \in DOMAIN model.names : model.names[i] = name
        Lacks(row) ==
          \/ (Needs("bm25_score") \/ Needs("bm25_rank")) /\ row.sparse_rank = NoRank
          \/ (Needs("dense_cos") \/ Needs("dense_rank")) /\ row.dense_rank = NoRank
          \/ \E i \in DOMAIN model.names :
               model.names[i] \notin {"bm25_score", "bm25_rank", "dense_cos", "dense_rank",
                                     "rrf_score", "query_len_chars"}
        Seen(name, row) ==
          CASE name = "bm25_rank" -> row.sparse_rank [] name = "dense_rank" -> row.dense_rank
            [] name = "bm25_score" -> row.sparse_score [] name = "dense_cos" -> row.dense_score
            [] name = "rrf_score" -> row.score [] OTHER -> Len(q)
        ScoreOf(row) ==
          ScoreFeatures(model, [i \in DOMAIN model.names |-> Seen(model.names[i], row)])
        rows == {[row_id |-> fused[1][i].row_id, score |-> ScoreOf(fused[1][i])] : i \in DOMAIN fused[1]}
    IN IF \E i \in DOMAIN fused[1] : Lacks(fused[1][i]) THEN result = Err
       ELSE /\ result # Err
            /\ Len(result[1]) = Len(Take(fused[1], k))
            /\ {result[1][i] : i \in DOMAIN result[1]} \subseteq rows
            /\ \A i \in 2..Len(result[1]) : RanksBefore(result[1][i - 1], result[1][i])
            /\ \A r \in rows : \/ \E i \in DOMAIN result[1] : result[1][i] = r
                               \/ \A i \in DOMAIN result[1] : RanksBefore(result[1][i], r)
=============================================================================
