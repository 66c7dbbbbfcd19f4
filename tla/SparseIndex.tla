---------------------------- MODULE SparseIndex ----------------------------
(***************************************************************************)
(* The BM25 sparse index (ordinaldb-hybrid/src/sparse.rs): tokenizer,      *)
(* builder, file layout, validation and search.  Pure: no state.           *)
(*                                                                         *)
(* A word is [base, s, form]: a base, the s bytes that follow it (the base *)
(* itself does not end in s), and how it is written: "lower", "mixed" case *)
(* or with "other" bytes than ASCII alphanumerics.  Bases are integers;    *)
(* those of terms are in byte order, and none is a prefix of another (the  *)
(* others are too short, and never compared).  A token of a text is        *)
(* [whole, parts]: its word, and the words identifier_subtokens splits it  *)
(* into (none, or two and more).  f32 scores are integers.                 *)
(***************************************************************************)
EXTENDS RankFusion, Functions

CONSTANTS
  BaseLen,   \* BaseLen[b]: the number of bytes of base b
  Idf,       \* Idf[n][df]: the inverse document frequency, as an integer
  MaxTf      \* bound: u16::MAX, the largest term frequency a posting holds

ASSUME BaseLengths == \A b \in DOMAIN BaseLen : b \in Int /\ BaseLen[b] \in Nat

TokenizerKinds == {"Simple", "IdentifierSubtokens"}
Words == [base : DOMAIN BaseLen, s : Nat, form : {"lower", "mixed", "other"}]
Texts == Seq([whole : Words, parts : Seq(Words)])
CorpusRecords == [tokenizer : TokenizerKinds, docs : Seq([row_id : Nat, text : Texts])]

NoTerm == [base |-> 0, s |-> 0, form |-> "other"]

TermLen(w) == BaseLen[w.base] + w.s
TermBefore(v, w) == v.base < w.base \/ (v.base = w.base /\ v.s < w.s)

\* Mutant: one trailing s is stripped, not all of them.
NormalizeTermOnce(w) ==
  IF w.form = "other" \/ TermLen(w) < 3 THEN NoTerm
  ELSE [w EXCEPT !.form = "lower", !.s = IF TermLen(w) > 4 /\ @ > 0 THEN @ - 1 ELSE @]

\* normalize_term: lower case, and trailing s stripped while longer than 4
NormalizeTerm(w) ==
  IF w.form = "other" \/ TermLen(w) < 3 THEN NoTerm
  ELSE [w EXCEPT !.form = "lower", !.s = Min({@, Max({0, 4 - BaseLen[w.base]})})]

IsNormalizedTerm(w) ==
  w.form = "lower" /\ TermLen(w) >= 3 /\ ~(TermLen(w) > 4 /\ w.s > 0)

\* tokenize_text: each token, then the subtokens it splits into
TokenizeText(kind, text) ==
  LET WordsOf(token) == <<token.whole>> \o (IF kind = "Simple" THEN <<>> ELSE token.parts)
      words == SeqExt!FlattenSeq([i \in DOMAIN text |-> WordsOf(text[i])])
      terms == [i \in DOMAIN words |-> NormalizeTerm(words[i])]
  IN Kept(terms, {i \in DOMAIN terms : terms[i] # NoTerm})

-----------------------------------------------------------------------------
(* SparseIndexBuilder.  A corpus is [tokenizer, docs], a document           *)
(* [row_id, text].                                                          *)

\* add_text: Err on a row_id already added, which leaves the builder as it was
AddText(pending, kind, doc) ==
  IF \E i \in DOMAIN pending : pending[i].row_id = doc.row_id THEN pending
  ELSE Append(pending, [row_id |-> doc.row_id, terms |-> TokenizeText(kind, doc.text)])

PendingDocs(corpus) ==
  LET after[i \in 0..Len(corpus.docs)] ==
        IF i = 0 THEN <<>> ELSE AddText(after[i - 1], corpus.tokenizer, corpus.docs[i])
  IN after[Len(corpus.docs)]

CountIn(seq, x) == Cardinality({i \in DOMAIN seq : seq[i] = x})
TermsOf(pending) == UNION {Range(pending[i].terms) : i \in DOMAIN pending}

\* The postings of a term: [doc, tf] for each document it occurs in, in order
PostingsOf(pending, term) ==
  Kept([i \in DOMAIN pending |-> [doc |-> i, tf |-> CountIn(pending[i].terms, term)]],
       {i \in DOMAIN pending : CountIn(pending[i].terms, term) > 0})

\* The terms S in the order of their bytes
TermOrder(S) ==
  [i \in 1..Cardinality(S) |->
     CHOOSE term \in S : Cardinality({t \in S : TermBefore(t, term)}) = i - 1]

\* Bytes: header, row ids, document lengths, term entries, terms, postings
FileLen(f) ==
  128 + 8 * Len(f.row_ids) + 4 * Len(f.doc_lens) + 32 * Len(f.entries)
  + SumOf([i \in DOMAIN f.entries |-> TermLen(f.entries[i].term)]) + 8 * Len(f.postings)

\* BuiltSparse::from_docs and to_bytes.  fixed: the bytes with only one legal
\* value (magic, version, reserved bytes, canonical section offsets, contiguous
\* term bytes, k1 and b in range) have it.  Document ordinals count from 1.
BuiltFile(kind, pending) ==
  LET terms == TermOrder(TermsOf(pending))
      lists == [i \in DOMAIN terms |-> PostingsOf(pending, terms[i])]
      lens == [i \in DOMAIN pending |-> Len(pending[i].terms)]
      f == [fixed |-> TRUE, tokenizer |-> kind,
            doc_count |-> Len(pending), term_count |-> Len(terms),
            postings_count |-> Len(SeqExt!FlattenSeq(lists)), total |-> SumOf(lens),
            file_len |-> 0,
            row_ids |-> [i \in DOMAIN pending |-> pending[i].row_id],
            doc_lens |-> lens,
            entries |-> [i \in DOMAIN terms |->
                           [term |-> terms[i], n |-> Len(lists[i]),
                            at |-> SumBefore([j \in DOMAIN lists |-> Len(lists[j])], i)]],
            postings |-> SeqExt!FlattenSeq(lists)]
  IN [f EXCEPT !.file_len = FileLen(f)]

\* write_mmap, up to the rename of the finished file
WrittenFile(corpus) ==
  LET pending == PendingDocs(corpus) IN
  IF \E i \in DOMAIN pending, t \in TermsOf(pending) : CountIn(pending[i].terms, t) > MaxTf
  THEN Err ELSE BuiltFile(corpus.tokenizer, pending)

-----------------------------------------------------------------------------
(* Bm25MmapIndex                                                            *)

\* The postings of entry e, and posting_range's check of them
EntryPostings(f, e) == SubSeq(f.postings, e.at + 1, e.at + e.n)
EntryInRange(f, e) == e.at + e.n <= Len(f.postings)

ValidPostings(f, list) ==
  /\ \A i \in DOMAIN list : list[i].doc \in 1..f.doc_count /\ list[i].tf > 0
  /\ \A i \in 2..Len(list) : list[i - 1].doc < list[i].doc

ComputedDocLen(f, doc) ==
  SumOf([i \in DOMAIN f.postings |-> IF f.postings[i].doc = doc THEN f.postings[i].tf ELSE 0])

ValidTermTable(f) ==
  LET counts == [i \in DOMAIN f.entries |-> f.entries[i].n] IN
  /\ \A i \in DOMAIN f.entries :
       LET e == f.entries[i] IN
       /\ IsNormalizedTerm(e.term)
       /\ EntryInRange(f, e) /\ e.at = SumBefore(counts, i) /\ e.n > 0
       /\ ValidPostings(f, EntryPostings(f, e))
  /\ SumOf(counts) = Len(f.postings)

\* Mutant: terms need only be distinct, in any order.
DistinctTerms(f) == \A i, j \in DOMAIN f.entries : f.entries[i].term = f.entries[j].term => i = j

StrictlySorted(f) ==
  \A i \in 2..Len(f.entries) : TermBefore(f.entries[i - 1].term, f.entries[i].term)

\* validate_layout: the sections the header counts fill the file
SectionsFit(f) ==
  /\ f.file_len = FileLen(f)
  /\ f.doc_count = Len(f.row_ids) /\ f.doc_count = Len(f.doc_lens)
  /\ f.term_count = Len(f.entries) /\ f.postings_count <= Len(f.postings)

\* validate_layout.  The average document length is stored as a float: total
\* here is that average times doc_count.
ValidateLayout(f) ==
  /\ SectionsFit(f)
  /\ f.term_count > 0 => f.total > 0
  /\ IsInjective(f.row_ids)
  /\ ValidTermTable(f) /\ StrictlySorted(f)
  /\ \A d \in 1..f.doc_count : f.doc_lens[d] = ComputedDocLen(f, d)
  /\ f.total = SumOf(f.doc_lens)

\* dedupe_preserving_order
FirstOccurrences(seq) ==
  Kept(seq, {i \in DOMAIN seq : \A j \in 1..(i - 1) : seq[j] # seq[i]})

\* Header::parse
HeaderParses(f) == f.fixed

\* Bm25MmapIndex::open: a handle is the file as it was mapped
OpenIndex(f) == IF HeaderParses(f) /\ ValidateLayout(f) THEN f ELSE Err

\* validate_against_manifest: ids are those of the ids sidecar, or
\* <<0, 1, ...>> when the bundle has none (row_id_identity)
BoundToManifest(index, ids) == index.doc_count = Len(ids) /\ index.row_ids = ids

NoEntry == 0

\* find_term: one step of the binary search, s = [lo, hi, at], at the entry found
SearchStep(f, term, s) ==
  LET mid == s.lo + (s.hi - s.lo) \div 2
      found == f.entries[mid + 1].term
  IN IF s.lo >= s.hi THEN s
     ELSE IF TermBefore(found, term) THEN [s EXCEPT !.lo = mid + 1]
     ELSE IF TermBefore(term, found) THEN [s EXCEPT !.hi = mid]
     ELSE [lo |-> mid, hi |-> mid, at |-> mid + 1]

\* The range shrinks with each step, so term_count steps are enough.
FindTerm(f, term) ==
  LET after[i \in 0..f.term_count] ==
        IF i = 0 THEN [lo |-> 0, hi |-> f.term_count, at |-> NoEntry]
        ELSE SearchStep(f, term, after[i - 1])
  IN after[f.term_count].at

\* The BM25 weight of a term in a document, k1 = 1.2 and b = 0.75, with
\* numerator and denominator multiplied by 10 * total
Weight(n, df, tf, len, total) ==
  LET floor == Max({total, n})   \* avg_doc_len.max(1.0)
  IN (Idf[n][df] * tf * 22 * floor) \div (10 * tf * floor + 3 * floor + 9 * len * n)

\* Mutant: df counts only the postings the allowlist leaves.
DfAllowed(f, e, docs) == Cardinality({i \in 1..e.n : EntryPostings(f, e)[i].doc \in docs})

DocumentFrequency(f, e, docs) == e.n

\* The score of a document: the weights of the query terms it contains
DocScore(f, terms, docs, d) ==
  SumOf([i \in DOMAIN terms |->
    LET found == FindTerm(f, terms[i])
        e == f.entries[found]
        places == {j \in 1..e.n : EntryPostings(f, e)[j].doc = d}
    IN IF found = NoEntry \/ places = {} THEN 0
       ELSE Weight(f.doc_count, DocumentFrequency(f, e, docs),
                   EntryPostings(f, e)[Min(places)].tf, f.doc_lens[d], f.total)])

\* search_with_allowlist, prepare_allowlist, search_with_prepared_allowlist
SparseSearch(f, query, k, allowlist) ==
  LET terms == FirstOccurrences(TokenizeText(f.tokenizer, query))
      docs == {d \in 1..f.doc_count :
                 allowlist = None \/ f.row_ids[d] \in Range(allowlist)}
      found == {FindTerm(f, terms[i]) : i \in DOMAIN terms} \ {NoEntry}
      hit == {d \in docs : \E e \in found : \E p \in Range(EntryPostings(f, f.entries[e])) : p.doc = d}
  IN IF allowlist # None /\ ~(Range(allowlist) \subseteq Range(f.row_ids)) THEN Err
     ELSE Take(RankOrder({[row_id |-> f.row_ids[d], score |-> DocScore(f, terms, docs, d)] :
                            d \in hit}), k)

\* search_batch_with_allowlists
SparseSearchBatch(f, queries, k, allowlists) ==
  LET lists == [q \in DOMAIN queries |-> SparseSearch(f, queries[q], k, allowlists[q])] IN
  IF Len(allowlists) # Len(queries) \/ \E q \in DOMAIN queries : lists[q] = Err THEN Err
  ELSE FromSortedOffsetsHits(OffsetsOf(lists), SeqExt!FlattenSeq(lists))
=============================================================================
