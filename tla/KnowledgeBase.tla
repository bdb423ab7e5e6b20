---------------------------- MODULE KnowledgeBase ----------------------------
(***************************************************************************)
(* Uploading documents and indexing them: api/documents,                   *)
(* services/document_service, kb_service.ingest_document, llm/embedder and *)
(* the stores of documents and chunks.                                     *)
(*                                                                         *)
(* A document is the sequence of its passages; engines/kb cuts the text    *)
(* and hashes each passage, and a hash stands for its text.  A vector is   *)
(* named by the text it was computed from.  Every upload and every         *)
(* deletion is a transaction or several, at READ COMMITTED: a statement    *)
(* sees what is committed when it runs, and what its own transaction wrote.*)
(***************************************************************************)
EXTENDS Naturals, Sequences, FiniteSets, Functions, Filtering

CONSTANTS
    Uploads,        \* files sent to /documents; each makes one document
    Tenants,        \* businesses
    Texts,          \* passages
    MaxPassages     \* bound: passages of a document

ASSUME KnowledgeBaseAssumption ==
    /\ IsFiniteSet(Uploads) /\ IsFiniteSet(Tenants) /\ IsFiniteSet(Texts)
    /\ Tenants # {}
    /\ MaxPassages \in Nat

VARIABLES
    document,       \* the documents table
    chunks,         \* kb_chunks, by document and ordinal
    upload          \* every request that uploads

knowledgeVars == <<document, chunks, upload>>

-----------------------------------------------------------------------------

Passages == UNION {[1 .. n -> Texts] : n \in 1 .. MaxPassages}
IngestStatus == {"indexed", "no_text", "failed"}

NoDocument == [status |-> "absent", chunk_count |-> 0]
NotSent == [step |-> "idle", passages |-> << >>, known |-> {}, vectors |-> << >>,
            rows |-> << >>, tenant |-> CHOOSE b \in Tenants : TRUE]

KnowledgeInit ==
    /\ document = [u \in Uploads |-> NoDocument]
    /\ chunks = [u \in Uploads |-> << >>]
    /\ upload = [u \in Uploads |-> NotSent]

SetUpload(u, new) == upload' = [upload EXCEPT ![u] = new]
TextsIn(rows) == {rows[i].text : i \in DOMAIN rows}

\* The row level policy: a statement sees the rows of its business.
Mine(u) == {v \in Uploads : upload[v].tenant = upload[u].tenant}

-----------------------------------------------------------------------------
(* Reading the file *)

\* kind_for_filename, and an empty file, refuse before anything is stored.
CreateDocument(u) ==
    /\ upload[u].step = "idle"
    /\ \E passages \in Passages, b \in Tenants :
          SetUpload(u, [NotSent EXCEPT !.step = "extracting", !.tenant = b,
                                       !.passages = passages])
    /\ document' = [document EXCEPT ![u] = [status |-> "pending", chunk_count |-> 0]]
    /\ UNCHANGED <<chunks>>

\* extract_text and chunk_text: the passages, or a document with nothing to index.  A
\* missing parser is raised like any other failure.
Extract(u) ==
    /\ upload[u].step = "extracting"
    /\ \E next \in {"hashing", "no_text", "failed", "raised"} :
          SetUpload(u, [upload[u] EXCEPT !.step = next])
    /\ UNCHANGED <<document, chunks>>

\* _EXISTING_HASHES, in a transaction of its own.
existing_hashes(u) == UNION {TextsIn(chunks[v]) : v \in Mine(u)}

LookUp(u) ==
    /\ upload[u].step = "hashing"
    /\ SetUpload(u, [upload[u] EXCEPT !.step = "embedding", !.known = existing_hashes(u)])
    /\ UNCHANGED <<document, chunks>>

-----------------------------------------------------------------------------
(* Vectors *)

Fresh(u) == LET passages == upload[u].passages IN
            Picked(passages, {i \in DOMAIN passages : passages[i] \notin upload[u].known})

\* The provider's answer: items in any order, each saying which text it is the vector of;
\* items may be missing or repeated.
Responses(batch) == UNION {[1 .. n -> DOMAIN batch] : n \in 0 .. Len(batch)}
Complete(response, batch) == Len(response) = Len(batch) /\ Range(response) = DOMAIN batch

\* Faulty variant: vectors are paired with texts in the order they arrive.
InOrderOfArrival(response, batch) == [i \in DOMAIN batch |-> batch[response[i]]]

\* _ordered_vectors: an item goes into the slot its index names.
ordered_vectors(response, batch) ==
    [i \in DOMAIN batch |->
        batch[response[CHOOSE k \in DOMAIN response : response[k] = i]]]

\* vector_by_hash, over the texts that were embedded.
ByHash(batch, vectors) ==
    [t \in Range(batch) |-> vectors[CHOOSE i \in DOMAIN batch : batch[i] = t]]

\* One batched call for the fresh passages; an answer that is not one vector per text, or
\* no answer, is raised.  Nothing is open meanwhile.
Embed(u) ==
    /\ upload[u].step = "embedding"
    /\ \/ \E response \in Responses(Fresh(u)) :
             SetUpload(u,
                IF Complete(response, Fresh(u))
                THEN [upload[u] EXCEPT !.step = "writing",
                         !.vectors = ByHash(Fresh(u), ordered_vectors(response, Fresh(u)))]
                ELSE [upload[u] EXCEPT !.step = "raised"])
       \/ Fresh(u) # << >> /\ SetUpload(u, [upload[u] EXCEPT !.step = "raised"])
    /\ UNCHANGED <<document, chunks>>

-----------------------------------------------------------------------------
(* One transaction stores every passage *)

\* Rows a statement of this transaction sees.
Visible(u) == (UNION {Range(chunks[v]) : v \in Mine(u)}) \cup Range(upload[u].rows)

\* _write_chunk: the vector just computed, or the one held for this hash; no row for the
\* hash is MissingEmbeddingError, no document is a foreign key that fails.
Vectors(u, text) ==
    IF text \in DOMAIN upload[u].vectors THEN {upload[u].vectors[text]}
    ELSE {row.vector : row \in {r \in Visible(u) : r.text = text}}

WriteChunk(u) ==
    LET now == upload[u]
        text == now.passages[Len(now.rows) + 1] IN
    /\ now.step = "writing" /\ Len(now.rows) < Len(now.passages)
    /\ IF document[u].status = "absent" \/ Vectors(u, text) = {}
       THEN SetUpload(u, [now EXCEPT !.step = "raised"])
       ELSE \E vector \in Vectors(u, text) :
               SetUpload(u, [now EXCEPT !.rows = Append(@, [text |-> text,
                                                           vector |-> vector])])
    /\ UNCHANGED <<document, chunks>>

\* The commit.
Store(u) ==
    LET now == upload[u] IN
    /\ now.step = "writing" /\ Len(now.rows) = Len(now.passages)
    /\ chunks' = [chunks EXCEPT ![u] = now.rows]
    /\ SetUpload(u, [now EXCEPT !.step = "indexed"])
    /\ UNCHANGED document

\* business_session rolls back what an exception leaves behind.
RolledBack(rows) == << >>

\* documents.finish: an update that finds no row changes nothing.
Finish(u) ==
    LET now == upload[u]
        status == IF now.step = "raised" THEN "failed" ELSE now.step IN
    /\ now.step \in IngestStatus \cup {"raised"}
    /\ document' = IF document[u].status = "absent" THEN document
                   ELSE [document EXCEPT ![u] =
                            [status |-> status,
                             chunk_count |-> IF status = "indexed" THEN Len(now.rows) ELSE 0]]
    /\ chunks' = IF now.step # "raised" THEN chunks
                 ELSE [chunks EXCEPT ![u] = RolledBack(now.rows)]
    /\ SetUpload(u, [NotSent EXCEPT !.tenant = now.tenant, !.passages = now.passages,
                                    !.step = IF status = "indexed" THEN "stored"
                                             ELSE "refused"])

\* The process dies: an open transaction is gone, the document stays as it is.
LoseUpload(u) ==
    /\ upload[u].step \notin {"idle", "stored", "refused", "lost"}
    /\ SetUpload(u, [NotSent EXCEPT !.step = "lost", !.tenant = upload[u].tenant,
                                    !.passages = upload[u].passages])
    /\ UNCHANGED <<document, chunks>>

-----------------------------------------------------------------------------

\* An inserted row holds its document until the transaction ends.
Held(u) == upload[u].step = "writing" /\ upload[u].rows # << >>

\* DELETE /documents/{id}: the chunks and the document, in one transaction.  Any document
\* in the list can be deleted, one that is still being indexed too.
DeleteDocument(u) ==
    /\ document[u].status # "absent"
    /\ ~ Held(u)
    /\ document' = [document EXCEPT ![u] = NoDocument]
    /\ chunks' = [chunks EXCEPT ![u] = << >>]
    /\ UNCHANGED upload

KnowledgeNext ==
    \E u \in Uploads :
       \/ CreateDocument(u) \/ Extract(u) \/ LookUp(u) \/ Embed(u)
       \/ WriteChunk(u) \/ Store(u) \/ Finish(u) \/ LoseUpload(u)
       \/ DeleteDocument(u)

KnowledgeSpec == KnowledgeInit /\ [][KnowledgeNext]_knowledgeVars

-----------------------------------------------------------------------------
(* Properties *)

Rows == [text: Texts, vector: Texts]
RowLists == UNION {[1 .. n -> Rows] : n \in 0 .. MaxPassages}

KnowledgeTypeOK ==
    /\ document \in [Uploads -> [status: IngestStatus \cup {"absent", "pending"},
                                 chunk_count: 0 .. MaxPassages]]
    /\ chunks \in [Uploads -> RowLists]
    /\ \A u \in Uploads :
          /\ upload[u].step \in {"idle", "extracting", "hashing", "embedding", "writing",
                                 "raised", "stored", "refused", "lost"} \cup IngestStatus
          /\ upload[u].passages \in Passages \cup {<< >>}
          /\ upload[u].known \subseteq Texts
          /\ DOMAIN upload[u].vectors \subseteq Texts
          /\ upload[u].rows \in RowLists
          /\ upload[u].tenant \in Tenants

\* What a search can find: a passage is stored with the vector of its own text, whatever
\* order the provider answered in and whether the vector was computed for it or copied.
\* Nothing is left of an upload its owner was told has failed, nor of a deleted document,
\* and a document shown as indexed is all there, under the count it shows.
SearchFindsWhatWasKept ==
    \A u \in Uploads :
       /\ \A row \in Range(chunks[u]) : row.vector = row.text
       /\ document[u].status \in {"absent", "failed", "no_text"} => chunks[u] = << >>
       /\ upload[u].step = "refused" => chunks[u] = << >>
       /\ document[u].status = "indexed" =>
             /\ [i \in DOMAIN chunks[u] |-> chunks[u][i].text] = upload[u].passages
             /\ document[u].chunk_count = Len(chunks[u])

=============================================================================
