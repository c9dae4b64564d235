---------------------------- MODULE VectorStore ----------------------------
(***************************************************************************)
(* app/rag/retriever.py: the in-memory vector store.  A chunk is known by  *)
(* its position, which is its id (f"c{len}"), and stands for the ingest    *)
(* job that stored it.  Similarity is abstracted: a search may rank the    *)
(* chunks in any order, so it returns any TopK of them.                    *)
(***************************************************************************)
EXTENDS Integers, Sequences, FiniteSets

CONSTANT TopK   \* retrieval_top_k, 4 by default

ASSUME StoreAssumption == TopK \in Nat

VARIABLE chunks   \* position -> the ingest job that stored the chunk

StoreTypeOK(I) == chunks \in Seq(I)

StoreInit == chunks = <<>>

\* The jobs whose documents are in the store.
StoredJobs == {chunks[c] : c \in DOMAIN chunks}

\* Faulty: the new chunks take the place of the old ones.
AddDocumentsReplacing(i, n) == chunks' = [d \in 1..n |-> i]

\* The loop of add_documents after the embedding call: one chunk per text.
AddDocuments(i, n) == chunks' = chunks \o [d \in 1..n |-> i]

\* What search may return once the query is embedded: scored[:top_k].
SearchResults ==
    {found \in SUBSET DOMAIN chunks :
        Cardinality(found) = IF Len(chunks) < TopK THEN Len(chunks) ELSE TopK}
=============================================================================
