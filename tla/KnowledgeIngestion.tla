------------------------ MODULE KnowledgeIngestion ------------------------
(***************************************************************************)
(* One source of a knowledge base, with its document: what uploads, syncs  *)
(* and reprocessing ask for (knowledge.service.ts) and what the worker     *)
(* makes of it (document-ingestion.processor.ts): the chunks the agent     *)
(* answers from, whatever the source's status says (packages/ai/src/rag.ts).*)
(***************************************************************************)
EXTENDS Naturals, FiniteSets

CONSTANTS
  Ingestions,     \* requests to ingest the source; one of them uploads it
  Chunks,         \* number of chunks of the document's text
  IngestAttempts, \* attempts: 3 (packages/queue)
  IngestFaults    \* bound: failing statements, workers that die, deletions of the document

ASSUME IngestionAssumption ==
  /\ IsFiniteSet(Ingestions) /\ Chunks \in Nat \ {0} /\ IngestAttempts \in Nat \ {0}
  /\ IngestFaults \in Nat

VARIABLES
  sourceStatus, \* knowledge_sources.status
  document,     \* are the document and its version there?
  chunks,       \* document_chunks: rows of each chunk of the text
  ingestion,    \* each request: its next step, in the API and then as a job
  inserted,     \* ... the chunks it has inserted in this attempt
  tried,        \* ... and its attempts
  together,     \* history: two jobs have worked at the same time
  unfinished,   \* history: a worker died at work, or could not write FAILED
  ingestFaults

kbVars == <<sourceStatus, document, chunks, ingestion, inserted, tried, together, unfinished, ingestFaults>>

Parts == 1 .. Chunks
AtWork == {"clear", "insert", "activate", "failing"}
NoneAtWork == \A j \in Ingestions : ingestion[j] \notin AtWork

IngestionInit ==
  /\ sourceStatus = "none" /\ document = FALSE
  /\ chunks = [c \in Parts |-> 0]
  /\ ingestion = [j \in Ingestions |-> "idle"]
  /\ inserted = [j \in Ingestions |-> 0] /\ tried = [j \in Ingestions |-> 0]
  /\ together = FALSE /\ unfinished = FALSE
  /\ ingestFaults = 0

Mishap == ingestFaults < IngestFaults /\ ingestFaults' = ingestFaults + 1

Advance(j, from, to) == ingestion[j] = from /\ ingestion' = [ingestion EXCEPT ![j] = to]

-----------------------------------------------------------------------------
(* The API *)

\* uploadDocument: the source, PROCESSING at once, its document and version, then the job.
UploadSource(j) ==
  /\ sourceStatus = "none" /\ sourceStatus' = "PROCESSING"
  /\ Advance(j, "idle", "document")
  /\ UNCHANGED <<document, chunks, inserted, tried, together, unfinished, ingestFaults>>

UploadDocument(j) ==
  /\ Advance(j, "document", "enqueue")
  /\ document' = TRUE
  /\ UNCHANGED <<sourceStatus, chunks, inserted, tried, together, unfinished, ingestFaults>>

\* syncBase, with or without a document; reprocessDocument, with one.
Reprocess(j) ==
  /\ sourceStatus # "none" /\ sourceStatus' = "PROCESSING"
  /\ Advance(j, "idle", "enqueue")
  /\ UNCHANGED <<document, chunks, inserted, tried, together, unfinished, ingestFaults>>

Enqueue(j) ==
  /\ Advance(j, "enqueue", "queued")
  /\ UNCHANGED <<sourceStatus, document, chunks, inserted, tried, together, unfinished, ingestFaults>>

\* The queue or a statement refuses and the request ends there; the source stays PROCESSING.
RequestFails(j) ==
  /\ Mishap
  /\ \E from \in {"document", "enqueue"} : Advance(j, from, "done")
  /\ UNCHANGED <<sourceStatus, document, chunks, inserted, tried, together, unfinished>>

\* deleteDocument: the version and its chunks go with it.
DeleteDocument ==
  /\ document /\ document' = FALSE /\ Mishap
  /\ chunks' = [c \in Parts |-> 0]
  /\ UNCHANGED <<sourceStatus, ingestion, inserted, tried, together, unfinished>>

-----------------------------------------------------------------------------
(* The worker, five jobs at a time *)

\* The source, its newest document and version.
StartJob(j) ==
  /\ Advance(j, "queued", IF document THEN "clear" ELSE "failing")
  /\ inserted' = [inserted EXCEPT ![j] = 0]
  /\ together' = (together \/ ~NoneAtWork)
  /\ UNCHANGED <<sourceStatus, document, chunks, tried, unfinished, ingestFaults>>

\* The chunks of an earlier attempt stay (a slip IndexedOnce must notice).
ClearNothing(j) ==
  /\ Advance(j, "clear", "insert")
  /\ UNCHANGED <<sourceStatus, document, chunks, inserted, tried, together, unfinished, ingestFaults>>

\* DELETE FROM document_chunks; then the text is cut and the embeddings are asked for.
ClearChunks(j) ==
  /\ Advance(j, "clear", "insert")
  /\ chunks' = [c \in Parts |-> 0]
  /\ UNCHANGED <<sourceStatus, document, inserted, tried, together, unfinished, ingestFaults>>

\* One INSERT each; a version that is gone has no chunks.
InsertChunk(j) ==
  /\ ingestion[j] = "insert"
  /\ IF document
     THEN /\ inserted' = [inserted EXCEPT ![j] = @ + 1]
          /\ chunks' = [chunks EXCEPT ![inserted[j] + 1] = @ + 1]
          /\ Advance(j, "insert", IF inserted[j] + 1 = Chunks THEN "activate" ELSE "insert")
     ELSE Advance(j, "insert", "failing") /\ UNCHANGED <<inserted, chunks>>
  /\ UNCHANGED <<sourceStatus, document, tried, together, unfinished, ingestFaults>>

Activate(j) ==
  /\ Advance(j, "activate", "done")
  /\ sourceStatus' = "ACTIVE"
  /\ UNCHANGED <<document, chunks, inserted, tried, together, unfinished, ingestFaults>>

\* The provider of embeddings or the database refuses.
JobFails(j) ==
  /\ Mishap
  /\ \E from \in {"clear", "insert", "activate"} : Advance(j, from, "failing")
  /\ UNCHANGED <<sourceStatus, document, chunks, inserted, tried, together, unfinished>>

\* One attempt too many (a slip PlatformTypeOK must notice).
TryAgainOnceMore(j) ==
  /\ ingestion[j] \in AtWork
  /\ tried' = [tried EXCEPT ![j] = @ + 1]
  /\ ingestion' = [ingestion EXCEPT ![j] = IF tried[j] < IngestAttempts THEN "queued" ELSE "done"]

TryAgain(j) ==
  /\ ingestion[j] \in AtWork
  /\ tried' = [tried EXCEPT ![j] = @ + 1]
  /\ ingestion' = [ingestion EXCEPT ![j] = IF tried[j] + 1 < IngestAttempts THEN "queued" ELSE "done"]

\* The catch: FAILED, and the queue tries again.
MarkFailed(j) ==
  /\ ingestion[j] = "failing" /\ TryAgain(j)
  /\ sourceStatus' = "FAILED"
  /\ UNCHANGED <<document, chunks, inserted, together, unfinished, ingestFaults>>

\* The worker dies, or the catch fails too; the queue hands the job to another worker.
IngestWorkerDies(j) ==
  /\ Mishap /\ TryAgain(j)
  /\ unfinished' = TRUE
  /\ UNCHANGED <<sourceStatus, document, chunks, inserted, together>>

JobStep(j) ==
  StartJob(j) \/ ClearChunks(j) \/ InsertChunk(j) \/ Activate(j) \/ MarkFailed(j)

IngestionNext ==
  \/ \E j \in Ingestions :
       \/ UploadSource(j) \/ UploadDocument(j) \/ Reprocess(j) \/ Enqueue(j) \/ RequestFails(j)
       \/ JobStep(j) \/ JobFails(j) \/ IngestWorkerDies(j)
  \/ DeleteDocument

IngestionSpec == IngestionInit /\ [][IngestionNext]_kbVars

-----------------------------------------------------------------------------
(* Properties *)

IngestionTypeOK ==
  /\ sourceStatus \in {"none", "PROCESSING", "ACTIVE", "FAILED"} /\ document \in BOOLEAN
  /\ chunks \in [Parts -> Nat]
  /\ ingestion \in [Ingestions -> {"idle", "document", "enqueue", "queued", "done"} \cup AtWork]
  /\ inserted \in [Ingestions -> 0 .. Chunks]
  /\ tried \in [Ingestions -> 0 .. IngestAttempts]
  /\ together \in BOOLEAN /\ unfinished \in BOOLEAN
  /\ ingestFaults \in 0 .. IngestFaults

\* While jobs of the source do not overlap, no text is indexed twice, however often it is synced,
\* reprocessed and retried after half of it was inserted; and a source that is ACTIVE with
\* nobody at work is indexed whole, unless a worker died there (processDocumentIngestion).
IndexedOnce ==
  ~together =>
    /\ \A c \in Parts : chunks[c] <= 1
    /\ sourceStatus = "ACTIVE" /\ document /\ NoneAtWork /\ ~unfinished => \A c \in Parts : chunks[c] = 1
=============================================================================
