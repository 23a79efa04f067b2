--------------------------- MODULE PlatformProofs ---------------------------
(***************************************************************************)
(* Proofs about the parts of the platform together: what is shown of each  *)
(* part alone holds of it among the others; and about the knowledge the    *)
(* agents are given, and what is kept of a customer.                       *)
(***************************************************************************)
EXTENDS MCPlatform, AccountProofs, CallProofs, OutreachProofs, InboundMessageProofs

-----------------------------------------------------------------------------
(* Knowledge *)

Indexing == {"clear", "insert", "activate"}

\* A job has attempts left until it is done, and inserts its chunks one after the other.
JobsInOrder ==
  \A j \in Ingestions :
    /\ ingestion[j] # "done" => tried[j] < IngestAttempts
    /\ ingestion[j] = "clear" => inserted[j] = 0
    /\ ingestion[j] = "insert" => inserted[j] < Chunks

\* There is one upload, before which there is no document, and nothing is indexed.
OneUpload ==
  /\ sourceStatus = "none" => ~document /\ \A j \in Ingestions : ingestion[j] = "idle"
  /\ \A j, k \in Ingestions : ingestion[j] = "document" /\ ingestion[k] = "document" => j = k
  /\ \A j \in Ingestions : ingestion[j] = "document" =>
       /\ ~document /\ sourceStatus # "ACTIVE"
       /\ \A c \in Parts : chunks[c] = 0
       /\ \A k \in Ingestions : ingestion[k] \notin Indexing
  /\ ~document => \A c \in Parts : chunks[c] = 0

\* Where jobs do not overlap, the chunks are those that the one at work has inserted.
Indexed ==
  ~together =>
    /\ \A j, k \in Ingestions : ingestion[j] \in AtWork /\ ingestion[k] \in AtWork => j = k
    /\ \A j \in Ingestions : ingestion[j] = "insert" =>
         \A c \in Parts : /\ c > inserted[j] => chunks[c] = 0
                          /\ c <= inserted[j] /\ document => chunks[c] = 1
    /\ \A j \in Ingestions : ingestion[j] = "activate" /\ document => \A c \in Parts : chunks[c] = 1

IngestionInv == IngestionTypeOK /\ JobsInOrder /\ OneUpload /\ Indexed /\ IndexedOnce

\* A source has chunks, and a job attempts.
LEMMA IngestionConstants ==
  Chunks \in Nat /\ Chunks > 0 /\ IngestAttempts \in Nat /\ IngestAttempts > 0 /\ IngestFaults \in Nat
BY IngestionAssumption

\* Nothing is uploaded.
LEMMA IngestionStart == IngestionInit => IngestionInv
<1> SUFFICES ASSUME IngestionInit PROVE IngestionInv
  OBVIOUS
<1> USE IngestionConstants DEF IngestionInit
<1>1. IngestionTypeOK
  <2>1. 0 \in 0..Chunks /\ 0 \in 0..IngestAttempts /\ 0 \in 0..IngestFaults
    OBVIOUS
  <2> QED BY <2>1 DEF IngestionTypeOK, AtWork
<1>2. \A j \in Ingestions : ingestion[j] = "idle" /\ tried[j] = 0 /\ ingestion[j] \notin AtWork
  BY DEF AtWork
<1>3. \A c \in Parts : chunks[c] = 0
  OBVIOUS
<1>4. JobsInOrder /\ OneUpload
  BY <1>2, <1>3 DEF JobsInOrder, OneUpload
<1>5. Indexed
  BY <1>2 DEF Indexed
<1>6. IndexedOnce
  BY <1>3 DEF IndexedOnce
<1> QED BY <1>1, <1>4, <1>5, <1>6 DEF IngestionInv

\* The requests of the API: no job is at work, or ceases to be, by them.
LEMMA ApiStep ==
  ASSUME IngestionInv, NEW j \in Ingestions,
         UploadSource(j) \/ Reprocess(j) \/ Enqueue(j) \/ RequestFails(j)
  PROVE  IngestionInv'
<1> USE IngestionConstants
<1>1. PICK from \in {"idle", "document", "enqueue"}, to \in {"document", "enqueue", "queued", "done"} :
        /\ ingestion[j] = from /\ ingestion' = [ingestion EXCEPT ![j] = to]
        /\ to = "document" => sourceStatus = "none"
        /\ UNCHANGED <<document, chunks, inserted, tried, together, unfinished>>
        /\ sourceStatus' # "none"
        /\ UNCHANGED sourceStatus \/ sourceStatus' = "PROCESSING"
        /\ ingestFaults' \in 0..IngestFaults
  <2>0. ingestFaults \in 0..IngestFaults /\ (ingestion[j] # "idle" => sourceStatus # "none")
    BY DEF IngestionInv, IngestionTypeOK, OneUpload
  <2>1. CASE UploadSource(j)
    BY <2>0, <2>1 DEF UploadSource, Advance
  <2>2. CASE Reprocess(j)
    BY <2>0, <2>2 DEF Reprocess, Advance
  <2>3. CASE Enqueue(j)
    BY <2>0, <2>3 DEF Enqueue, Advance
  <2>4. CASE RequestFails(j)
    BY <2>0, <2>4 DEF RequestFails, Advance, Mishap
  <2> QED BY <2>1, <2>2, <2>3, <2>4
<1>2. ingestion'[j] = to /\ \A k \in Ingestions : k # j => ingestion'[k] = ingestion[k]
  BY <1>1 DEF IngestionInv, IngestionTypeOK
<1>3. IngestionTypeOK'
  BY <1>1 DEF IngestionInv, IngestionTypeOK
<1>4. JobsInOrder'
  BY <1>1, <1>2 DEF IngestionInv, IngestionTypeOK, JobsInOrder
<1>5. OneUpload'
  BY <1>1, <1>2 DEF IngestionInv, OneUpload, Indexing
<1>6. from \notin AtWork /\ to \notin AtWork
  BY DEF AtWork
<1>7. Indexed' /\ NoneAtWork' = NoneAtWork
  BY <1>1, <1>2, <1>6 DEF IngestionInv, Indexed, NoneAtWork
<1>8. IndexedOnce'
  BY <1>1, <1>7 DEF IngestionInv, IndexedOnce
<1> QED BY <1>3, <1>4, <1>5, <1>7, <1>8 DEF IngestionInv

\* The upload writes its document.
LEMMA DocumentStep ==
  ASSUME IngestionInv, NEW j \in Ingestions, UploadDocument(j)
  PROVE  IngestionInv'
<1> USE IngestionConstants
<1>1. /\ ingestion[j] = "document" /\ ingestion' = [ingestion EXCEPT ![j] = "enqueue"] /\ document' = TRUE
      /\ UNCHANGED <<sourceStatus, chunks, inserted, tried, together, unfinished, ingestFaults>>
  BY DEF UploadDocument, Advance
<1>2. ingestion'[j] = "enqueue" /\ \A k \in Ingestions : k # j => ingestion'[k] = ingestion[k]
  BY <1>1 DEF IngestionInv, IngestionTypeOK
<1>3. IngestionTypeOK'
  BY <1>1 DEF IngestionInv, IngestionTypeOK
<1>4. JobsInOrder'
  BY <1>1, <1>2 DEF IngestionInv, IngestionTypeOK, JobsInOrder
<1>5. /\ \A k \in Ingestions : ingestion[k] \notin Indexing /\ (k # j => ingestion[k] # "document")
      /\ sourceStatus # "ACTIVE" /\ sourceStatus # "none"
  BY <1>1 DEF IngestionInv, OneUpload
<1>6. OneUpload'
  BY <1>1, <1>2, <1>5 DEF OneUpload
<1>7. Indexed'
  BY <1>1, <1>2, <1>5 DEF IngestionInv, Indexed, AtWork, Indexing
<1>8. IndexedOnce'
  BY <1>1, <1>5 DEF IngestionInv, IndexedOnce
<1> QED BY <1>3, <1>4, <1>6, <1>7, <1>8 DEF IngestionInv

\* The document is deleted, and its chunks with it.
LEMMA DeleteStep == ASSUME IngestionInv, DeleteDocument PROVE IngestionInv'
<1> USE IngestionConstants
<1>1. /\ document /\ document' = FALSE /\ ingestFaults' \in 0..IngestFaults
      /\ chunks' = [c \in Parts |-> 0]
      /\ UNCHANGED <<sourceStatus, ingestion, inserted, tried, together, unfinished>>
  BY DEF DeleteDocument, Mishap, IngestionInv, IngestionTypeOK
<1>2. IngestionTypeOK'
  BY <1>1 DEF IngestionInv, IngestionTypeOK
<1>3. JobsInOrder'
  BY <1>1 DEF IngestionInv, JobsInOrder
<1>4. OneUpload'
  BY <1>1 DEF IngestionInv, OneUpload
<1>5. Indexed' /\ IndexedOnce'
  BY <1>1 DEF IngestionInv, Indexed, IndexedOnce
<1> QED BY <1>2, <1>3, <1>4, <1>5 DEF IngestionInv

-----------------------------------------------------------------------------
(* The worker *)

\* A job begins, together with another or alone.
LEMMA StartJobStep ==
  ASSUME IngestionInv, NEW j \in Ingestions, StartJob(j)
  PROVE  IngestionInv'
<1> USE IngestionConstants
<1>1. PICK to \in {"clear", "failing"} :
        /\ ingestion[j] = "queued" /\ ingestion' = [ingestion EXCEPT ![j] = to]
        /\ to = "clear" => document
        /\ inserted' = [inserted EXCEPT ![j] = 0]
        /\ ~together' => ~together /\ NoneAtWork
        /\ together' \in BOOLEAN
        /\ UNCHANGED <<sourceStatus, document, chunks, tried, unfinished, ingestFaults>>
  BY DEF StartJob, Advance, IngestionInv, IngestionTypeOK
<1>2. ingestion'[j] = to /\ \A k \in Ingestions : k # j => ingestion'[k] = ingestion[k] /\ inserted'[k] = inserted[k]
  BY <1>1 DEF IngestionInv, IngestionTypeOK
<1>3. IngestionTypeOK' /\ inserted'[j] = 0
  BY <1>1 DEF IngestionInv, IngestionTypeOK, AtWork
<1>4. JobsInOrder'
  BY <1>1, <1>2, <1>3 DEF IngestionInv, IngestionTypeOK, JobsInOrder
<1>5. OneUpload'
  BY <1>1, <1>2 DEF IngestionInv, OneUpload, Indexing
<1>6. Indexed' /\ ~NoneAtWork'
  BY <1>1, <1>2 DEF IngestionInv, Indexed, NoneAtWork, AtWork
<1>7. IndexedOnce'
  BY <1>1, <1>6 DEF IngestionInv, IndexedOnce
<1> QED BY <1>3, <1>4, <1>5, <1>6, <1>7 DEF IngestionInv

\* The chunks of an earlier attempt are cleared.
LEMMA ClearChunksStep ==
  ASSUME IngestionInv, NEW j \in Ingestions, ClearChunks(j)
  PROVE  IngestionInv'
<1> USE IngestionConstants
<1>1. /\ ingestion[j] = "clear" /\ ingestion' = [ingestion EXCEPT ![j] = "insert"]
      /\ chunks' = [c \in Parts |-> 0]
      /\ UNCHANGED <<sourceStatus, document, inserted, tried, together, unfinished, ingestFaults>>
  BY DEF ClearChunks, Advance
<1>2. ingestion'[j] = "insert" /\ \A k \in Ingestions : k # j => ingestion'[k] = ingestion[k]
  BY <1>1 DEF IngestionInv, IngestionTypeOK
<1>3. IngestionTypeOK'
  BY <1>1 DEF IngestionInv, IngestionTypeOK, AtWork
<1>4. JobsInOrder'
  BY <1>1, <1>2 DEF IngestionInv, IngestionTypeOK, JobsInOrder
<1>5. OneUpload'
  BY <1>1, <1>2 DEF IngestionInv, OneUpload, Indexing
<1>6. inserted[j] = 0 /\ \A c \in Parts : c > 0 /\ ~(c <= 0)
  BY <1>1 DEF IngestionInv, JobsInOrder, Parts
<1>7. ~together => \A k \in Ingestions : k # j => ingestion'[k] \notin AtWork
  BY <1>1, <1>2 DEF IngestionInv, Indexed, AtWork
<1>8. Indexed'
  BY <1>1, <1>2, <1>6, <1>7 DEF IngestionInv, Indexed, AtWork
<1>9. ~NoneAtWork'
  BY <1>2 DEF NoneAtWork, AtWork
<1>10. IndexedOnce'
  BY <1>1, <1>9 DEF IndexedOnce
<1> QED BY <1>3, <1>4, <1>5, <1>8, <1>10 DEF IngestionInv

\* One chunk is inserted after the other.
LEMMA InsertChunkStep ==
  ASSUME IngestionInv, NEW j \in Ingestions, InsertChunk(j)
  PROVE  IngestionInv'
<1> USE IngestionConstants
<1>0. /\ ingestion[j] = "insert" /\ inserted[j] \in 0..Chunks /\ inserted[j] < Chunks
      /\ inserted[j] + 1 \in Parts /\ \A c \in Parts : chunks[c] \in Nat
      /\ UNCHANGED <<sourceStatus, document, tried, together, unfinished, ingestFaults>>
  BY DEF InsertChunk, IngestionInv, IngestionTypeOK, JobsInOrder, Parts
<1>1. CASE ~document
  <2>1. ingestion' = [ingestion EXCEPT ![j] = "failing"] /\ UNCHANGED <<inserted, chunks>>
    BY <1>1 DEF InsertChunk, Advance
  <2>2. ingestion'[j] = "failing" /\ \A k \in Ingestions : k # j => ingestion'[k] = ingestion[k]
    BY <2>1 DEF IngestionInv, IngestionTypeOK
  <2>3. IngestionTypeOK'
    BY <1>0, <2>1 DEF IngestionInv, IngestionTypeOK, AtWork
  <2>4. JobsInOrder'
    BY <1>0, <2>1, <2>2 DEF IngestionInv, IngestionTypeOK, JobsInOrder
  <2>5. OneUpload'
    BY <1>0, <2>1, <2>2 DEF IngestionInv, OneUpload, Indexing
  <2>6. Indexed'
    BY <1>0, <2>1, <2>2 DEF IngestionInv, Indexed, AtWork
  <2>7. IndexedOnce'
    BY <1>0, <1>1, <2>1 DEF IngestionInv, IndexedOnce
  <2> QED BY <2>3, <2>4, <2>5, <2>6, <2>7 DEF IngestionInv
<1>2. CASE document
  <2>1. PICK to \in {"insert", "activate"} :
          /\ ingestion' = [ingestion EXCEPT ![j] = to]
          /\ to = "insert" <=> inserted[j] + 1 # Chunks
          /\ inserted' = [inserted EXCEPT ![j] = @ + 1]
          /\ chunks' = [chunks EXCEPT ![inserted[j] + 1] = @ + 1]
    BY <1>2 DEF InsertChunk, Advance
  <2>2. /\ ingestion'[j] = to /\ inserted'[j] = inserted[j] + 1
        /\ \A k \in Ingestions : k # j => ingestion'[k] = ingestion[k] /\ inserted'[k] = inserted[k]
    BY <2>1 DEF IngestionInv, IngestionTypeOK
  <2>3. /\ chunks'[inserted[j] + 1] = chunks[inserted[j] + 1] + 1
        /\ \A c \in Parts : c # inserted[j] + 1 => chunks'[c] = chunks[c]
    BY <1>0, <2>1 DEF IngestionInv, IngestionTypeOK
  <2>4. IngestionTypeOK'
    <3>1. inserted[j] + 1 \in 0..Chunks /\ chunks[inserted[j] + 1] + 1 \in Nat
      BY <1>0
    <3>2. inserted' \in [Ingestions -> 0..Chunks] /\ chunks' \in [Parts -> Nat]
      BY <1>0, <2>1, <3>1 DEF IngestionInv, IngestionTypeOK
    <3> QED BY <1>0, <2>1, <3>2 DEF IngestionInv, IngestionTypeOK, AtWork
  <2>5. JobsInOrder'
    BY <1>0, <2>1, <2>2 DEF IngestionInv, IngestionTypeOK, JobsInOrder
  <2>6. \A k \in Ingestions : ingestion[k] # "document" /\ ingestion'[k] # "document"
    BY <1>0, <2>2 DEF IngestionInv, OneUpload, Indexing
  <2>7. sourceStatus # "none" /\ OneUpload'
    BY <1>0, <1>2, <2>6 DEF IngestionInv, OneUpload
  <2>8. ASSUME ~together
        PROVE  /\ chunks[inserted[j] + 1] = 0
               /\ \A c \in Parts : c <= inserted[j] => chunks[c] = 1
               /\ \A c \in Parts : c > inserted[j] => chunks[c] = 0
               /\ \A k \in Ingestions : k # j => ingestion[k] \notin AtWork /\ ingestion'[k] \notin AtWork
    BY <1>0, <1>2, <2>2, <2>8 DEF IngestionInv, Indexed, AtWork
  <2>9. Parts = 1..Chunks
    BY DEF Parts
  <2>10. Indexed'
    <3> SUFFICES ASSUME ~together PROVE Indexed'
      BY <1>0 DEF Indexed
    <3>1. \A k, l \in Ingestions : ingestion'[k] \in AtWork /\ ingestion'[l] \in AtWork => k = l
      BY <2>8
    <3>2. \A c \in Parts : (c > inserted'[j] => chunks'[c] = 0) /\ (c <= inserted'[j] => chunks'[c] = 1)
      BY <1>0, <2>2, <2>3, <2>8, <2>9
    <3>3. to = "activate" => inserted'[j] = Chunks
      BY <1>0, <2>1, <2>2
    <3>4. to = "activate" => \A c \in Parts : chunks'[c] = 1
      BY <2>9, <3>2, <3>3
    <3>5. \A k \in Ingestions : ingestion'[k] \in {"insert", "activate"} => k = j
      BY <2>8 DEF AtWork
    <3> QED BY <1>0, <2>2, <3>1, <3>2, <3>4, <3>5 DEF Indexed
  <2>11. ~NoneAtWork'
    BY <2>1, <2>2 DEF NoneAtWork, AtWork
  <2>12. IndexedOnce'
    BY <1>0, <2>3, <2>8, <2>11 DEF IngestionInv, IndexedOnce
  <2> QED BY <2>4, <2>5, <2>7, <2>10, <2>12 DEF IngestionInv
<1> QED BY <1>1, <1>2

\* The source is active when all its chunks are there.
LEMMA ActivateStep ==
  ASSUME IngestionInv, NEW j \in Ingestions, Activate(j)
  PROVE  IngestionInv'
<1> USE IngestionConstants
<1>1. /\ ingestion[j] = "activate" /\ ingestion' = [ingestion EXCEPT ![j] = "done"] /\ sourceStatus' = "ACTIVE"
      /\ UNCHANGED <<document, chunks, inserted, tried, together, unfinished, ingestFaults>>
  BY DEF Activate, Advance
<1>2. ingestion'[j] = "done" /\ \A k \in Ingestions : k # j => ingestion'[k] = ingestion[k]
  BY <1>1 DEF IngestionInv, IngestionTypeOK
<1>3. IngestionTypeOK'
  BY <1>1 DEF IngestionInv, IngestionTypeOK
<1>4. JobsInOrder'
  BY <1>1, <1>2 DEF IngestionInv, IngestionTypeOK, JobsInOrder
<1>5. OneUpload'
  BY <1>1, <1>2 DEF IngestionInv, OneUpload, Indexing
<1>6. Indexed'
  BY <1>1, <1>2 DEF IngestionInv, Indexed, AtWork
<1>7. IndexedOnce'
  BY <1>1 DEF IngestionInv, Indexed, IndexedOnce
<1> QED BY <1>3, <1>4, <1>5, <1>6, <1>7 DEF IngestionInv

\* A job that gives up its attempt.
LEMMA GiveUpStep ==
  ASSUME IngestionInv, NEW j \in Ingestions, JobFails(j) \/ MarkFailed(j) \/ IngestWorkerDies(j)
  PROVE  IngestionInv'
<1> USE IngestionConstants
<1>1. PICK from \in AtWork, to \in {"failing", "queued", "done"} :
        /\ ingestion[j] = from /\ ingestion' = [ingestion EXCEPT ![j] = to]
        /\ \/ UNCHANGED tried /\ to = "failing"
           \/ /\ tried' = [tried EXCEPT ![j] = @ + 1] /\ (to = "queued" => tried[j] + 1 < IngestAttempts)
              /\ to # "failing" /\ (unfinished' \/ sourceStatus' = "FAILED")
        /\ UNCHANGED <<document, chunks, inserted, together>>
        /\ UNCHANGED sourceStatus \/ sourceStatus' = "FAILED"
        /\ unfinished' \in BOOLEAN /\ (unfinished => unfinished') /\ ingestFaults' \in 0..IngestFaults
  <2>0. ingestFaults \in 0..IngestFaults /\ unfinished \in BOOLEAN
    BY DEF IngestionInv, IngestionTypeOK
  <2>1. CASE JobFails(j)
    <3>1. PICK from \in {"clear", "insert", "activate"} : Advance(j, from, "failing")
      BY <2>1 DEF JobFails
    <3> QED BY <2>0, <2>1, <3>1 DEF JobFails, Advance, Mishap, AtWork
  <2>2. PICK to \in {"queued", "done"} :
          TryAgain(j) => /\ ingestion' = [ingestion EXCEPT ![j] = to]
                         /\ to = "queued" => tried[j] + 1 < IngestAttempts
    BY DEF TryAgain
  <2>3. TryAgain(j) => ingestion[j] \in AtWork /\ tried' = [tried EXCEPT ![j] = @ + 1]
    BY DEF TryAgain
  <2>4. CASE MarkFailed(j)
    BY <2>0, <2>2, <2>3, <2>4 DEF MarkFailed
  <2>5. CASE IngestWorkerDies(j)
    BY <2>0, <2>2, <2>3, <2>5 DEF IngestWorkerDies, Mishap
  <2> QED BY <2>1, <2>4, <2>5
<1>2. ingestion'[j] = to /\ \A k \in Ingestions : k # j => ingestion'[k] = ingestion[k] /\ tried'[k] = tried[k]
  BY <1>1 DEF IngestionInv, IngestionTypeOK
<1>3. tried[j] \in Nat /\ tried[j] < IngestAttempts
  BY <1>1 DEF IngestionInv, IngestionTypeOK, JobsInOrder, AtWork
<1>4. tried' \in [Ingestions -> 0..IngestAttempts] /\ (to # "done" => tried'[j] < IngestAttempts)
  BY <1>1, <1>3 DEF IngestionInv, IngestionTypeOK
<1>5. IngestionTypeOK'
  BY <1>1, <1>4 DEF IngestionInv, IngestionTypeOK, AtWork
<1>6. JobsInOrder'
  BY <1>1, <1>2, <1>4 DEF IngestionInv, JobsInOrder
<1>7. OneUpload'
  BY <1>1, <1>2 DEF IngestionInv, OneUpload, Indexing, AtWork
<1>8. Indexed'
  BY <1>1, <1>2 DEF IngestionInv, Indexed, AtWork
<1>9. IndexedOnce'
  <2>1. sourceStatus' = "ACTIVE" /\ ~unfinished' => ~NoneAtWork'
    BY <1>1, <1>2 DEF NoneAtWork, AtWork
  <2> QED BY <1>1, <2>1 DEF IngestionInv, IndexedOnce
<1> QED BY <1>5, <1>6, <1>7, <1>8, <1>9 DEF IngestionInv

\* Every step keeps the chunks that of the job at work.
LEMMA IngestionStep == ASSUME IngestionInv, [IngestionNext]_kbVars PROVE IngestionInv'
<1>1. CASE UNCHANGED kbVars
  BY <1>1 DEF kbVars, IngestionInv, IngestionTypeOK, JobsInOrder, OneUpload, Indexed,
     IndexedOnce, NoneAtWork
<1> QED BY <1>1, ApiStep, DocumentStep, DeleteStep, StartJobStep, ClearChunksStep,
    InsertChunkStep, ActivateStep,
           GiveUpStep DEF IngestionNext, JobStep

\* Sources, jobs and chunks are what the code can store (ingestion.processor.ts).
THEOREM IngestionTypeCorrect == IngestionSpec => []IngestionTypeOK
<1>1. IngestionInv => IngestionTypeOK
  BY DEF IngestionInv
<1> QED BY <1>1, IngestionStart, IngestionStep, PTL DEF IngestionSpec

\* An active source has each chunk once, unless two jobs were at work together (ingestion.processor.ts).
THEOREM IngestionCorrect == IngestionSpec => []IndexedOnce
<1>1. IngestionInv => IndexedOnce
  BY DEF IngestionInv
<1> QED BY <1>1, IngestionStart, IngestionStep, PTL DEF IngestionSpec

-----------------------------------------------------------------------------
(* What is kept about a customer *)

AnswerRows == [thread : Customers, since : BOOLEAN]
ContactRows == [row : {"live", "deleted", "gone"}, phone : BOOLEAN, name : BOOLEAN]
MessageRows == [of : SUBSET Customers, thread : SUBSET Customers, text : {"none", "words", "token", "gone"}]
CallRows == [turns : {"words", "token", "gone"}, summary : BOOLEAN, structured : BOOLEAN]
ErasureDues == [texts : SUBSET Written, answers : SUBSET AnswerRows]
ErasureRequests == [at : 0..7, status : {"NONE", "PROCESSING", "COMPLETED", "FAILED"}, of : SUBSET Customers, purge : BOOLEAN,
              ids : SUBSET Customers, due : ErasureDues, overlapped : BOOLEAN]

RowsTyped ==
  /\ contact \in [Customers -> ContactRows] /\ thread \in [Customers -> SUBSET Customers]
  /\ message \in [Written -> MessageRows] /\ call \in [Customers -> CallRows] /\ answers \subseteq AnswerRows

\* Where a request may be: before the last of its statements, for one customer.
RequestGood(x) ==
  /\ x \in ErasureRequests
  /\ x.at > 0 => (\E c \in Customers : x.of = {c}) /\ x.status = "PROCESSING" /\ (~x.purge => x.at <= 6)

MergeGood ==
  /\ merging \in [at : {"idle", "threads", "messages", "source", "done"}, from : SUBSET Customers, to : SUBSET Customers]
  /\ merging.at \in {"threads", "messages", "source"} =>
       \E c, d \in Customers : c # d /\ merging.from = {c} /\ merging.to = {d}

ArrivalsGood ==
  /\ arriving \in [Arrivals -> {"idle", "store", "done"}]
  /\ \A m \in Arrivals : message[m].text # "none" => arriving[m] = "done"
  /\ \A m \in Written : message[m].text = "none" => message[m].of = {} /\ message[m].thread = {}

TeachingGood ==
  /\ teaching \in [at : {"idle", "keep", "done"}, thread : SUBSET Customers]
  /\ \A a \in answers : a.since => teaching.at = "done"

\* The statements of a request, by their places.
TextsAt(x) == IF x.purge THEN 4 ELSE 1
TurnsAt(x) == IF x.purge THEN 3 ELSE 2
CallAt(x) == IF x.purge THEN 5 ELSE 3
IdsAt(x) == IF x.purge THEN 1 ELSE 4
AnswersAt(x) == IF x.purge THEN 2 ELSE 5
LastAt(x) == IF x.purge THEN 7 ELSE 6

\* Whether a request, which is at work or over, has yet to take a statement.
PastStatement(x, n) == x.at = 0 \/ x.at > n
MayBeOwed(x) == x.at > 0 \/ x.status = "COMPLETED"

\* What a request owes of the messages, of the answers, and of the rest.
TextsErased(x, saying) ==
  MayBeOwed(x) /\ ~x.overlapped => \A m \in x.due.texts :
    \/ saying[m].text \in {"token", "gone"}
    \/ saying[m].of = x.of /\ saying[m].text # "none" /\ ~PastStatement(x, TextsAt(x))

AnswersErased(x, kept, whose, taught) ==
  MayBeOwed(x) /\ ~x.overlapped => \A a \in x.due.answers :
    /\ a.since => taught.at = "done"
    /\ \/ a \notin kept
       \/ whose[a.thread] = x.of /\ ~PastStatement(x, IdsAt(x))
       \/ a.thread \in x.ids /\ PastStatement(x, IdsAt(x)) /\ ~PastStatement(x, AnswersAt(x))

RestErased(x, callRows, contactRows) ==
  MayBeOwed(x) => \A c \in x.of :
    /\ PastStatement(x, TurnsAt(x)) => callRows[c].turns # "words"
    /\ PastStatement(x, CallAt(x)) => ~callRows[c].summary
    /\ x.at = 0 => ~contactRows[c].phone /\ ~contactRows[c].name /\ contactRows[c].row # "live"

RequestsGood == erasure \in [Erasures -> ErasureRequests] /\ \A e \in Erasures : RequestGood(erasure[e])
FaultsCounted == recordFaults \in 0..RecordFaults
TextsDone == \A e \in Erasures : TextsErased(erasure[e], message)
AnswersDone == \A e \in Erasures : AnswersErased(erasure[e], answers, thread, teaching)
RestDone == \A e \in Erasures : RestErased(erasure[e], call, contact)

RecordsGood == RowsTyped /\ RequestsGood /\ MergeGood /\ ArrivalsGood /\ TeachingGood /\ FaultsCounted
RecordsInv == RecordsGood /\ TextsDone /\ AnswersDone /\ RestDone

\* What a step leaves alone of what may be owed.
TextsStay ==
  \A m \in Written : message[m].text # "none" => message'[m] = message[m] \/ message'[m].text \in {"token", "gone"}
AnswersStay ==
  /\ \A a \in answers' : a \in answers \/ (a.since /\ teaching.at # "done")
  /\ teaching.at = "done" => teaching'.at = "done"
ThreadsStay(of) == \A t \in Customers : thread[t] = of => thread'[t] = of
RestStays ==
  \A c \in Customers :
    /\ call'[c].turns = "words" => call[c].turns = "words"
    /\ call'[c].summary => call[c].summary
    /\ contact'[c].phone => contact[c].phone
    /\ contact'[c].row = "live" => contact[c].row = "live"
    /\ contact'[c].name => contact[c].name \/ contact[c].phone \/ contact[c].row = "live"

\* A request that does not move, and may be overlapped; and one that takes a statement.
StaysPut(z, w) ==
  /\ w.at = z.at /\ w.status = z.status /\ w.of = z.of /\ w.purge = z.purge /\ w.ids = z.ids /\ w.due = z.due
  /\ z.overlapped => w.overlapped
TakesOne(x, y) ==
  /\ y.of = x.of /\ y.purge = x.purge /\ y.due = x.due /\ y.overlapped = x.overlapped
  /\ x.at \in 1..LastAt(x) /\ x.status = "PROCESSING"
  /\ \/ x.at = LastAt(x) /\ y.at = 0 /\ y.status = "COMPLETED"
     \/ x.at # LastAt(x) /\ y.at = x.at + 1 /\ y.status = "PROCESSING"
  /\ x.at \notin {IdsAt(x), LastAt(x)} => y.ids = x.ids

\* A request that stays put is still due what it was of the messages, for they stay or are erased.
LEMMA MessagesKept ==
  ASSUME NEW z \in ErasureRequests, NEW w \in ErasureRequests, StaysPut(z, w), TextsErased(z, message), TextsStay
  PROVE  TextsErased(w, message')
<1>1. MayBeOwed(w) = MayBeOwed(z) /\ (\A n : PastStatement(w, n) = PastStatement(z, n)) /\ TextsAt(w) = TextsAt(z)
  BY DEF StaysPut, MayBeOwed, PastStatement, TextsAt
<1>2. z.due.texts \subseteq Written
  BY DEF ErasureRequests, ErasureDues
<1> QED BY <1>1, <1>2 DEF TextsErased, TextsStay, StaysPut

\* And of the answers, for none of those it named comes back.
LEMMA AnswersKept ==
  ASSUME NEW z \in ErasureRequests, NEW w \in ErasureRequests, StaysPut(z, w), AnswersErased(z, answers, thread, teaching), AnswersStay,
         w.overlapped \/ z.at = 0 \/ ThreadsStay(z.of)
  PROVE  AnswersErased(w, answers', thread', teaching')
<1>1. MayBeOwed(w) = MayBeOwed(z) /\ (\A n : PastStatement(w, n) = PastStatement(z, n)) /\ IdsAt(w) = IdsAt(z) /\ AnswersAt(w) = AnswersAt(z)
  BY DEF StaysPut, MayBeOwed, PastStatement, IdsAt, AnswersAt
<1>2. \A a \in z.due.answers : a.thread \in Customers
  BY DEF ErasureRequests, ErasureDues, AnswerRows
<1>3. z.at = 0 => PastStatement(z, IdsAt(z))
  BY DEF PastStatement
<1> SUFFICES ASSUME MayBeOwed(w), ~w.overlapped, NEW a \in w.due.answers
             PROVE  /\ a.since => teaching'.at = "done"
                    /\ \/ a \notin answers'
                       \/ thread'[a.thread] = w.of /\ ~PastStatement(w, IdsAt(w))
                       \/ a.thread \in w.ids /\ PastStatement(w, IdsAt(w)) /\ ~PastStatement(w, AnswersAt(w))
  BY DEF AnswersErased
<1>4. MayBeOwed(z) /\ ~z.overlapped /\ a \in z.due.answers /\ w.of = z.of /\ w.ids = z.ids
  BY <1>1 DEF StaysPut
<1>5. /\ a.since => teaching.at = "done"
      /\ \/ a \notin answers
         \/ thread[a.thread] = z.of /\ ~PastStatement(z, IdsAt(z))
         \/ a.thread \in z.ids /\ PastStatement(z, IdsAt(z)) /\ ~PastStatement(z, AnswersAt(z))
  BY <1>4 DEF AnswersErased
<1>6. (a.since => teaching'.at = "done") /\ (a \in answers' => a \in answers)
  BY <1>5 DEF AnswersStay
<1>7. thread[a.thread] = z.of /\ ~PastStatement(z, IdsAt(z)) => thread'[a.thread] = z.of
  BY <1>2, <1>3, <1>4 DEF ThreadsStay
<1> QED BY <1>1, <1>4, <1>5, <1>6, <1>7

\* And of the transcripts, the summaries and the row.
LEMMA RestKept ==
  ASSUME NEW z \in ErasureRequests, NEW w \in ErasureRequests, StaysPut(z, w), RestErased(z, call, contact), RestStays
  PROVE  RestErased(w, call', contact')
<1>1. MayBeOwed(w) = MayBeOwed(z) /\ (\A n : PastStatement(w, n) = PastStatement(z, n)) /\ TurnsAt(w) = TurnsAt(z) /\ CallAt(w) = CallAt(z)
  BY DEF StaysPut, MayBeOwed, PastStatement, TurnsAt, CallAt
<1>2. z.of \subseteq Customers /\ w.of = z.of /\ w.at = z.at
  BY DEF ErasureRequests, StaysPut
<1> QED BY <1>1, <1>2 DEF RestErased, RestStays

\* The places of the statements differ, and a request that takes one is past it.
LEMMA AdvancesPast ==
  ASSUME NEW x \in ErasureRequests, NEW y \in ErasureRequests, TakesOne(x, y)
  PROVE  /\ \A n \in 1..LastAt(x) : PastStatement(y, n) <=> PastStatement(x, n) \/ n = x.at
         /\ MayBeOwed(y) /\ MayBeOwed(x) /\ (y.at = 0 <=> x.at = LastAt(x))
         /\ TextsAt(y) = TextsAt(x) /\ TurnsAt(y) = TurnsAt(x) /\ CallAt(y) = CallAt(x)
         /\ IdsAt(y) = IdsAt(x) /\ AnswersAt(y) = AnswersAt(x)
<1>1. x.at \in 1..7 /\ y.at \in 0..7
  BY DEF ErasureRequests, TakesOne, LastAt
<1>2. \A n \in 1..LastAt(x) : PastStatement(y, n) <=> PastStatement(x, n) \/ n = x.at
  <2>1. CASE x.at = LastAt(x) /\ y.at = 0
    <3>1. CASE x.purge
      BY <1>1, <2>1, <3>1 DEF PastStatement, LastAt
    <3>2. CASE ~x.purge
      BY <1>1, <2>1, <3>2 DEF PastStatement, LastAt
    <3> QED BY <3>1, <3>2
  <2>2. CASE y.at = x.at + 1
    BY <1>1, <2>2 DEF PastStatement
  <2> QED BY <2>1, <2>2 DEF TakesOne
<1> QED BY <1>1, <1>2 DEF TakesOne, MayBeOwed, TextsAt, TurnsAt, CallAt, IdsAt, AnswersAt

\* A statement about something else.
LEMMA TextsOwed ==
  ASSUME NEW x \in ErasureRequests, NEW y \in ErasureRequests, TakesOne(x, y), TextsErased(x, message), TextsStay, x.at # TextsAt(x)
  PROVE  TextsErased(y, message')
<1>1. TextsAt(x) \in 1..LastAt(x)
  BY DEF TextsAt, LastAt, ErasureRequests
<1>2. (PastStatement(y, TextsAt(y)) <=> PastStatement(x, TextsAt(x))) /\ MayBeOwed(x)
  BY <1>1, AdvancesPast
<1>3. x.due.texts \subseteq Written /\ y.due = x.due /\ y.of = x.of /\ (y.overlapped <=> x.overlapped)
  BY DEF ErasureRequests, ErasureDues, TakesOne
<1> QED BY <1>2, <1>3 DEF TextsErased, TextsStay

\* And the answers: their conversations are found, or the ids are kept.
LEMMA AnswersOwed ==
  ASSUME NEW x \in ErasureRequests, NEW y \in ErasureRequests, TakesOne(x, y), AnswersErased(x, answers, thread, teaching), AnswersStay,
         x.at # IdsAt(x), x.at # AnswersAt(x), ThreadsStay(x.of) \/ PastStatement(x, IdsAt(x))
  PROVE  AnswersErased(y, answers', thread', teaching')
<1>1. IdsAt(x) \in 1..LastAt(x) /\ AnswersAt(x) \in 1..LastAt(x) /\ AnswersAt(x) < LastAt(x)
  BY DEF IdsAt, AnswersAt, LastAt, ErasureRequests
<1>2. /\ PastStatement(y, IdsAt(y)) <=> PastStatement(x, IdsAt(x))
      /\ PastStatement(y, AnswersAt(y)) <=> PastStatement(x, AnswersAt(x))
      /\ MayBeOwed(x)
  BY <1>1, AdvancesPast
<1>3. \A a \in x.due.answers : a.thread \in Customers
  BY DEF ErasureRequests, ErasureDues, AnswerRows
<1>4. y.due = x.due /\ y.of = x.of /\ (y.overlapped <=> x.overlapped)
  BY DEF TakesOne
<1>5. ~PastStatement(x, AnswersAt(x)) => x.ids = y.ids
  <2>1. x.at = LastAt(x) => PastStatement(x, AnswersAt(x))
    BY <1>1 DEF PastStatement
  <2> QED BY <2>1 DEF TakesOne
<1> SUFFICES ASSUME ~y.overlapped, NEW a \in y.due.answers
             PROVE  /\ a.since => teaching'.at = "done"
                    /\ \/ a \notin answers'
                       \/ thread'[a.thread] = y.of /\ ~PastStatement(y, IdsAt(y))
                       \/ a.thread \in y.ids /\ PastStatement(y, IdsAt(y)) /\ ~PastStatement(y, AnswersAt(y))
  BY DEF AnswersErased
<1>6. /\ a.since => teaching.at = "done"
      /\ \/ a \notin answers
         \/ thread[a.thread] = x.of /\ ~PastStatement(x, IdsAt(x))
         \/ a.thread \in x.ids /\ PastStatement(x, IdsAt(x)) /\ ~PastStatement(x, AnswersAt(x))
  BY <1>2, <1>4 DEF AnswersErased
<1>7. (a.since => teaching'.at = "done") /\ (a \in answers' => a \in answers)
  BY <1>6 DEF AnswersStay
<1>8. thread[a.thread] = x.of /\ ~PastStatement(x, IdsAt(x)) => thread'[a.thread] = x.of
  BY <1>3, <1>4 DEF ThreadsStay
<1> QED BY <1>2, <1>4, <1>5, <1>6, <1>7, <1>8

\* And the transcripts, the summaries and the row.
LEMMA RestOwed ==
  ASSUME NEW x \in ErasureRequests, NEW y \in ErasureRequests, TakesOne(x, y), RestErased(x, call, contact), RestStays,
         x.at # TurnsAt(x), x.at # CallAt(x), x.at # LastAt(x)
  PROVE  RestErased(y, call', contact')
<1>1. TurnsAt(x) \in 1..LastAt(x) /\ CallAt(x) \in 1..LastAt(x)
  BY DEF TurnsAt, CallAt, LastAt, ErasureRequests
<1>2. /\ PastStatement(y, TurnsAt(y)) <=> PastStatement(x, TurnsAt(x))
      /\ PastStatement(y, CallAt(y)) <=> PastStatement(x, CallAt(x))
      /\ MayBeOwed(x) /\ y.at # 0
  BY <1>1, AdvancesPast
<1>3. x.of \subseteq Customers /\ y.of = x.of
  BY DEF ErasureRequests, TakesOne
<1> QED BY <1>2, <1>3 DEF RestErased, RestStays

\* Where no request moves, and none loses sight of its conversations.
RequestsStay ==
  /\ TextsStay /\ AnswersStay /\ RestStays /\ erasure' \in [Erasures -> ErasureRequests]
  /\ \A f \in Erasures : /\ StaysPut(erasure[f], erasure'[f])
                         /\ erasure'[f].overlapped \/ erasure[f].at = 0 \/ ThreadsStay(erasure[f].of)

\* Where no request moves, each is due what it was.
LEMMA QuietKeeps ==
  ASSUME RecordsInv, RequestsStay
  PROVE  RequestsGood' /\ TextsDone' /\ AnswersDone' /\ RestDone'
<1>1. ASSUME NEW f \in Erasures
      PROVE  /\ RequestGood(erasure'[f]) /\ TextsErased(erasure'[f], message')
             /\ AnswersErased(erasure'[f], answers', thread', teaching') /\ RestErased(erasure'[f], call', contact')
  <2>1. erasure[f] \in ErasureRequests /\ erasure'[f] \in ErasureRequests /\ StaysPut(erasure[f], erasure'[f]) /\ RequestGood(erasure[f])
    BY DEF RecordsInv, RecordsGood, RequestsGood, RequestsStay
  <2>2. RequestGood(erasure'[f])
    BY <2>1 DEF RequestGood, StaysPut
  <2>3. TextsErased(erasure'[f], message')
    BY <2>1, MessagesKept DEF RecordsInv, TextsDone, RequestsStay
  <2>4. AnswersErased(erasure'[f], answers', thread', teaching')
    BY <2>1, AnswersKept DEF RecordsInv, AnswersDone, RequestsStay
  <2>5. RestErased(erasure'[f], call', contact')
    BY <2>1, RestKept DEF RecordsInv, RestDone, RequestsStay
  <2> QED BY <2>2, <2>3, <2>4, <2>5
<1>2. RequestsGood'
  BY <1>1 DEF RequestsGood, RequestsStay
<1> QED BY <1>1, <1>2 DEF TextsDone, AnswersDone, RestDone

\* One request takes a statement, the others do not move.
TakesStatement(e) ==
  /\ erasure' \in [Erasures -> ErasureRequests] /\ TakesOne(erasure[e], erasure'[e])
  /\ \A f \in Erasures \ {e} : StaysPut(erasure[f], erasure'[f])

\* Where one takes a statement, the others are due what they were.
LEMMA OtherRequestsStay ==
  ASSUME RecordsInv, NEW e \in Erasures, TakesStatement(e), TextsStay, AnswersStay, RestStays,
         \A f \in Erasures \ {e} : erasure'[f].overlapped \/ erasure[f].at = 0 \/ ThreadsStay(erasure[f].of),
         TextsErased(erasure'[e], message'), AnswersErased(erasure'[e], answers', thread', teaching'),
         RestErased(erasure'[e], call', contact')
  PROVE  RequestsGood' /\ TextsDone' /\ AnswersDone' /\ RestDone'
<1>1. ASSUME NEW f \in Erasures
      PROVE  /\ RequestGood(erasure'[f]) /\ TextsErased(erasure'[f], message')
             /\ AnswersErased(erasure'[f], answers', thread', teaching') /\ RestErased(erasure'[f], call', contact')
  <2>0. erasure[f] \in ErasureRequests /\ erasure'[f] \in ErasureRequests /\ RequestGood(erasure[f])
    BY DEF RecordsInv, RecordsGood, RequestsGood, TakesStatement
  <2>1. CASE f # e
    <3>1. StaysPut(erasure[f], erasure'[f])
      BY <2>1 DEF TakesStatement
    <3>2. RequestGood(erasure'[f])
      BY <2>0, <3>1 DEF RequestGood, StaysPut
    <3>3. TextsErased(erasure'[f], message')
      BY <2>0, <3>1, MessagesKept DEF RecordsInv, TextsDone
    <3>4. AnswersErased(erasure'[f], answers', thread', teaching')
      BY <2>0, <2>1, <3>1, AnswersKept DEF RecordsInv, AnswersDone
    <3>5. RestErased(erasure'[f], call', contact')
      BY <2>0, <3>1, RestKept DEF RecordsInv, RestDone
    <3> QED BY <3>2, <3>3, <3>4, <3>5
  <2>2. CASE f = e
    <3>1. RequestGood(erasure'[e])
      BY <2>0, <2>2 DEF TakesStatement, TakesOne, RequestGood, LastAt
    <3> QED BY <2>2, <3>1
  <2> QED BY <2>1, <2>2
<1>2. RequestsGood'
  BY <1>1 DEF RequestsGood, TakesStatement
<1> QED BY <1>1, <1>2 DEF TextsDone, AnswersDone, RestDone

\* Which statement a request is at.
LEMMA PlaceOf ==
  ASSUME NEW e \in Erasures, erasure[e] \in ErasureRequests, erasure[e].at > 0, ~erasure[e].purge => erasure[e].at <= 6
  PROVE  /\ Len(StepsOf(e)) = LastAt(erasure[e]) /\ erasure[e].at \in 1..LastAt(erasure[e])
         /\ StepsOf(e)[erasure[e].at] = "texts" <=> erasure[e].at = TextsAt(erasure[e])
         /\ StepsOf(e)[erasure[e].at] = "turns" <=> erasure[e].at = TurnsAt(erasure[e])
         /\ StepsOf(e)[erasure[e].at] = "call" <=> erasure[e].at = CallAt(erasure[e])
         /\ StepsOf(e)[erasure[e].at] = "ids" <=> erasure[e].at = IdsAt(erasure[e])
         /\ StepsOf(e)[erasure[e].at] = "answers" <=> erasure[e].at = AnswersAt(erasure[e])
         /\ StepsOf(e)[erasure[e].at] = "contact" <=> erasure[e].at = LastAt(erasure[e])
         /\ StepsOf(e)[erasure[e].at] = "threads" => erasure[e].at = 6 /\ erasure[e].purge
<1> DEFINE x == erasure[e]
<1>1. x.at \in 0..7 /\ x.purge \in BOOLEAN
  BY DEF ErasureRequests
<1>2. CASE x.purge
  <2>1. x.at \in {1, 2, 3, 4, 5, 6, 7}
    BY <1>1
  <2>2. StepsOf(e) = <<"ids", "answers", "turns", "texts", "call", "threads", "contact">>
    BY <1>2 DEF StepsOf, PurgeSteps
  <2>3. TextsAt(x) = 4 /\ TurnsAt(x) = 3 /\ CallAt(x) = 5 /\ IdsAt(x) = 1 /\ AnswersAt(x) = 2 /\ LastAt(x) = 7
    BY <1>2 DEF TextsAt, TurnsAt, CallAt, IdsAt, AnswersAt, LastAt
  <2> HIDE DEF x
  <2> QED BY <1>2, <2>1, <2>2, <2>3 DEF x
<1>3. CASE ~x.purge
  <2>1. x.at \in {1, 2, 3, 4, 5, 6}
    BY <1>1, <1>3
  <2>2. StepsOf(e) = <<"texts", "turns", "call", "ids", "answers", "contact">>
    BY <1>3 DEF StepsOf, TokenizeSteps
  <2>3. TextsAt(x) = 1 /\ TurnsAt(x) = 2 /\ CallAt(x) = 3 /\ IdsAt(x) = 4 /\ AnswersAt(x) = 5 /\ LastAt(x) = 6
    BY <1>3 DEF TextsAt, TurnsAt, CallAt, IdsAt, AnswersAt, LastAt
  <2> HIDE DEF x
  <2> QED BY <1>3, <2>1, <2>2, <2>3 DEF x
<1> QED BY <1>2, <1>3

\* What a statement of a request does to the requests: it moves on, the others stay.
LEMMA EraseStepTakes ==
  ASSUME RecordsInv, NEW e \in Erasures, NEW step, EraseStep(e, step)
  PROVE  /\ TakesStatement(e) /\ erasure[e] \in ErasureRequests /\ erasure'[e] \in ErasureRequests
         /\ \E c \in Customers : erasure[e].of = {c}
         /\ step = "texts" => erasure[e].at = TextsAt(erasure[e])
         /\ step = "turns" => erasure[e].at = TurnsAt(erasure[e])
         /\ step = "call" => erasure[e].at = CallAt(erasure[e])
         /\ step = "ids" => erasure[e].at = IdsAt(erasure[e]) /\ erasure'[e].ids = {t \in Customers : thread[t] = erasure[e].of}
         /\ step = "answers" => erasure[e].at = AnswersAt(erasure[e])
         /\ step = "contact" <=> erasure[e].at = LastAt(erasure[e])
         /\ step = "threads" => erasure[e].at = 6 /\ erasure[e].purge
         /\ \A f \in Erasures \ {e} : DropsThreads(e, step) /\ erasure[f].at > 0 /\ erasure[f].of = erasure[e].of =>
              erasure'[f].overlapped
<1> DEFINE x == erasure[e]  steps == StepsOf(e)  ids == {t \in Customers : thread[t] = x.of}
           after == IF x.at = Len(steps) THEN [x EXCEPT !.at = 0, !.status = "COMPLETED", !.ids = {}]
                    ELSE [x EXCEPT !.at = x.at + 1]
           mine == IF step = "ids" THEN [after EXCEPT !.ids = ids] ELSE after
           overlaps(f) == DropsThreads(e, step) /\ erasure[f].at > 0 /\ erasure[f].of = erasure[e].of
<1>1. x \in ErasureRequests /\ x.at > 0 /\ (\E c \in Customers : x.of = {c}) /\ x.status = "PROCESSING" /\ (~x.purge => x.at <= 6)
      /\ steps[x.at] = step
  BY DEF EraseStep, RecordsInv, RecordsGood, RequestsGood, RequestGood
<1>2. /\ Len(steps) = LastAt(x) /\ x.at \in 1..LastAt(x)
      /\ step = "texts" <=> x.at = TextsAt(x)
      /\ step = "turns" <=> x.at = TurnsAt(x)
      /\ step = "call" <=> x.at = CallAt(x)
      /\ step = "ids" <=> x.at = IdsAt(x)
      /\ step = "answers" <=> x.at = AnswersAt(x)
      /\ step = "contact" <=> x.at = LastAt(x)
      /\ step = "threads" => x.at = 6 /\ x.purge
  BY <1>1, PlaceOf
<1>3. erasure' = [f \in Erasures |-> IF f # e THEN [erasure[f] EXCEPT !.overlapped = (erasure[f].overlapped \/ overlaps(f))] ELSE mine]
  BY DEF EraseStep
<1> HIDE DEF steps, overlaps
<1>4. ids \subseteq Customers /\ x.at \in 0..7 /\ LastAt(x) \in {6, 7} /\ IdsAt(x) # LastAt(x)
  BY <1>1 DEF ErasureRequests, LastAt, IdsAt
<1> HIDE DEF ids
<1>5. mine \in ErasureRequests /\ TakesOne(x, mine) /\ (step = "ids" => mine.ids = ids)
  <2>1. CASE x.at = LastAt(x)
    <3>1. step # "ids"
      BY <1>2, <1>4, <2>1
    <3>2. mine = [x EXCEPT !.at = 0, !.status = "COMPLETED", !.ids = {}]
      BY <1>2, <2>1, <3>1
    <3> HIDE DEF mine, x
    <3>3. mine \in ErasureRequests
      <4>1. 0 \in 0..7 /\ {} \subseteq Customers
        OBVIOUS
      <4>2. \A n \in 0..7, i \in SUBSET Customers :
              [x EXCEPT !.at = n, !.status = "COMPLETED", !.ids = i] \in ErasureRequests
        BY <1>1 DEF ErasureRequests
      <4> QED BY <3>2, <4>1, <4>2
    <3>4. /\ mine.of = x.of /\ mine.purge = x.purge /\ mine.due = x.due /\ mine.overlapped = x.overlapped
          /\ mine.at = 0 /\ mine.status = "COMPLETED"
      BY <1>1, <3>2 DEF ErasureRequests
    <3> QED BY <1>1, <1>2, <2>1, <3>1, <3>3, <3>4 DEF TakesOne
  <2>2. CASE x.at # LastAt(x) /\ step = "ids"
    <3>1. mine = [x EXCEPT !.at = x.at + 1, !.ids = ids]
      BY <1>1, <1>2, <2>2 DEF ErasureRequests
    <3>2. x.at + 1 \in 0..7
      BY <1>2, <1>4, <2>2
    <3> HIDE DEF mine, x
    <3> QED BY <1>1, <1>2, <1>4, <2>2, <3>1, <3>2 DEF ErasureRequests, TakesOne
  <2>3. CASE x.at # LastAt(x) /\ step # "ids"
    <3>1. mine = [x EXCEPT !.at = x.at + 1]
      BY <1>2, <2>3
    <3>2. x.at + 1 \in 0..7
      BY <1>2, <1>4, <2>3
    <3> HIDE DEF mine, x
    <3> QED BY <1>1, <1>2, <2>3, <3>1, <3>2 DEF ErasureRequests, TakesOne
  <2> QED BY <2>1, <2>2, <2>3
<1> HIDE DEF mine
<1>6. erasure'[e] = mine
  BY <1>3
<1>7. ASSUME NEW f \in Erasures \ {e}
      PROVE  erasure'[f] \in ErasureRequests /\ StaysPut(erasure[f], erasure'[f]) /\ (overlaps(f) => erasure'[f].overlapped)
  <2>1. erasure[f] \in ErasureRequests /\ erasure'[f] = [erasure[f] EXCEPT !.overlapped = (erasure[f].overlapped \/ overlaps(f))]
    BY <1>3 DEF RecordsInv, RecordsGood, RequestsGood
  <2>2. PICK b \in BOOLEAN : b = (erasure[f].overlapped \/ overlaps(f))
    OBVIOUS
  <2>3. erasure'[f] = [erasure[f] EXCEPT !.overlapped = b]
    BY <2>1, <2>2
  <2>4. erasure'[f] \in ErasureRequests /\ StaysPut(erasure[f], erasure'[f]) /\ erasure'[f].overlapped = b
    <3>1. erasure[f].overlapped => b
      BY <2>2
    <3> QED BY <2>1, <2>3, <3>1 DEF ErasureRequests, StaysPut
  <2> QED BY <2>2, <2>4
<1>8. erasure' \in [Erasures -> ErasureRequests]
  BY <1>3, <1>5, <1>6, <1>7
<1>9. TakesStatement(e)
  BY <1>5, <1>6, <1>7, <1>8 DEF TakesStatement
<1> QED BY <1>1, <1>2, <1>5, <1>6, <1>7, <1>9 DEF overlaps, ids

\* A step of others than the erasures, which leaves the requests as they are.
NoRequestMoves == erasure' = erasure /\ UNCHANGED thread

\* Where neither the requests nor the conversations change, each is due what it was.
LEMMA UnmovedIsQuiet ==
  ASSUME RecordsInv, NoRequestMoves, TextsStay, AnswersStay, RestStays
  PROVE  RequestsGood' /\ TextsDone' /\ AnswersDone' /\ RestDone'
<1>1. RequestsStay
  BY DEF NoRequestMoves, RequestsStay, StaysPut, ThreadsStay, RecordsInv, RecordsGood, RequestsGood
<1> QED BY <1>1, QuietKeeps

\* An edit or an import gives a name to a row that is there, or that has its phone.
LEMMA ContactsStep ==
  ASSUME RecordsInv, NEW c \in Customers, EditContact(c) \/ ImportContact(c)
  PROVE  RecordsInv'
<1>1. /\ contact' = [contact EXCEPT ![c].name = TRUE] /\ (contact[c].row = "live" \/ contact[c].phone)
      /\ UNCHANGED <<thread, message, call, answers, erasure, merging, arriving, teaching, recordFaults>>
  BY DEF EditContact, ImportContact
<1>2. contact \in [Customers -> ContactRows]
  BY DEF RecordsInv, RecordsGood, RowsTyped
<1>3. contact' \in [Customers -> ContactRows] /\ \A d \in Customers : contact'[d].row = contact[d].row /\ contact'[d].phone = contact[d].phone
                                                               /\ (d # c => contact'[d] = contact[d])
  <2>1. ASSUME NEW d \in Customers
        PROVE  /\ contact'[d] \in ContactRows /\ contact'[d].row = contact[d].row /\ contact'[d].phone = contact[d].phone
               /\ d # c => contact'[d] = contact[d]
    <3>1. contact[d] \in ContactRows /\ contact'[d] = (IF d = c THEN [contact[d] EXCEPT !.name = TRUE] ELSE contact[d])
      BY <1>1, <1>2
    <3> QED BY <3>1 DEF ContactRows
  <2> QED BY <1>1, <1>2, <2>1
<1>4. NoRequestMoves /\ TextsStay /\ AnswersStay /\ RestStays
  BY <1>1, <1>3 DEF NoRequestMoves, TextsStay, AnswersStay, RestStays
<1>5. RequestsGood' /\ TextsDone' /\ AnswersDone' /\ RestDone'
  BY <1>4, UnmovedIsQuiet
<1> QED BY <1>1, <1>3, <1>5 DEF RecordsInv, RecordsGood, RowsTyped, MergeGood, ArrivalsGood,
    TeachingGood, FaultsCounted

\* A merge that starts has moved nothing yet.
LEMMA StartMergeStep ==
  ASSUME RecordsInv, NEW c \in Customers, NEW d \in Customers, StartMerge(c, d)
  PROVE  RecordsInv'
<1>1. /\ c # d /\ merging' = [at |-> "threads", from |-> {c}, to |-> {d}]
      /\ UNCHANGED <<contact, thread, message, call, answers, erasure, arriving, teaching, recordFaults>>
  BY DEF StartMerge
<1>2. MergeGood'
  BY <1>1 DEF MergeGood
<1>3. NoRequestMoves /\ TextsStay /\ AnswersStay /\ RestStays
  BY <1>1 DEF NoRequestMoves, TextsStay, AnswersStay, RestStays
<1>4. RequestsGood' /\ TextsDone' /\ AnswersDone' /\ RestDone'
  BY <1>3, UnmovedIsQuiet
<1> QED BY <1>1, <1>2, <1>4 DEF RecordsInv, RecordsGood, RowsTyped, ArrivalsGood, TeachingGood,
    FaultsCounted

\* What a statement of a merge does to the requests.
LEMMA MergeMarks ==
  ASSUME RecordsInv, NEW from \in {"threads", "messages"}, NEW to \in {"messages", "source"}, MergeMoves(from, to)
  PROVE  \E c, d \in Customers :
           /\ c # d /\ merging.from = {c} /\ merging.to = {d} /\ MergeGood'
           /\ erasure' \in [Erasures -> ErasureRequests]
           /\ \A f \in Erasures : /\ StaysPut(erasure[f], erasure'[f])
                                  /\ erasure'[f].overlapped \/ erasure[f].at = 0 \/ erasure[f].of # {c}
<1>1. merging.at = from /\ merging \in [at : {"idle", "threads", "messages", "source", "done"}, from : SUBSET Customers, to : SUBSET Customers]
  BY DEF MergeMoves, RecordsInv, RecordsGood, MergeGood
<1>2. PICK c, d \in Customers : c # d /\ merging.from = {c} /\ merging.to = {d}
  BY <1>1 DEF RecordsInv, RecordsGood, MergeGood
<1>3. /\ merging' = (IF contact[d].row = "gone" THEN Merged ELSE [merging EXCEPT !.at = to])
      /\ erasure' = [e \in Erasures |->
           IF e \in UnderErasure(c) THEN [erasure[e] EXCEPT !.overlapped = TRUE] ELSE erasure[e]]
  BY <1>2 DEF MergeMoves
<1>4. merging' = Merged \/ merging' = [merging EXCEPT !.at = to]
  BY <1>3
<1>5. MergeGood'
  <2>1. CASE merging' = Merged
    BY <2>1 DEF MergeGood, Merged
  <2>2. CASE merging' = [merging EXCEPT !.at = to]
    BY <1>1, <1>2, <2>2 DEF MergeGood
  <2> QED BY <1>4, <2>1, <2>2
<1>6. ASSUME NEW f \in Erasures
      PROVE  /\ erasure'[f] \in ErasureRequests /\ StaysPut(erasure[f], erasure'[f])
             /\ erasure'[f].overlapped \/ erasure[f].at = 0 \/ erasure[f].of # {c}
  <2>1. erasure[f] \in ErasureRequests /\ erasure[f].at \in 0..7
    BY DEF RecordsInv, RecordsGood, RequestsGood, ErasureRequests
  <2>2. CASE f \in UnderErasure(c)
    <3>1. erasure'[f] = [erasure[f] EXCEPT !.overlapped = TRUE]
      BY <1>3, <2>2
    <3> QED BY <2>1, <3>1 DEF ErasureRequests, StaysPut
  <2>3. CASE f \notin UnderErasure(c)
    <3>1. erasure'[f] = erasure[f]
      BY <1>3, <2>3
    <3>2. ~(erasure[f].at > 0 /\ erasure[f].of = {c})
      BY <2>3 DEF UnderErasure
    <3> QED BY <2>1, <3>1, <3>2 DEF StaysPut
  <2> QED BY <2>2, <2>3
<1>7. erasure' \in [Erasures -> ErasureRequests]
  BY <1>3, <1>6
<1> QED BY <1>2, <1>5, <1>6, <1>7

\* A merge that moves conversations marks the requests that look for them.
LEMMA MoveThreadsStep ==
  ASSUME RecordsInv, MoveThreads
  PROVE  RecordsInv'
<1>1. MergeMoves("threads", "messages") /\ UNCHANGED <<contact, message, call, answers, arriving, teaching, recordFaults>>
  BY DEF MoveThreads
<1>2. PICK c, d \in Customers :
        /\ c # d /\ merging.from = {c} /\ merging.to = {d} /\ MergeGood' /\ erasure' \in [Erasures -> ErasureRequests]
        /\ \A f \in Erasures : /\ StaysPut(erasure[f], erasure'[f])
                               /\ erasure'[f].overlapped \/ erasure[f].at = 0 \/ erasure[f].of # {c}
  BY <1>1, MergeMarks
<1>3. thread \in [Customers -> SUBSET Customers]
  BY DEF RecordsInv, RecordsGood, RowsTyped
<1>4. /\ thread' \in [Customers -> SUBSET Customers]
      /\ \A t \in Customers : thread[t] # {c} => thread'[t] = thread[t]
  BY <1>2, <1>3 DEF MoveThreads
<1>5. \A of : of # {c} => ThreadsStay(of)
  BY <1>4 DEF ThreadsStay
<1>6. TextsStay /\ AnswersStay /\ RestStays
  BY <1>1 DEF TextsStay, AnswersStay, RestStays
<1>7. RequestsStay
  BY <1>2, <1>5, <1>6 DEF RequestsStay
<1>8. RequestsGood' /\ TextsDone' /\ AnswersDone' /\ RestDone'
  BY <1>7, QuietKeeps
<1> QED BY <1>1, <1>2, <1>4, <1>8 DEF RecordsInv, RecordsGood, RowsTyped, ArrivalsGood,
    TeachingGood, FaultsCounted

\* And so it does when it moves the messages.
LEMMA MoveMessagesStep ==
  ASSUME RecordsInv, MoveMessages
  PROVE  RecordsInv'
<1>1. MergeMoves("messages", "source") /\ UNCHANGED <<contact, thread, call, answers, arriving, teaching, recordFaults>>
  BY DEF MoveMessages
<1>2. PICK c, d \in Customers :
        /\ c # d /\ merging.from = {c} /\ merging.to = {d} /\ MergeGood' /\ erasure' \in [Erasures -> ErasureRequests]
        /\ \A f \in Erasures : /\ StaysPut(erasure[f], erasure'[f])
                               /\ erasure'[f].overlapped \/ erasure[f].at = 0 \/ erasure[f].of # {c}
  BY <1>1, MergeMarks
<1>3. message \in [Written -> MessageRows]
  BY DEF RecordsInv, RecordsGood, RowsTyped
<1>4. /\ message' \in [Written -> MessageRows]
      /\ \A m \in Written : /\ message'[m].text = message[m].text
                            /\ message'[m].thread = message[m].thread
                            /\ message'[m] = message[m] \/ message[m].of = {c}
  <2>1. CASE merging'.at = "done"
    BY <1>3, <2>1 DEF MoveMessages
  <2>2. CASE merging'.at # "done"
    <3>1. message' = [m \in Written |-> IF message[m].of = {c} THEN [message[m] EXCEPT !.of = {d}] ELSE message[m]]
      BY <1>2, <2>2 DEF MoveMessages
    <3>2. ASSUME NEW m \in Written
          PROVE  /\ message'[m] \in MessageRows /\ message'[m].text = message[m].text
                 /\ message'[m].thread = message[m].thread
                 /\ message'[m] = message[m] \/ message[m].of = {c}
      <4>1. message[m] \in MessageRows /\ message'[m] = IF message[m].of = {c} THEN [message[m] EXCEPT !.of = {d}] ELSE message[m]
        BY <1>3, <3>1
      <4> QED BY <4>1 DEF MessageRows
    <3> QED BY <3>1, <3>2
  <2> QED BY <2>1, <2>2
<1>5. AnswersStay /\ RestStays /\ \A of : ThreadsStay(of)
  BY <1>1 DEF AnswersStay, RestStays, ThreadsStay
<1>6. ASSUME NEW f \in Erasures
      PROVE  /\ RequestGood(erasure'[f]) /\ TextsErased(erasure'[f], message')
             /\ AnswersErased(erasure'[f], answers', thread', teaching') /\ RestErased(erasure'[f], call', contact')
  <2>0. /\ erasure[f] \in ErasureRequests /\ erasure'[f] \in ErasureRequests /\ RequestGood(erasure[f]) /\ StaysPut(erasure[f], erasure'[f])
        /\ TextsErased(erasure[f], message) /\ AnswersErased(erasure[f], answers, thread, teaching) /\ RestErased(erasure[f], call, contact)
    BY <1>2 DEF RecordsInv, RecordsGood, RequestsGood, TextsDone, AnswersDone, RestDone
  <2>1. RequestGood(erasure'[f])
    BY <2>0 DEF RequestGood, StaysPut
  <2>2. AnswersErased(erasure'[f], answers', thread', teaching') /\ RestErased(erasure'[f], call', contact')
    BY <1>5, <2>0, AnswersKept, RestKept
  <2>3. TextsErased(erasure'[f], message')
    <3> SUFFICES ASSUME MayBeOwed(erasure'[f]), ~erasure'[f].overlapped, NEW m \in erasure'[f].due.texts
                 PROVE  \/ message'[m].text \in {"token", "gone"}
                        \/ /\ message'[m].of = erasure'[f].of /\ message'[m].text # "none"
                           /\ ~PastStatement(erasure'[f], TextsAt(erasure'[f]))
      BY DEF TextsErased
    <3>1. MayBeOwed(erasure[f]) /\ ~erasure[f].overlapped /\ m \in erasure[f].due.texts /\ m \in Written /\ erasure'[f].of = erasure[f].of
          /\ (PastStatement(erasure'[f], TextsAt(erasure'[f])) <=> PastStatement(erasure[f], TextsAt(erasure[f])))
      BY <2>0 DEF StaysPut, MayBeOwed, PastStatement, TextsAt, ErasureRequests, ErasureDues
    <3>2. \/ message[m].text \in {"token", "gone"}
          \/ message[m].of = erasure[f].of /\ message[m].text # "none" /\ ~PastStatement(erasure[f], TextsAt(erasure[f]))
      BY <2>0, <3>1 DEF TextsErased
    <3>3. CASE message[m].text \in {"token", "gone"}
      BY <1>4, <3>1, <3>3
    <3>4. CASE message[m].of = erasure[f].of /\ message[m].text # "none" /\ ~PastStatement(erasure[f], TextsAt(erasure[f]))
      <4>1. erasure[f].at # 0
        BY <3>4 DEF PastStatement
      <4>2. message'[m] = message[m]
        BY <1>2, <1>4, <3>1, <3>4, <4>1
      <4> QED BY <3>1, <3>4, <4>2
    <3> QED BY <3>2, <3>3, <3>4
  <2> QED BY <2>1, <2>2, <2>3
<1>7. RequestsGood' /\ TextsDone' /\ AnswersDone' /\ RestDone'
  BY <1>2, <1>6 DEF RequestsGood, TextsDone, AnswersDone, RestDone
<1>8. ArrivalsGood'
  <2>1. \A m \in Written : message'[m].text = "none" => message'[m].of = {} /\ message'[m].thread = {}
    <3> SUFFICES ASSUME NEW m \in Written, message'[m].text = "none" PROVE message'[m].of = {} /\ message'[m].thread = {}
      OBVIOUS
    <3>1. message[m].text = "none" /\ message[m].of = {} /\ message[m].thread = {}
      BY <1>4 DEF RecordsInv, RecordsGood, ArrivalsGood
    <3> QED BY <1>4, <3>1
  <2>2. \A m \in Arrivals : m \in Written /\ message'[m].text = message[m].text
    BY <1>4 DEF Written
  <2> QED BY <1>1, <2>1, <2>2 DEF RecordsInv, RecordsGood, ArrivalsGood
<1> QED BY <1>1, <1>2, <1>4, <1>7, <1>8 DEF RecordsInv, RecordsGood, RowsTyped, TeachingGood,
    FaultsCounted

\* The row a merge leaves is deleted, never brought back.
LEMMA DeleteSourceStep ==
  ASSUME RecordsInv, DeleteSource
  PROVE  RecordsInv'
<1>1. /\ merging' = Merged /\ UNCHANGED <<thread, message, call, answers, erasure, arriving, teaching, recordFaults>>
  BY DEF DeleteSource
<1>2. contact \in [Customers -> ContactRows]
  BY DEF RecordsInv, RecordsGood, RowsTyped
<1>3. ASSUME NEW c \in Customers
      PROVE  /\ contact'[c] \in ContactRows /\ contact'[c].phone = contact[c].phone /\ contact'[c].name = contact[c].name
             /\ contact'[c].row = "live" => contact[c].row = "live"
  <2>1. contact[c] \in ContactRows /\ (contact'[c] = [contact[c] EXCEPT !.row = "deleted"] \/ contact'[c] = contact[c])
    BY <1>2 DEF DeleteSource
  <2> QED BY <2>1 DEF ContactRows
<1>4. contact' \in [Customers -> ContactRows]
  BY <1>3 DEF DeleteSource
<1>5. NoRequestMoves /\ TextsStay /\ AnswersStay /\ RestStays
  BY <1>1, <1>3 DEF NoRequestMoves, TextsStay, AnswersStay, RestStays
<1>6. RequestsGood' /\ TextsDone' /\ AnswersDone' /\ RestDone'
  BY <1>5, UnmovedIsQuiet
<1>7. MergeGood'
  BY <1>1 DEF MergeGood, Merged
<1> QED BY <1>1, <1>4, <1>6, <1>7 DEF RecordsInv, RecordsGood, RowsTyped, ArrivalsGood,
    TeachingGood, FaultsCounted

\* What nobody is owed: nothing of it touches the messages, the conversations, the callRows, the contacts.
LEMMA ArrivalsStep ==
  ASSUME RecordsInv, NEW m \in Arrivals, FindSender(m) \/ StoreArrival(m)
  PROVE  RecordsInv'
<1>0. /\ arriving \in [Arrivals -> {"idle", "store", "done"}] /\ message \in [Written -> MessageRows] /\ m \in Written
      /\ \A n \in Arrivals : message[n].text # "none" => arriving[n] = "done"
      /\ \A n \in Written : message[n].text = "none" => message[n].of = {} /\ message[n].thread = {}
      /\ m[1] \in Customers
  BY RecordsAssumption DEF RecordsInv, RecordsGood, ArrivalsGood, RowsTyped, Written
<1>1. CASE FindSender(m)
  <2>1. /\ arriving[m] = "idle" /\ UNCHANGED <<contact, thread, message, call, answers, erasure, merging, teaching, recordFaults>>
        /\ arriving' \in [Arrivals -> {"idle", "store", "done"}] /\ \A n \in Arrivals \ {m} : arriving'[n] = arriving[n]
    BY <1>0, <1>1 DEF FindSender
  <2>2. ArrivalsGood'
    BY <1>0, <2>1 DEF ArrivalsGood
  <2>3. NoRequestMoves /\ TextsStay /\ AnswersStay /\ RestStays
    BY <2>1 DEF NoRequestMoves, TextsStay, AnswersStay, RestStays
  <2>4. RequestsGood' /\ TextsDone' /\ AnswersDone' /\ RestDone'
    BY <2>3, UnmovedIsQuiet
  <2> QED BY <2>1, <2>2, <2>4 DEF RecordsInv, RecordsGood, RowsTyped, MergeGood, TeachingGood,
      FaultsCounted
<1>2. CASE StoreArrival(m)
  <2>1. /\ arriving[m] = "store" /\ UNCHANGED <<contact, thread, call, answers, erasure, merging, teaching, recordFaults>>
        /\ arriving' = [arriving EXCEPT ![m] = "done"]
    BY <1>2 DEF StoreArrival
  <2>2. message' = message \/ \E t \in Customers : message' = [message EXCEPT ![m] = [of |-> {m[1]}, thread |-> {t}, text |-> "words"]]
    BY <1>2 DEF StoreArrival
  <2>3. message[m].text = "none"
    BY <1>0, <2>1
  <2>4. message' \in [Written -> MessageRows] /\ (\A n \in Written \ {m} : message'[n] = message[n])
        /\ (message'[m] = message[m] \/ message'[m].text = "words")
    <3>1. CASE message' = message
      BY <1>0, <3>1
    <3>2. ASSUME NEW t \in Customers, message' = [message EXCEPT ![m] = [of |-> {m[1]}, thread |-> {t}, text |-> "words"]]
          PROVE  message' \in [Written -> MessageRows] /\ (\A n \in Written \ {m} : message'[n] = message[n]) /\ message'[m].text = "words"
      <4>1. [of |-> {m[1]}, thread |-> {t}, text |-> "words"] \in MessageRows
        BY <1>0 DEF MessageRows
      <4> QED BY <1>0, <3>2, <4>1
    <3> QED BY <2>2, <3>1, <3>2
  <2>5. ArrivalsGood'
    BY <1>0, <2>1, <2>4 DEF ArrivalsGood, Written
  <2>6. NoRequestMoves /\ TextsStay /\ AnswersStay /\ RestStays
    BY <2>1, <2>3, <2>4 DEF NoRequestMoves, TextsStay, AnswersStay, RestStays
  <2>7. RequestsGood' /\ TextsDone' /\ AnswersDone' /\ RestDone'
    BY <2>6, UnmovedIsQuiet
  <2> QED BY <2>1, <2>4, <2>5, <2>7 DEF RecordsInv, RecordsGood, RowsTyped, MergeGood,
      TeachingGood, FaultsCounted
<1> QED BY <1>1, <1>2

\* The answer learnt since is none of those that a request named.
LEMMA TeachingStep ==
  ASSUME RecordsInv, KeepAnswer \/ \E t \in Customers : ReadExchange(t)
  PROVE  RecordsInv'
<1>0. teaching \in [at : {"idle", "keep", "done"}, thread : SUBSET Customers] /\ answers \subseteq AnswerRows
      /\ \A a \in answers : a.since => teaching.at = "done"
  BY DEF RecordsInv, RecordsGood, TeachingGood, RowsTyped
<1>1. /\ teaching.at \in {"idle", "keep"} /\ teaching' \in [at : {"idle", "keep", "done"}, thread : SUBSET Customers]
      /\ UNCHANGED <<contact, thread, message, call, erasure, merging, arriving, recordFaults>>
      /\ \A a \in answers' : a \in answers \/ (a.since /\ teaching'.at = "done" /\ a \in AnswerRows)
  <2>1. CASE KeepAnswer
    <3>1. teaching.at = "keep" /\ teaching' = [at |-> "done", thread |-> {}] /\ answers' = answers \cup [thread : teaching.thread, since : {TRUE}]
          /\ UNCHANGED <<contact, thread, message, call, erasure, merging, arriving, recordFaults>>
      BY <2>1 DEF KeepAnswer
    <3>2. \A a \in [thread : teaching.thread, since : {TRUE}] : a.since /\ a \in AnswerRows
      BY <1>0 DEF AnswerRows
    <3> QED BY <3>1, <3>2
  <2>2. ASSUME NEW t \in Customers, ReadExchange(t)
        PROVE  /\ teaching.at = "idle" /\ teaching' = [at |-> "keep", thread |-> {t}]
               /\ UNCHANGED <<contact, thread, message, call, answers, erasure, merging, arriving, recordFaults>>
    BY <2>2 DEF ReadExchange
  <2> QED BY <2>1, <2>2
<1>2. TeachingGood' /\ answers' \subseteq AnswerRows
  BY <1>0, <1>1 DEF TeachingGood
<1>3. NoRequestMoves /\ TextsStay /\ AnswersStay /\ RestStays
  BY <1>1 DEF NoRequestMoves, TextsStay, AnswersStay, RestStays
<1>4. RequestsGood' /\ TextsDone' /\ AnswersDone' /\ RestDone'
  BY <1>3, UnmovedIsQuiet
<1> QED BY <1>1, <1>2, <1>4 DEF RecordsInv, RecordsGood, RowsTyped, MergeGood, ArrivalsGood,
    FaultsCounted

\* The sweep deletes more.
LEMMA RetentionStep ==
  ASSUME RecordsInv, RetentionRun
  PROVE  RecordsInv'
<1>1. call' = [c \in Customers |-> [call[c] EXCEPT !.turns = "gone"]]
      /\ UNCHANGED <<contact, thread, message, answers, erasure, merging, arriving, teaching, recordFaults>>
  BY DEF RetentionRun
<1>2. ASSUME NEW c \in Customers PROVE call'[c] \in CallRows /\ call'[c].turns = "gone" /\ call'[c].summary = call[c].summary
  <2>1. call[c] \in CallRows /\ call'[c] = [call[c] EXCEPT !.turns = "gone"]
    BY <1>1 DEF RecordsInv, RecordsGood, RowsTyped
  <2> QED BY <2>1 DEF CallRows
<1>3. call' \in [Customers -> CallRows]
  BY <1>1, <1>2
<1>4. NoRequestMoves /\ TextsStay /\ AnswersStay /\ RestStays
  BY <1>1, <1>2 DEF NoRequestMoves, TextsStay, AnswersStay, RestStays
<1>5. RequestsGood' /\ TextsDone' /\ AnswersDone' /\ RestDone'
  BY <1>4, UnmovedIsQuiet
<1> QED BY <1>1, <1>3, <1>5 DEF RecordsInv, RecordsGood, RowsTyped, MergeGood, ArrivalsGood,
    TeachingGood, FaultsCounted

\* A request begins, or is given up.
LEMMA RequestChanges ==
  ASSUME RecordsInv, NEW e \in Erasures, NEW y \in ErasureRequests, erasure' = [erasure EXCEPT ![e] = y],
         UNCHANGED <<contact, thread, message, call, answers, merging, arriving, teaching>>,
         RequestGood(y), TextsErased(y, message), AnswersErased(y, answers, thread, teaching), RestErased(y, call, contact),
         recordFaults' \in 0..RecordFaults
  PROVE  RecordsInv'
<1>1. erasure' \in [Erasures -> ErasureRequests] /\ erasure'[e] = y /\ \A f \in Erasures \ {e} : erasure'[f] = erasure[f]
  BY DEF RecordsInv, RecordsGood, RequestsGood
<1>2. RequestsGood' /\ TextsDone' /\ AnswersDone' /\ RestDone'
  BY <1>1 DEF RecordsInv, RecordsGood, RequestsGood, TextsDone, AnswersDone, RestDone
<1> QED BY <1>2 DEF RecordsInv, RecordsGood, RowsTyped, MergeGood, ArrivalsGood, TeachingGood,
    FaultsCounted

\* What is at no statement, and not completed, is owed nothing.
LEMMA NothingOwed ==
  ASSUME NEW outcome \in {"NONE", "PROCESSING", "FAILED"}
  PROVE  /\ [NoErasure EXCEPT !.status = outcome] \in ErasureRequests
         /\ RequestGood([NoErasure EXCEPT !.status = outcome])
         /\ ~MayBeOwed([NoErasure EXCEPT !.status = outcome])
<1>1. [texts |-> {}, answers |-> {}] \in ErasureDues /\ 0 \in 0..7
  BY DEF ErasureDues
<1>2. NoErasure \in ErasureRequests /\ NoErasure.at = 0
  BY <1>1 DEF NoErasure, ErasureRequests
<1> DEFINE y == [NoErasure EXCEPT !.status = outcome]
<1>4. y \in ErasureRequests /\ y.at = 0 /\ y.status = outcome
  BY <1>2 DEF ErasureRequests
<1> HIDE DEF y
<1>5. RequestGood(y) /\ ~MayBeOwed(y)
  BY <1>4 DEF RequestGood, MayBeOwed
<1> QED BY <1>4, <1>5 DEF y

\* A request that starts is due what the customer has, all of which it will find.
LEMMA StartErasureStep ==
  ASSUME RecordsInv, NEW e \in Erasures, NEW c \in Customers, StartErasure(e, c)
  PROVE  RecordsInv'
<1>0. UNCHANGED <<contact, thread, message, call, answers, merging, arriving, teaching, recordFaults>> /\ recordFaults \in 0..RecordFaults
  BY DEF StartErasure, RecordsInv, RecordsGood, FaultsCounted
<1>1. CASE contact[c].row = "gone"
  <2>1. erasure' = [erasure EXCEPT ![e] = [NoErasure EXCEPT !.status = "FAILED"]]
    BY <1>1 DEF StartErasure
  <2> DEFINE y == [NoErasure EXCEPT !.status = "FAILED"]
  <2>2. y \in ErasureRequests /\ RequestGood(y) /\ ~MayBeOwed(y)
    BY NothingOwed
  <2> HIDE DEF y
  <2>3. TextsErased(y, message) /\ AnswersErased(y, answers, thread, teaching) /\ RestErased(y, call, contact)
    BY <2>2 DEF TextsErased, AnswersErased, RestErased
  <2>4. erasure' = [erasure EXCEPT ![e] = y]
    BY <2>1 DEF y
  <2> QED BY <1>0, <2>2, <2>3, <2>4, RequestChanges
<1>2. CASE contact[c].row # "gone"
  <2>1. PICK purge \in BOOLEAN :
          erasure' = [erasure EXCEPT ![e] =
            [at |-> 1, status |-> "PROCESSING", of |-> {c}, purge |-> purge, ids |-> {},
             due |-> [texts |-> {m \in Written : message[m].of = {c}},
                      answers |-> {a \in answers : thread[a.thread] = {c}}],
             overlapped |-> FALSE]]
    BY <1>2 DEF StartErasure
  <2> DEFINE owed == [texts |-> {m \in Written : message[m].of = {c}}, answers |-> {a \in answers : thread[a.thread] = {c}}]
             y == [at |-> 1, status |-> "PROCESSING", of |-> {c}, purge |-> purge, ids |-> {}, due |-> owed, overlapped |-> FALSE]
  <2>2. owed \in ErasureDues
    BY DEF RecordsInv, RecordsGood, RowsTyped, ErasureDues
  <2>3. y \in ErasureRequests
    <3>1. 1 \in 0..7
      OBVIOUS
    <3> HIDE DEF owed
    <3> QED BY <2>2, <3>1 DEF ErasureRequests
  <2>4. y.at = 1 /\ y.of = {c} /\ y.status = "PROCESSING" /\ y.due.texts = {m \in Written : message[m].of = {c}}
        /\ y.due.answers = {a \in answers : thread[a.thread] = {c}}
    OBVIOUS
  <2> HIDE DEF y
  <2>5. RequestGood(y)
    BY <2>3, <2>4 DEF RequestGood
  <2>6. TextsErased(y, message)
    <3>1. \A m \in Written : message[m].of = {c} => message[m].text # "none"
      BY DEF RecordsInv, RecordsGood, ArrivalsGood
    <3>2. ~PastStatement(y, TextsAt(y))
      BY <2>4 DEF PastStatement, TextsAt
    <3> QED BY <2>4, <3>1, <3>2 DEF TextsErased
  <2>7. AnswersErased(y, answers, thread, teaching)
    <3>1. \A a \in answers : a.since => teaching.at = "done"
      BY DEF RecordsInv, RecordsGood, TeachingGood
    <3>2. ~PastStatement(y, IdsAt(y))
      BY <2>4 DEF PastStatement, IdsAt
    <3> QED BY <2>4, <3>1, <3>2 DEF AnswersErased
  <2>8. RestErased(y, call, contact)
    <3>1. ~PastStatement(y, TurnsAt(y)) /\ ~PastStatement(y, CallAt(y)) /\ y.at # 0
      BY <2>4 DEF PastStatement, TurnsAt, CallAt
    <3> QED BY <3>1 DEF RestErased
  <2>9. erasure' = [erasure EXCEPT ![e] = y]
    BY <2>1 DEF y
  <2> QED BY <1>0, <2>3, <2>5, <2>6, <2>7, <2>8, <2>9, RequestChanges
<1> QED BY <1>1, <1>2

\* A request that fails promises nothing.
LEMMA ErasureStopsStep ==
  ASSUME RecordsInv, NEW e \in Erasures, ErasureStops(e)
  PROVE  RecordsInv'
<1>1. PICK outcome \in {"FAILED", "PROCESSING"} : erasure' = [erasure EXCEPT ![e] = [NoErasure EXCEPT !.status = outcome]]
  BY DEF ErasureStops
<1>2. UNCHANGED <<contact, thread, message, call, answers, merging, arriving, teaching>> /\ recordFaults' \in 0..RecordFaults
  BY RecordsAssumption DEF ErasureStops, RecordsInv, RecordsGood, FaultsCounted
<1> DEFINE y == [NoErasure EXCEPT !.status = outcome]
<1>3. y \in ErasureRequests /\ RequestGood(y) /\ ~MayBeOwed(y)
  BY NothingOwed
<1> HIDE DEF y
<1>4. TextsErased(y, message) /\ AnswersErased(y, answers, thread, teaching) /\ RestErased(y, call, contact)
  BY <1>3 DEF TextsErased, AnswersErased, RestErased
<1>5. erasure' = [erasure EXCEPT ![e] = y]
  BY <1>1 DEF y
<1> QED BY <1>2, <1>3, <1>4, <1>5, RequestChanges

\* Where a request's statement changes contactRows, and what it leaves alone.
LEMMA StatementKeeps ==
  ASSUME RecordsInv, NEW e \in Erasures, TakesStatement(e), RowsTyped', ArrivalsGood', TeachingGood', TextsStay, AnswersStay, RestStays,
         UNCHANGED <<merging, recordFaults>>,
         \A f \in Erasures \ {e} : erasure'[f].overlapped \/ erasure[f].at = 0 \/ ThreadsStay(erasure[f].of),
         TextsErased(erasure'[e], message'), AnswersErased(erasure'[e], answers', thread', teaching'),
         RestErased(erasure'[e], call', contact')
  PROVE  RecordsInv'
<1>1. RequestsGood' /\ TextsDone' /\ AnswersDone' /\ RestDone'
  BY OtherRequestsStay
<1> QED BY <1>1 DEF RecordsInv, RecordsGood, MergeGood, FaultsCounted

\* The three parts of what a request is owed, in the present.
IsDue(e) ==
  /\ TextsErased(erasure[e], message) /\ AnswersErased(erasure[e], answers, thread, teaching)
  /\ RestErased(erasure[e], call, contact)

\* What the invariant says of one request.
LEMMA IsOwed == ASSUME RecordsInv, NEW e \in Erasures PROVE IsDue(e)
BY DEF RecordsInv, TextsDone, AnswersDone, RestDone, IsDue

\* The places, as numbers, are apart.
LEMMA PlacesApart ==
  ASSUME NEW x \in ErasureRequests
  PROVE  /\ TextsAt(x) \notin {TurnsAt(x), CallAt(x), IdsAt(x), AnswersAt(x), LastAt(x)}
         /\ TurnsAt(x) \notin {CallAt(x), IdsAt(x), AnswersAt(x), LastAt(x)}
         /\ CallAt(x) \notin {IdsAt(x), AnswersAt(x), LastAt(x)}
         /\ IdsAt(x) < AnswersAt(x) /\ AnswersAt(x) < LastAt(x) /\ IdsAt(x) < LastAt(x) /\ CallAt(x) < LastAt(x) /\ TurnsAt(x) < LastAt(x)
         /\ AnswersAt(x) = IdsAt(x) + 1 /\ IdsAt(x) # AnswersAt(x)
         /\ x.purge => 6 \notin {TextsAt(x), TurnsAt(x), CallAt(x), IdsAt(x), AnswersAt(x), LastAt(x)} /\ IdsAt(x) < 6
         /\ {TextsAt(x), TurnsAt(x), CallAt(x), IdsAt(x), AnswersAt(x), LastAt(x)} \subseteq 1..LastAt(x)
<1>1. CASE x.purge
  BY <1>1 DEF TextsAt, TurnsAt, CallAt, IdsAt, AnswersAt, LastAt
<1>2. CASE ~x.purge
  BY <1>2 DEF TextsAt, TurnsAt, CallAt, IdsAt, AnswersAt, LastAt
<1> QED BY <1>1, <1>2

\* The messages of the customer are erased, which were due.
LEMMA EraseTextsStep == ASSUME RecordsInv, NEW e \in Erasures, EraseTexts(e) PROVE RecordsInv'
<1> DEFINE x == erasure[e]  y == erasure'[e]
<1>1. /\ EraseStep(e, "texts") /\ UNCHANGED <<merging, arriving, teaching, recordFaults, contact, thread, call, answers>>
      /\ message' = [m \in Written |->
           IF message[m].of # x.of THEN message[m]
           ELSE IF x.purge THEN [of |-> {}, thread |-> {}, text |-> "gone"] ELSE [message[m] EXCEPT !.text = "token"]]
  BY DEF EraseTexts, EraseStep
<1>2. TakesStatement(e) /\ x \in ErasureRequests /\ y \in ErasureRequests /\ x.at = TextsAt(x) /\ (\E c \in Customers : x.of = {c})
  BY <1>1, EraseStepTakes
<1>3. TakesOne(x, y) /\ IsDue(e)
  BY <1>2, IsOwed DEF TakesStatement
<1>4. ASSUME NEW m \in Written
      PROVE  /\ message'[m] \in MessageRows /\ (message'[m] = message[m] \/ message'[m].text \in {"token", "gone"})
             /\ message[m].of = x.of => message'[m].text \in {"token", "gone"}
  <2>1. message[m] \in MessageRows
    BY DEF RecordsInv, RecordsGood, RowsTyped
  <2>2. \/ message[m].of # x.of /\ message'[m] = message[m]
        \/ message'[m] = [of |-> {}, thread |-> {}, text |-> "gone"]
        \/ message'[m] = [message[m] EXCEPT !.text = "token"]
    BY <1>1
  <2> QED BY <2>1, <2>2 DEF MessageRows
<1>5. message' \in [Written -> MessageRows] /\ TextsStay /\ AnswersStay /\ RestStays /\ \A of : ThreadsStay(of)
  BY <1>1, <1>4 DEF TextsStay, AnswersStay, RestStays, ThreadsStay
<1>6. RowsTyped' /\ TeachingGood'
  BY <1>1, <1>5 DEF RecordsInv, RecordsGood, RowsTyped, TeachingGood
<1>7. ArrivalsGood'
  <2>1. \A m \in Arrivals : m \in Written /\ (message'[m].text # "none" => message[m].text # "none")
    <3> SUFFICES ASSUME NEW m \in Arrivals, message[m].text = "none" PROVE m \in Written /\ message'[m].text = "none"
      BY DEF Written
    <3>1. m \in Written /\ message[m].of = {} /\ x.of # {}
      BY <1>2 DEF Written, RecordsInv, RecordsGood, ArrivalsGood
    <3> QED BY <1>1, <3>1
  <2>2. \A m \in Written : message'[m].text = "none" => message'[m].of = {} /\ message'[m].thread = {}
    BY <1>4 DEF RecordsInv, RecordsGood, ArrivalsGood
  <2> QED BY <1>1, <2>1, <2>2 DEF RecordsInv, RecordsGood, ArrivalsGood
<1> HIDE DEF x, y
<1>8. TextsErased(y, message')
  <2> SUFFICES ASSUME ~y.overlapped, NEW m \in y.due.texts PROVE message'[m].text \in {"token", "gone"}
    BY DEF TextsErased
  <2>1. MayBeOwed(x) /\ ~x.overlapped /\ m \in x.due.texts /\ m \in Written
    BY <1>2, <1>3, AdvancesPast DEF TakesOne, ErasureRequests, ErasureDues
  <2>2. message[m].text \in {"token", "gone"} \/ message[m].of = x.of
    BY <1>3, <2>1 DEF IsDue, TextsErased, x
  <2> QED BY <1>4, <2>1, <2>2
<1>9. AnswersErased(y, answers', thread', teaching')
  BY <1>2, <1>3, <1>5, AnswersOwed, PlacesApart DEF IsDue, x
<1>10. RestErased(y, call', contact')
  BY <1>2, <1>3, <1>5, RestOwed, PlacesApart DEF IsDue, x
<1> QED BY <1>1, <1>2, <1>5, <1>6, <1>7, <1>8, <1>9, <1>10, StatementKeeps DEF y

\* The transcripts.
LEMMA EraseTurnsStep == ASSUME RecordsInv, NEW e \in Erasures, EraseTurns(e) PROVE RecordsInv'
<1> DEFINE x == erasure[e]  y == erasure'[e]
<1>1. /\ EraseStep(e, "turns") /\ UNCHANGED <<merging, arriving, teaching, recordFaults, contact, thread, message, answers>>
      /\ call' = [c \in Customers |->
           IF c \notin x.of THEN call[c]
           ELSE [call[c] EXCEPT !.turns = IF x.purge \/ call[c].turns = "gone" THEN "gone" ELSE "token"]]
  BY DEF EraseTurns, EraseStep
<1>2. TakesStatement(e) /\ x \in ErasureRequests /\ y \in ErasureRequests /\ x.at = TurnsAt(x)
  BY <1>1, EraseStepTakes
<1>3. TakesOne(x, y) /\ IsDue(e)
  BY <1>2, IsOwed DEF TakesStatement
<1>4. ASSUME NEW c \in Customers
      PROVE  /\ call'[c] \in CallRows /\ call'[c].summary = call[c].summary
             /\ call'[c].turns = "words" => (call[c].turns = "words" /\ c \notin x.of)
  <2>1. call[c] \in CallRows
    BY DEF RecordsInv, RecordsGood, RowsTyped
  <2>2. \/ c \notin x.of /\ call'[c] = call[c]
        \/ call'[c] = [call[c] EXCEPT !.turns = "gone"]
        \/ call'[c] = [call[c] EXCEPT !.turns = "token"]
    <3>1. CASE c \notin x.of
      BY <1>1, <3>1
    <3>2. CASE c \in x.of /\ (x.purge \/ call[c].turns = "gone")
      BY <1>1, <3>2
    <3>3. CASE c \in x.of /\ ~(x.purge \/ call[c].turns = "gone")
      BY <1>1, <3>3
    <3> QED BY <3>1, <3>2, <3>3
  <2> QED BY <2>1, <2>2 DEF CallRows
<1>5. call' \in [Customers -> CallRows] /\ TextsStay /\ AnswersStay /\ RestStays /\ \A of : ThreadsStay(of)
  BY <1>1, <1>4 DEF TextsStay, AnswersStay, RestStays, ThreadsStay
<1>6. RowsTyped' /\ TeachingGood' /\ ArrivalsGood'
  BY <1>1, <1>5 DEF RecordsInv, RecordsGood, RowsTyped, TeachingGood, ArrivalsGood
<1> HIDE DEF x, y
<1>7. RestErased(y, call', contact')
  <2>1. y.of = x.of /\ x.of \subseteq Customers /\ MayBeOwed(x) /\ y.at # 0
        /\ (PastStatement(y, CallAt(y)) <=> PastStatement(x, CallAt(x)))
    BY <1>2, <1>3, AdvancesPast, PlacesApart DEF TakesOne, ErasureRequests
  <2> QED BY <1>3, <1>4, <2>1 DEF IsDue, RestErased, x
<1>8. AnswersErased(y, answers', thread', teaching')
  BY <1>2, <1>3, <1>5, AnswersOwed, PlacesApart DEF IsDue, x
<1>9. TextsErased(y, message')
  BY <1>2, <1>3, <1>5, TextsOwed, PlacesApart DEF IsDue, x
<1> QED BY <1>1, <1>2, <1>5, <1>6, <1>7, <1>8, <1>9, StatementKeeps DEF y

\* The summaries.
LEMMA EraseCallStep == ASSUME RecordsInv, NEW e \in Erasures, EraseCall(e) PROVE RecordsInv'
<1> DEFINE x == erasure[e]  y == erasure'[e]
<1>1. /\ EraseStep(e, "call") /\ UNCHANGED <<merging, arriving, teaching, recordFaults, contact, thread, message, answers>>
      /\ call' = [c \in Customers |->
           IF c \notin x.of THEN call[c]
           ELSE IF x.purge THEN [turns |-> "gone", summary |-> FALSE, structured |-> FALSE]
           ELSE [call[c] EXCEPT !.summary = FALSE]]
  BY DEF EraseCall, EraseStep
<1>2. TakesStatement(e) /\ x \in ErasureRequests /\ y \in ErasureRequests /\ x.at = CallAt(x)
  BY <1>1, EraseStepTakes
<1>3. TakesOne(x, y) /\ IsDue(e)
  BY <1>2, IsOwed DEF TakesStatement
<1>4. ASSUME NEW c \in Customers
      PROVE  /\ call'[c] \in CallRows /\ (call'[c].summary => call[c].summary /\ c \notin x.of)
             /\ call'[c].turns = "words" => call[c].turns = "words"
  <2>1. call[c] \in CallRows
    BY DEF RecordsInv, RecordsGood, RowsTyped
  <2>2. \/ c \notin x.of /\ call'[c] = call[c]
        \/ call'[c] = [turns |-> "gone", summary |-> FALSE, structured |-> FALSE]
        \/ call'[c] = [call[c] EXCEPT !.summary = FALSE]
    <3>1. CASE c \notin x.of
      BY <1>1, <3>1
    <3>2. CASE c \in x.of /\ x.purge
      BY <1>1, <3>2
    <3>3. CASE c \in x.of /\ ~x.purge
      BY <1>1, <3>3
    <3> QED BY <3>1, <3>2, <3>3
  <2>3. [turns |-> "gone", summary |-> FALSE, structured |-> FALSE] \in CallRows
    BY DEF CallRows
  <2> QED BY <2>1, <2>2, <2>3 DEF CallRows
<1>5. call' \in [Customers -> CallRows] /\ TextsStay /\ AnswersStay /\ RestStays /\ \A of : ThreadsStay(of)
  BY <1>1, <1>4 DEF TextsStay, AnswersStay, RestStays, ThreadsStay
<1>6. RowsTyped' /\ TeachingGood' /\ ArrivalsGood'
  BY <1>1, <1>5 DEF RecordsInv, RecordsGood, RowsTyped, TeachingGood, ArrivalsGood
<1> HIDE DEF x, y
<1>7. RestErased(y, call', contact')
  <2>1. y.of = x.of /\ x.of \subseteq Customers /\ MayBeOwed(x) /\ y.at # 0
        /\ (PastStatement(y, TurnsAt(y)) <=> PastStatement(x, TurnsAt(x)))
    BY <1>2, <1>3, AdvancesPast, PlacesApart DEF TakesOne, ErasureRequests
  <2> QED BY <1>3, <1>4, <2>1 DEF IsDue, RestErased, x
<1>8. AnswersErased(y, answers', thread', teaching')
  BY <1>2, <1>3, <1>5, AnswersOwed, PlacesApart DEF IsDue, x
<1>9. TextsErased(y, message')
  BY <1>2, <1>3, <1>5, TextsOwed, PlacesApart DEF IsDue, x
<1> QED BY <1>1, <1>2, <1>5, <1>6, <1>7, <1>8, <1>9, StatementKeeps DEF y

\* The conversations of the answers due are found, for they are the customer's still.
LEMMA ReadIdsStep == ASSUME RecordsInv, NEW e \in Erasures, ReadIds(e) PROVE RecordsInv'
<1> DEFINE x == erasure[e]  y == erasure'[e]
<1>1. EraseStep(e, "ids") /\ UNCHANGED <<merging, arriving, teaching, recordFaults, contact, thread, message, call, answers>>
  BY DEF ReadIds, EraseStep
<1>2. TakesStatement(e) /\ x \in ErasureRequests /\ y \in ErasureRequests /\ x.at = IdsAt(x) /\ y.ids = {t \in Customers : thread[t] = x.of}
  BY <1>1, EraseStepTakes
<1>3. TakesOne(x, y) /\ IsDue(e)
  BY <1>2, IsOwed DEF TakesStatement
<1>5. TextsStay /\ AnswersStay /\ RestStays /\ \A of : ThreadsStay(of)
  BY <1>1 DEF TextsStay, AnswersStay, RestStays, ThreadsStay
<1>6. RowsTyped' /\ TeachingGood' /\ ArrivalsGood'
  BY <1>1 DEF RecordsInv, RecordsGood, RowsTyped, TeachingGood, ArrivalsGood
<1> HIDE DEF x, y
<1>7. RestErased(y, call', contact')
  BY <1>2, <1>3, <1>5, RestOwed, PlacesApart DEF IsDue, x
<1>8. AnswersErased(y, answers', thread', teaching')
  <2>1. IdsAt(x) \in 1..LastAt(x) /\ AnswersAt(x) \in 1..LastAt(x) /\ IdsAt(x) # AnswersAt(x)
        /\ IdsAt(x) < AnswersAt(x) /\ IdsAt(x) \in Nat /\ x.at # 0
    BY <1>2, PlacesApart DEF IdsAt
  <2>2. ~PastStatement(x, IdsAt(x)) /\ ~PastStatement(x, AnswersAt(x))
    BY <1>2, <2>1 DEF PastStatement
  <2>3. PastStatement(y, IdsAt(y)) /\ ~PastStatement(y, AnswersAt(y)) /\ MayBeOwed(x)
    BY <1>2, <1>3, <2>1, <2>2, AdvancesPast
  <2> SUFFICES ASSUME ~y.overlapped, NEW a \in y.due.answers
               PROVE  /\ a.since => teaching'.at = "done"
                      /\ a \notin answers' \/ a.thread \in y.ids
    BY <2>3 DEF AnswersErased
  <2>4. ~x.overlapped /\ a \in x.due.answers /\ a.thread \in Customers
    BY <1>2, <1>3 DEF TakesOne, ErasureRequests, ErasureDues, AnswerRows
  <2>5. (a.since => teaching.at = "done") /\ (a \notin answers \/ thread[a.thread] = x.of)
    BY <1>3, <2>2, <2>3, <2>4 DEF IsDue, AnswersErased, x
  <2> QED BY <1>1, <1>2, <2>4, <2>5
<1>9. TextsErased(y, message')
  BY <1>2, <1>3, <1>5, TextsOwed, PlacesApart DEF IsDue, x
<1> QED BY <1>1, <1>2, <1>5, <1>6, <1>7, <1>8, <1>9, StatementKeeps DEF y

\* The answers by the conversations that were found.
LEMMA EraseAnswersStep == ASSUME RecordsInv, NEW e \in Erasures, EraseAnswers(e) PROVE RecordsInv'
<1> DEFINE x == erasure[e]  y == erasure'[e]
<1>1. /\ EraseStep(e, "answers") /\ UNCHANGED <<merging, arriving, teaching, recordFaults, contact, thread, message, call>>
      /\ answers' = {a \in answers : a.thread \notin x.ids}
  BY DEF EraseAnswers, EraseStep
<1>2. TakesStatement(e) /\ x \in ErasureRequests /\ y \in ErasureRequests /\ x.at = AnswersAt(x)
  BY <1>1, EraseStepTakes
<1>3. TakesOne(x, y) /\ IsDue(e)
  BY <1>2, IsOwed DEF TakesStatement
<1>5. TextsStay /\ AnswersStay /\ RestStays /\ \A of : ThreadsStay(of)
  BY <1>1 DEF TextsStay, AnswersStay, RestStays, ThreadsStay
<1>6. RowsTyped' /\ TeachingGood' /\ ArrivalsGood'
  BY <1>1 DEF RecordsInv, RecordsGood, RowsTyped, TeachingGood, ArrivalsGood
<1> HIDE DEF x, y
<1>7. RestErased(y, call', contact')
  BY <1>2, <1>3, <1>5, RestOwed, PlacesApart DEF IsDue, x
<1>8. AnswersErased(y, answers', thread', teaching')
  <2>1. IdsAt(x) < AnswersAt(x) /\ PastStatement(x, IdsAt(x)) /\ MayBeOwed(x)
    BY <1>2, <1>3, AdvancesPast, PlacesApart DEF PastStatement
  <2> SUFFICES ASSUME ~y.overlapped, NEW a \in y.due.answers
               PROVE  (a.since => teaching'.at = "done") /\ a \notin answers'
    BY DEF AnswersErased
  <2>2. ~x.overlapped /\ a \in x.due.answers
    BY <1>3 DEF TakesOne
  <2>3. (a.since => teaching.at = "done") /\ (a \notin answers \/ a.thread \in x.ids)
    BY <1>3, <2>1, <2>2 DEF IsDue, AnswersErased, x
  <2> QED BY <1>1, <2>3
<1>9. TextsErased(y, message')
  BY <1>2, <1>3, <1>5, TextsOwed, PlacesApart DEF IsDue, x
<1> QED BY <1>1, <1>2, <1>5, <1>6, <1>7, <1>8, <1>9, StatementKeeps DEF y

\* Conversations that are deleted take their messages with them, and are nobody else's.
LEMMA DropKeeps ==
  ASSUME RecordsInv, NEW mine \in SUBSET Customers, mine # {}, DropThreads({t \in Customers : thread[t] = mine}), UNCHANGED arriving
  PROVE  /\ thread' \in [Customers -> SUBSET Customers] /\ message' \in [Written -> MessageRows] /\ TextsStay
         /\ \A of : of # mine => ThreadsStay(of)
         /\ ArrivalsGood'
<1> DEFINE which == {t \in Customers : thread[t] = mine}
<1>1. /\ thread' = [t \in Customers |-> IF t \in which THEN {} ELSE thread[t]]
      /\ message' = [m \in Written |-> IF message[m].thread \cap which # {}
                                       THEN [of |-> {}, thread |-> {}, text |-> "gone"] ELSE message[m]]
  BY DEF DropThreads
<1>2. thread \in [Customers -> SUBSET Customers] /\ message \in [Written -> MessageRows]
  BY DEF RecordsInv, RecordsGood, RowsTyped
<1>3. thread' \in [Customers -> SUBSET Customers] /\ \A of : of # mine => ThreadsStay(of)
  BY <1>1, <1>2 DEF ThreadsStay
<1> HIDE DEF which
<1>4. [of |-> {}, thread |-> {}, text |-> "gone"] \in MessageRows
  BY DEF MessageRows
<1>5. message' \in [Written -> MessageRows] /\ \A m \in Written : message'[m] = message[m] \/ message'[m].text = "gone"
  BY <1>1, <1>2, <1>4
<1>6. TextsStay
  BY <1>5 DEF TextsStay
<1>7. ArrivalsGood'
  <2>1. \A m \in Arrivals : m \in Written /\ (message[m].text = "none" => message'[m] = message[m])
    <3> SUFFICES ASSUME NEW m \in Arrivals, message[m].text = "none" PROVE message'[m] = message[m] /\ m \in Written
      BY DEF Written
    <3>1. m \in Written /\ message[m].thread = {}
      BY DEF Written, RecordsInv, RecordsGood, ArrivalsGood
    <3> QED BY <1>1, <3>1
  <2>2. \A m \in Written : message'[m].text = "none" => message'[m] = message[m]
    BY <1>5
  <2> QED BY <2>1, <2>2 DEF RecordsInv, RecordsGood, ArrivalsGood
<1> QED BY <1>3, <1>5, <1>6, <1>7

\* The conversations go once their answers are gone, and mark the other requests.
LEMMA PurgeThreadsStep == ASSUME RecordsInv, NEW e \in Erasures, PurgeThreads(e) PROVE RecordsInv'
<1> DEFINE x == erasure[e]  y == erasure'[e]
<1>1. /\ EraseStep(e, "threads") /\ UNCHANGED <<merging, arriving, teaching, recordFaults, contact, call, answers>>
      /\ DropThreads({t \in Customers : thread[t] = x.of})
  BY DEF PurgeThreads, EraseStep
<1>2. /\ TakesStatement(e) /\ x \in ErasureRequests /\ y \in ErasureRequests /\ x.at = 6 /\ x.purge /\ (\E c \in Customers : x.of = {c})
      /\ \A f \in Erasures \ {e} : erasure[f].at > 0 /\ erasure[f].of = x.of => erasure'[f].overlapped
  BY <1>1, EraseStepTakes DEF DropsThreads
<1>3. TakesOne(x, y) /\ IsDue(e)
  BY <1>2, IsOwed DEF TakesStatement
<1>4. /\ thread' \in [Customers -> SUBSET Customers] /\ message' \in [Written -> MessageRows] /\ TextsStay
      /\ \A of : of # x.of => ThreadsStay(of)
      /\ ArrivalsGood'
  <2>1. x.of \in SUBSET Customers /\ x.of # {}
    BY <1>2
  <2> QED BY <1>1, <2>1, DropKeeps
<1>5. AnswersStay /\ RestStays
  BY <1>1 DEF AnswersStay, RestStays
<1>6. RowsTyped' /\ TeachingGood'
  BY <1>1, <1>4 DEF RecordsInv, RecordsGood, RowsTyped, TeachingGood
<1>7. \A f \in Erasures \ {e} : erasure'[f].overlapped \/ erasure[f].at = 0 \/ ThreadsStay(erasure[f].of)
  BY <1>2, <1>4 DEF RecordsInv, RecordsGood, RequestsGood, ErasureRequests
<1> HIDE DEF x, y
<1>8. PastStatement(x, IdsAt(x)) /\ x.at \notin {TextsAt(x), TurnsAt(x), CallAt(x), IdsAt(x), AnswersAt(x), LastAt(x)}
  BY <1>2, PlacesApart DEF PastStatement
<1>9. RestErased(y, call', contact')
  BY <1>2, <1>3, <1>5, <1>8, RestOwed DEF IsDue, x
<1>10. AnswersErased(y, answers', thread', teaching')
  BY <1>2, <1>3, <1>5, <1>8, AnswersOwed DEF IsDue, x
<1>11. TextsErased(y, message')
  BY <1>2, <1>3, <1>4, <1>8, TextsOwed DEF IsDue, x
<1> QED BY <1>1, <1>2, <1>4, <1>5, <1>6, <1>7, <1>9, <1>10, <1>11, StatementKeeps DEF y

\* The row loses what it said of the person, and with it goes what hangs on it.
LEMMA EraseContactStep == ASSUME RecordsInv, NEW e \in Erasures, EraseContact(e) PROVE RecordsInv'
<1> DEFINE x == erasure[e]  y == erasure'[e]
<1>1. /\ EraseStep(e, "contact") /\ UNCHANGED <<merging, arriving, teaching, recordFaults, call, answers>>
      /\ contact' = [c \in Customers |->
           IF c \notin x.of THEN contact[c]
           ELSE [row |-> IF x.purge \/ contact[c].row = "gone" THEN "gone" ELSE "deleted", phone |-> FALSE, name |-> FALSE]]
      /\ IF x.purge THEN DropThreads({t \in Customers : thread[t] = x.of}) ELSE UNCHANGED <<thread, message>>
  BY DEF EraseContact, EraseStep
<1>2. /\ TakesStatement(e) /\ x \in ErasureRequests /\ y \in ErasureRequests /\ x.at = LastAt(x) /\ (\E c \in Customers : x.of = {c})
      /\ \A f \in Erasures \ {e} : x.purge /\ erasure[f].at > 0 /\ erasure[f].of = x.of => erasure'[f].overlapped
  BY <1>1, EraseStepTakes DEF DropsThreads
<1>3. TakesOne(x, y) /\ IsDue(e)
  BY <1>2, IsOwed DEF TakesStatement
<1>4. /\ thread' \in [Customers -> SUBSET Customers] /\ message' \in [Written -> MessageRows] /\ TextsStay
      /\ \A of : of # x.of \/ ~x.purge => ThreadsStay(of)
      /\ ArrivalsGood'
  <2>1. CASE x.purge
    <3>1. x.of \in SUBSET Customers /\ x.of # {}
      BY <1>2
    <3> QED BY <1>1, <2>1, <3>1, DropKeeps
  <2>2. CASE ~x.purge
    <3>1. UNCHANGED <<thread, message, arriving>>
      BY <1>1, <2>2
    <3> QED BY <3>1 DEF TextsStay, ThreadsStay, RecordsInv, RecordsGood, RowsTyped, ArrivalsGood
  <2> QED BY <2>1, <2>2
<1>5. ASSUME NEW c \in Customers
      PROVE  /\ contact'[c] \in ContactRows
             /\ contact'[c] = contact[c] \/ (~contact'[c].phone /\ ~contact'[c].name /\ contact'[c].row # "live")
             /\ c \in x.of => ~contact'[c].phone /\ ~contact'[c].name /\ contact'[c].row # "live"
  <2>1. contact[c] \in ContactRows
    BY DEF RecordsInv, RecordsGood, RowsTyped
  <2>2. CASE c \notin x.of
    BY <1>1, <2>1, <2>2
  <2>3. CASE c \in x.of
    <3>1. PICK left \in {"gone", "deleted"} : contact'[c] = [row |-> left, phone |-> FALSE, name |-> FALSE]
      BY <1>1, <2>3
    <3> QED BY <3>1 DEF ContactRows
  <2> QED BY <2>2, <2>3
<1>6. contact' \in [Customers -> ContactRows] /\ AnswersStay /\ RestStays
  <2>1. contact' \in [Customers -> ContactRows]
    BY <1>1, <1>5
  <2>2. AnswersStay
    BY <1>1 DEF AnswersStay
  <2>3. RestStays
    BY <1>1, <1>5 DEF RestStays
  <2> QED BY <2>1, <2>2, <2>3
<1>7. RowsTyped' /\ TeachingGood'
  BY <1>1, <1>4, <1>6 DEF RecordsInv, RecordsGood, RowsTyped, TeachingGood
<1>8. \A f \in Erasures \ {e} : erasure'[f].overlapped \/ erasure[f].at = 0 \/ ThreadsStay(erasure[f].of)
  BY <1>2, <1>4 DEF RecordsInv, RecordsGood, RequestsGood, ErasureRequests
<1> HIDE DEF x, y
<1>9. /\ PastStatement(x, IdsAt(x)) /\ x.at \notin {TextsAt(x), TurnsAt(x), CallAt(x), IdsAt(x), AnswersAt(x)}
      /\ PastStatement(x, TurnsAt(x)) /\ PastStatement(x, CallAt(x))
  BY <1>2, PlacesApart DEF PastStatement
<1>10. RestErased(y, call', contact')
  <2>1. y.of = x.of /\ x.of \subseteq Customers /\ MayBeOwed(x)
    BY <1>2, <1>3, AdvancesPast DEF TakesOne, ErasureRequests
  <2>2. \A c \in x.of : call'[c].turns # "words" /\ ~call'[c].summary
    BY <1>1, <1>3, <1>9, <2>1 DEF IsDue, RestErased, x
  <2> QED BY <1>5, <2>1, <2>2 DEF RestErased
<1>11. AnswersErased(y, answers', thread', teaching')
  BY <1>2, <1>3, <1>6, <1>9, AnswersOwed DEF IsDue, x
<1>12. TextsErased(y, message')
  BY <1>2, <1>3, <1>4, <1>9, TextsOwed DEF IsDue, x
<1> QED BY <1>1, <1>2, <1>4, <1>6, <1>7, <1>8, <1>10, <1>11, <1>12, StatementKeeps DEF y

\* At the start nothing is due.
LEMMA RecordsStart == RecordsInit => RecordsInv
<1> SUFFICES ASSUME RecordsInit PROVE RecordsInv
  OBVIOUS
<1>1. \A m \in Arrivals : m \notin Customers
  BY RecordsAssumption
<1>2. RowsTyped
  <2>1. contact \in [Customers -> ContactRows] /\ thread \in [Customers -> SUBSET Customers] /\ call \in [Customers -> CallRows]
    BY DEF RecordsInit, ContactRows, CallRows
  <2>2. message \in [Written -> MessageRows]
    <3>1. \A m \in Customers : [of |-> {m}, thread |-> {m}, text |-> "words"] \in MessageRows
      BY DEF MessageRows
    <3>2. [of |-> {}, thread |-> {}, text |-> "none"] \in MessageRows
      BY DEF MessageRows
    <3> QED BY <3>1, <3>2 DEF RecordsInit
  <2>3. answers \subseteq AnswerRows
    BY DEF RecordsInit, AnswerRows
  <2> QED BY <2>1, <2>2, <2>3 DEF RowsTyped
<1>3. NoErasure \in ErasureRequests /\ NoErasure.at = 0 /\ ~MayBeOwed(NoErasure)
  BY DEF NoErasure, ErasureRequests, ErasureDues, MayBeOwed
<1>4. erasure \in [Erasures -> ErasureRequests] /\ \A e \in Erasures : erasure[e] = NoErasure
  BY <1>3 DEF RecordsInit
<1>5. RequestsGood /\ TextsDone /\ AnswersDone /\ RestDone
  BY <1>3, <1>4 DEF RequestsGood, RequestGood, TextsDone, AnswersDone, RestDone, TextsErased,
     AnswersErased, RestErased
<1>6. ArrivalsGood
  BY <1>1 DEF RecordsInit, ArrivalsGood, Written
<1>7. MergeGood /\ TeachingGood
  BY DEF RecordsInit, MergeGood, TeachingGood
<1>8. FaultsCounted
  BY RecordsAssumption DEF RecordsInit, FaultsCounted
<1> QED BY <1>2, <1>5, <1>6, <1>7, <1>8 DEF RecordsInv, RecordsGood

\* Every step keeps what the requests are due.
LEMMA RecordsStep == RecordsInv /\ [RecordsNext]_recordVars => RecordsInv'
<1> SUFFICES ASSUME RecordsInv, [RecordsNext]_recordVars PROVE RecordsInv'
  OBVIOUS
<1>1. ASSUME NEW c \in Customers, EditContact(c) \/ ImportContact(c) PROVE RecordsInv'
  BY <1>1, ContactsStep
<1>2. ASSUME NEW c \in Customers, NEW e \in Erasures, StartErasure(e, c) PROVE RecordsInv'
  BY <1>2, StartErasureStep
<1>3. ASSUME NEW p \in Merges, StartMerge(p[1], p[2]) PROVE RecordsInv'
  <2>1. p[1] \in Customers /\ p[2] \in Customers
    BY RecordsAssumption
  <2> QED BY <1>3, <2>1, StartMergeStep
<1>4. ASSUME NEW m \in Arrivals, FindSender(m) \/ StoreArrival(m) PROVE RecordsInv'
  BY <1>4, ArrivalsStep
<1>5. CASE KeepAnswer \/ \E t \in Customers : ReadExchange(t)
  BY <1>5, TeachingStep
<1>6. ASSUME NEW e \in Erasures,
             \/ EraseTexts(e) \/ EraseTurns(e) \/ EraseCall(e) \/ ReadIds(e) \/ EraseAnswers(e)
             \/ PurgeThreads(e) \/ EraseContact(e) \/ ErasureStops(e)
      PROVE  RecordsInv'
  BY <1>6, EraseTextsStep, EraseTurnsStep, EraseCallStep, ReadIdsStep, EraseAnswersStep,
     PurgeThreadsStep,
     EraseContactStep, ErasureStopsStep
<1>7. CASE UNCHANGED recordVars
  <2>1. UNCHANGED <<contact, thread, message, call, answers, erasure, merging, arriving, teaching, recordFaults>>
    BY <1>7 DEF recordVars
  <2>2. NoRequestMoves /\ TextsStay /\ AnswersStay /\ RestStays
    BY <2>1 DEF NoRequestMoves, TextsStay, AnswersStay, RestStays
  <2>3. RequestsGood' /\ TextsDone' /\ AnswersDone' /\ RestDone'
    BY <2>2, UnmovedIsQuiet
  <2> QED BY <2>1, <2>3 DEF RecordsInv, RecordsGood, RowsTyped, MergeGood, ArrivalsGood,
      TeachingGood, FaultsCounted
<1> QED BY <1>1, <1>2, <1>3, <1>4, <1>5, <1>6, <1>7, MoveThreadsStep, MoveMessagesStep,
    DeleteSourceStep, RetentionStep
        DEF RecordsNext

\* A request that is over, and was not overlapped, is due nothing more.
LEMMA RecordsMeans == RecordsInv => RecordsTypeOK /\ ErasedAsPromised
<1> SUFFICES ASSUME RecordsInv PROVE RecordsTypeOK /\ ErasedAsPromised
  OBVIOUS
<1>1. RowsTyped /\ RequestsGood /\ MergeGood /\ ArrivalsGood /\ TeachingGood /\ FaultsCounted
  BY DEF RecordsInv, RecordsGood
<1>2. ASSUME NEW e \in Erasures
      PROVE  /\ erasure[e].at \in 0 .. Len(StepsOf(e)) /\ erasure[e].of \subseteq Customers
             /\ erasure[e].status \in {"NONE", "PROCESSING", "COMPLETED", "FAILED"}
             /\ erasure[e].ids \subseteq Customers /\ erasure[e].due.texts \subseteq Written
  <2>1. erasure[e] \in ErasureRequests /\ RequestGood(erasure[e])
    BY <1>1 DEF RequestsGood
  <2>2. erasure[e].at \in 0 .. Len(StepsOf(e))
    <3>1. CASE erasure[e].purge
      <4>1. Len(StepsOf(e)) = 7
        BY <3>1 DEF StepsOf, PurgeSteps
      <4> QED BY <2>1, <4>1 DEF ErasureRequests
    <3>2. CASE ~erasure[e].purge
      <4>1. Len(StepsOf(e)) = 6
        BY <3>2 DEF StepsOf, TokenizeSteps
      <4> QED BY <2>1, <3>2, <4>1 DEF ErasureRequests, RequestGood
    <3> QED BY <3>1, <3>2
  <2> QED BY <2>1, <2>2 DEF ErasureRequests, ErasureDues
<1>3. RecordsTypeOK
  BY <1>1, <1>2 DEF RecordsTypeOK, RowsTyped, ContactRows, MessageRows, CallRows, AnswerRows,
     MergeGood, ArrivalsGood, TeachingGood, FaultsCounted
<1>4. ErasedAsPromised
  <2> SUFFICES ASSUME NEW e \in Erasures, erasure[e].status = "COMPLETED", ~erasure[e].overlapped
               PROVE  /\ \A m \in erasure[e].due.texts : message[m].text \in {"token", "gone"}
                      /\ answers \cap erasure[e].due.answers = {}
                      /\ \A c \in erasure[e].of :
                           /\ call[c].turns # "words" /\ ~call[c].summary
                           /\ ~contact[c].phone /\ ~contact[c].name
    BY DEF ErasedAsPromised
  <2>1. erasure[e].at = 0 /\ MayBeOwed(erasure[e])
    BY <1>1 DEF RequestsGood, RequestGood, ErasureRequests, MayBeOwed
  <2>2. \A n : PastStatement(erasure[e], n)
    BY <2>1 DEF PastStatement
  <2>3. TextsErased(erasure[e], message) /\ AnswersErased(erasure[e], answers, thread, teaching) /\ RestErased(erasure[e], call, contact)
    BY DEF RecordsInv, TextsDone, AnswersDone, RestDone
  <2>4. \A m \in erasure[e].due.texts : message[m].text \in {"token", "gone"}
    BY <2>1, <2>2, <2>3 DEF TextsErased
  <2>5. answers \cap erasure[e].due.answers = {}
    BY <2>1, <2>2, <2>3 DEF AnswersErased
  <2>6. \A c \in erasure[e].of : call[c].turns # "words" /\ ~call[c].summary /\ ~contact[c].phone /\ ~contact[c].name
    BY <2>1, <2>2, <2>3 DEF RestErased
  <2> QED BY <2>4, <2>5, <2>6
<1> QED BY <1>3, <1>4

\* The records keep their types (contacts.service.ts, erasure.service.ts).
THEOREM RecordsTypeCorrect == RecordsSpec => []RecordsTypeOK
<1>1. RecordsSpec => []RecordsInv
  BY RecordsStart, RecordsStep, PTL DEF RecordsSpec
<1> QED BY <1>1, RecordsMeans, PTL

\* Once a request is COMPLETED nothing is left of what the customer had when it started, unless a merge or another erasure came in between (ErasureService.eraseContact, tokenize, purge).
THEOREM RecordsCorrect == RecordsSpec => []ErasedAsPromised
<1>1. RecordsSpec => []RecordsInv
  BY RecordsStart, RecordsStep, PTL DEF RecordsSpec
<1> QED BY <1>1, RecordsMeans, PTL

-----------------------------------------------------------------------------
(* The parts together *)

\* Each part starts as it does alone.
LEMMA PartsStart ==
  ASSUME Init
  PROVE  /\ InboundInit /\ AuthInit /\ SubscriptionInit /\ BrowserInit /\ OpeningInit /\ ThrottleInit
         /\ IngestionInit /\ VersionsInit /\ NumbersInit /\ VerificationInit /\ SpendingInit
         /\ IntakeInit /\ DraftsInit /\ SitesInit /\ PricesInit /\ IdentityInit
         /\ RecordsInit /\ ConversationInit /\ DialogueInit /\ LinesInit /\ RolesInit
BY DEF Init

\* And moves as it does alone, or not at all.
LEMMA PartsMove ==
  ASSUME [Next]_vars
  PROVE  /\ [InboundNext]_inboundVars /\ [AuthNext]_authVars /\ [SubscriptionNext]_subVars
         /\ [BrowserNext]_browserVars /\ [OpeningNext]_openingVars /\ [ThrottleNext]_throttleVars
         /\ [IngestionNext]_kbVars /\ [VersionsNext]_versionVars /\ [NumbersNext]_numberVars
         /\ [VerificationNext]_verificationVars /\ [SpendingNext]_spendVars
         /\ [IntakeNext]_intakeVars /\ [DraftsNext]_draftVars /\ [SitesNext]_siteVars
         /\ [PricesNext]_priceVars /\ [IdentityNext]_identityVars
         /\ [RecordsNext]_recordVars /\ [ConversationNext]_convVars /\ [DialogueNext]_dialogueVars
         /\ [LinesNext]_lineVars /\ [RolesNext]_roleVars
<1>1. CASE Next
  BY <1>1 DEF Next, Only
<1>2. CASE UNCHANGED vars
  BY <1>2 DEF vars
<1> QED BY <1>1, <1>2

\* From the opening of an account to its subscription, with any parts running beside it.
THEOREM AccountsAreSafe == Spec => []AccountsHold
<1>1. Spec => OpeningSpec /\ ThrottleSpec /\ AuthSpec /\ BrowserSpec /\ SubscriptionSpec /\ RolesSpec
  BY PartsStart, PartsMove, PTL DEF Spec, OpeningSpec, ThrottleSpec, AuthSpec, BrowserSpec,
     SubscriptionSpec, RolesSpec
<1>2. OpeningsHold /\ ThrottleHolds /\ AccountHolds /\ BrowserHolds /\ SubscribedAsAsked /\ RolesHold
        => AccountsHold
  BY DEF AccountsHold
<1> QED BY <1>1, <1>2, OpeningsWhole, ThrottleCorrect, AccountCorrect, BrowserCorrect,
    SubscribedCorrect, RolesCorrect, PTL

\* Codes, attempts, budgets and numbers (verification.service, voice-usage.service, voice-numbers.service).
THEOREM CallsAreSafe == Spec => []CallsHold
<1>1. Spec => VerificationSpec /\ SpendingSpec /\ NumbersSpec
  BY PartsStart, PartsMove, PTL DEF Spec, VerificationSpec, SpendingSpec, NumbersSpec
<1>2. VerificationHolds /\ SpendingHolds /\ NumbersAreHeld => CallsHold
  BY DEF CallsHold
<1> QED BY <1>1, <1>2, VerificationCorrect, SpendingCorrect, NumbersCorrect, PTL

\* From a file of numbers to the texts of a campaign.
THEOREM OutreachIsSafe == Spec => []OutreachHolds
<1>1. Spec => IntakeSpec /\ DraftsSpec /\ SitesSpec /\ PricesSpec /\ IdentitySpec
  BY PartsStart, PartsMove, PTL DEF Spec, IntakeSpec, DraftsSpec, SitesSpec, PricesSpec,
     IdentitySpec
<1>2. LeadsAreAccounted /\ DraftsHold /\ ProfilesHold /\ PricesHold /\ IdentityHolds => OutreachHolds
  BY DEF OutreachHolds
<1> QED BY <1>1, <1>2, LeadsAreCounted, DraftsCorrect, SitesCorrect, PricesCorrect,
    IdentityCorrect, PTL

\* Whichever part runs keeps its types.
THEOREM PlatformTypeCorrect == Spec => []PlatformTypeOK
<1>1. Spec => AuthSpec /\ SubscriptionSpec /\ BrowserSpec /\ OpeningSpec /\ ThrottleSpec /\ RolesSpec
  BY PartsStart, PartsMove, PTL DEF Spec, AuthSpec, SubscriptionSpec, BrowserSpec, OpeningSpec,
     ThrottleSpec, RolesSpec
<1>2. Spec => VersionsSpec /\ NumbersSpec /\ VerificationSpec /\ SpendingSpec /\ ConversationSpec /\ DialogueSpec
  BY PartsStart, PartsMove, PTL DEF Spec, VersionsSpec, NumbersSpec, VerificationSpec, SpendingSpec,
     ConversationSpec, DialogueSpec
<1>3. Spec => IntakeSpec /\ DraftsSpec /\ SitesSpec /\ PricesSpec /\ IdentitySpec /\ LinesSpec /\ IngestionSpec /\ RecordsSpec
  BY PartsStart, PartsMove, PTL DEF Spec, IntakeSpec, DraftsSpec, SitesSpec, PricesSpec, IdentitySpec,
     LinesSpec, IngestionSpec, RecordsSpec
<1> DEFINE People == InboundTypeOK /\ AuthTypeOK /\ SubscriptionTypeOK /\ BrowserTypeOK /\ OpeningTypeOK
                     /\ ThrottleTypeOK /\ RolesTypeOK
           OnCalls == VersionsTypeOK /\ NumbersTypeOK /\ VerificationTypeOK /\ SpendingTypeOK
                      /\ ConversationTypeOK /\ DialogueTypeOK
           InSales == IntakeTypeOK /\ DraftsTypeOK /\ SitesTypeOK /\ PricesTypeOK /\ IdentityTypeOK
                      /\ LinesTypeOK /\ IngestionTypeOK /\ RecordsTypeOK
<1>4. Spec => []People
  BY <1>1, PartsStart, PartsMove, InvariantHolds, InboundMeansTypes, AuthTypeCorrect, SubscriptionTypeCorrect, BrowserTypeCorrect, OpeningTypeCorrect,
     ThrottleTypeCorrect, RolesTypeCorrect, PTL DEF Spec
<1>5. Spec => []OnCalls
  BY <1>2, VersionsTypeCorrect, NumbersTypeCorrect, VerificationTypeCorrect, SpendingTypeCorrect,
     ConversationTypeCorrect, DialogueTypeCorrect, PTL
<1>6. Spec => []InSales
  BY <1>3, IntakeTypeCorrect, SitesTypeCorrect, DraftsTypeCorrect, PricesTypeCorrect, IdentityTypeCorrect,
     LinesTypeCorrect, IngestionTypeCorrect, RecordsTypeCorrect, PTL
<1>7. People /\ OnCalls /\ InSales => PlatformTypeOK
  BY DEF PlatformTypeOK
<1> QED BY <1>4, <1>5, <1>6, <1>7, PTL
=============================================================================
