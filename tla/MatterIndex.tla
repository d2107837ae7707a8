---------------------------- MODULE MatterIndex ----------------------------
(***************************************************************************)
(* The documents of one matter, from upload to searchable and out again:   *)
(* the request handlers of api/routes/matters.py on the event loop, the    *)
(* ingest job of matters/ingest.py on a worker thread, and the three       *)
(* stores they write - the matter record, the uploaded files and the       *)
(* matter's chunks in Weaviate.  No transaction spans the three, and no    *)
(* lock keeps two jobs, or a job and a handler, off the same document.     *)
(*                                                                         *)
(* A handler body never awaits once it starts to write, so handlers run    *)
(* one at a time; but every store call of one is a step of its own here,   *)
(* because the worker threads run between them.  A MatterStore mutation is *)
(* one step: it is done under the store's lock.                            *)
(*                                                                         *)
(* Abstracted: a document's chunks are Batches insert batches, each either *)
(* in or not; parsing, embedding and the model calls only succeed or fail; *)
(* profile and topic tree leave all of this state alone.                   *)
(***************************************************************************)
EXTENDS Naturals, FiniteSets

CONSTANTS
  Docs,            \* content hashes: the same bytes are the same document
  NoDoc,           \* not a document
  Batches,         \* insert_many calls one document takes
  MaxConcurrency,  \* settings.ingest_concurrency, the registry's semaphore
  MaxUploads,      \* bound: uploads over the life of the model
  MaxRestarts      \* bound: process restarts

ASSUME NoDocAssumption == NoDoc \notin Docs
ASSUME BatchesAssumption == Batches \in Nat \ {0}
ASSUME ConcurrencyAssumption == MaxConcurrency \in Nat \ {0}
ASSUME BoundsAssumption == MaxUploads \in Nat /\ MaxRestarts \in Nat

VARIABLES
  record,      \* matter.json: the status of each document, or "absent"
  files,       \* documents whose uploaded bytes are on disk
  chunks,      \* copies of each insert batch of a document in the tenant
  at,          \* where each ingest job stands
  doc,         \* the document each job was submitted for
  batch,       \* the batch a job inserts next
  handler,     \* the request handler that holds the event loop
  restarts,    \* restarts so far
  stranded,    \* history: documents a restart caught mid-flight, not uploaded since
  overlapped   \* history: documents uploaded again while a job of theirs was live

stores  == <<record, files, chunks>>
jobs    == <<at, doc, batch>>
history == <<stranded, overlapped>>
vars    == <<stores, jobs, handler, restarts, history>>

Jobs     == 1..MaxUploads
BatchNos == 1..Batches
Status   == {"absent", "queued", "running", "indexed", "failed"}

\* A job that has not written its verdict on the document yet ...
Unsettled == {"waiting", "start", "clear", "insert", "index", "fail"}
\* ... a job holding one of the semaphore's slots ...
Running   == {"start", "clear", "insert", "index", "fail", "enrich", "finish"}
\* ... and a job that is still to do anything.
Live      == Unsettled \cup Running
JobSteps  == Live \cup {"unused", "done", "lost"}

\* What a handler does next.  A finished or idle handler holds nothing.
HandlerSteps == {"add", "submit", "purge", "unrecord", "unlink"}
Idle         == [at |-> "idle", doc |-> NoDoc]
Handling(d)  == handler.doc = d

JobsOf(d)  == {j \in Jobs : at[j] \in Live /\ doc[j] = d}
Holders    == {j \in Jobs : at[j] \in Running}
None       == [b \in BatchNos |-> 0]
Once       == [b \in BatchNos |-> 1]

\* Nothing is under way for d: what the stores say of it now is what stays.
Quiet(d) == JobsOf(d) = {} /\ ~Handling(d)

Init ==
  /\ record = [d \in Docs |-> "absent"]
  /\ files = {}
  /\ chunks = [d \in Docs |-> None]
  /\ at = [j \in Jobs |-> "unused"]
  /\ doc = [j \in Jobs |-> NoDoc]
  /\ batch = [j \in Jobs |-> 1]
  /\ handler = Idle
  /\ restarts = 0
  /\ stranded = {}
  /\ overlapped = {}

-----------------------------------------------------------------------------
(* POST /matters/{id}/documents: save_file, add_document, jobs.submit.     *)

\* A retried upload writes the same bytes over the same file.
SaveFile(d) ==
  /\ handler = Idle
  /\ \E j \in Jobs : at[j] = "unused"
  /\ files' = files \cup {d}
  /\ handler' = [at |-> "add", doc |-> d]
  /\ UNCHANGED <<record, chunks, jobs, restarts, history>>

\* The new record replaces the document's old one, whatever its status.
AddDocument ==
  /\ handler.at = "add"
  /\ record' = [record EXCEPT ![handler.doc] = "queued"]
  /\ handler' = [handler EXCEPT !.at = "submit"]
  /\ UNCHANGED <<files, chunks, jobs, restarts, history>>

\* The registry starts a task at once; it queues on the semaphore.
Submit(j) ==
  /\ handler.at = "submit"
  /\ at[j] = "unused"
  /\ \A i \in Jobs : i < j => at[i] # "unused"
  /\ at' = [at EXCEPT ![j] = "waiting"]
  /\ doc' = [doc EXCEPT ![j] = handler.doc]
  /\ handler' = Idle
  /\ stranded' = stranded \ {handler.doc}
  /\ overlapped' = IF JobsOf(handler.doc) = {}
                     THEN overlapped \ {handler.doc}
                     ELSE overlapped \cup {handler.doc}
  /\ UNCHANGED <<stores, batch, restarts>>

-----------------------------------------------------------------------------
(* DELETE /matters/{id}/documents/{doc_id}: delete_document.  It takes no  *)
(* notice of the document's status, nor of a job at work on it.            *)

\* Mutant: the record goes before the chunks.
RemoveDocument_RecordFirst(d) ==
  /\ handler = Idle
  /\ record[d] # "absent"
  /\ handler' = [at |-> "unrecord", doc |-> d]
  /\ UNCHANGED <<stores, jobs, restarts, history>>

\* A document the record does not list is a 404 and changes nothing.
RemoveDocument(d) ==
  /\ handler = Idle
  /\ record[d] # "absent"
  /\ handler' = [at |-> "purge", doc |-> d]
  /\ UNCHANGED <<stores, jobs, restarts, history>>

\* delete_many; when Weaviate refuses, the request fails with nothing changed.
PurgeChunks ==
  /\ handler.at = "purge"
  /\ \/ /\ chunks' = [chunks EXCEPT ![handler.doc] = None]
        /\ handler' = [handler EXCEPT !.at = "unrecord"]
     \/ /\ handler' = Idle
        /\ UNCHANGED chunks
  /\ UNCHANGED <<record, files, jobs, restarts, history>>

\* Mutant: the files go before the record.
RemoveRecord_FilesFirst ==
  /\ handler.at = "unrecord"
  /\ files' = files \ {handler.doc}
  /\ handler' = [handler EXCEPT !.at = "unlink"]
  /\ UNCHANGED <<record, chunks, jobs, restarts, history>>

\* store.remove_document, first half: the record, under the lock.
RemoveRecord ==
  /\ handler.at = "unrecord"
  /\ record' = [record EXCEPT ![handler.doc] = "absent"]
  /\ handler' = [handler EXCEPT !.at = "unlink"]
  /\ UNCHANGED <<files, chunks, jobs, restarts, history>>

\* store.remove_document, second half: the files, after the lock is released.
UnlinkFiles ==
  /\ handler.at = "unlink"
  /\ files' = files \ {handler.doc}
  /\ handler' = Idle
  /\ UNCHANGED <<record, chunks, jobs, restarts, history>>

-----------------------------------------------------------------------------
(* The ingest job.                                                         *)

\* The semaphore wakes its waiters in the order they came.
Acquire(j) ==
  /\ handler = Idle
  /\ at[j] = "waiting"
  /\ \A i \in Jobs : i < j => at[i] # "waiting"
  /\ Cardinality(Holders) < MaxConcurrency
  /\ at' = [at EXCEPT ![j] = "start"]
  /\ UNCHANGED <<stores, doc, batch, handler, restarts, history>>

\* store.get, file_path and update_document(status="running").  The two reads
\* only decide whether the job gives up, so they are read at the update.
Start(j) ==
  /\ at[j] = "start"
  /\ IF record[doc[j]] # "absent" /\ doc[j] \in files
       THEN /\ record' = [record EXCEPT ![doc[j]] = "running"]
            /\ at' = [at EXCEPT ![j] = "clear"]
       ELSE /\ at' = [at EXCEPT ![j] = "finish"]
            /\ UNCHANGED record
  /\ UNCHANGED <<files, chunks, doc, batch, handler, restarts, history>>

\* Mutant: the old chunks are not cleared before the new ones are written.
ClearChunks_Keep(j) ==
  /\ at[j] = "clear"
  /\ batch' = [batch EXCEPT ![j] = 1]
  /\ at' = [at EXCEPT ![j] = "insert"]
  /\ UNCHANGED <<stores, doc, handler, restarts, history>>

\* chunk_file, then index_document up to its delete_many and embed_documents.
\* A file without text, or a failed call before the delete, leaves the old chunks.
ClearChunks(j) ==
  /\ at[j] = "clear"
  /\ \/ /\ chunks' = [chunks EXCEPT ![doc[j]] = None]
        /\ batch' = [batch EXCEPT ![j] = 1]
        /\ at' = [at EXCEPT ![j] = "insert"]
     \/ /\ chunks' \in {chunks, [chunks EXCEPT ![doc[j]] = None]}
        /\ at' = [at EXCEPT ![j] = "fail"]
        /\ UNCHANGED batch
  /\ UNCHANGED <<record, files, doc, handler, restarts, history>>

\* Mutant: the loop over the batches runs one start too far.
InsertBatch_OneTooMany(j) ==
  /\ at[j] = "insert"
  /\ chunks' = [chunks EXCEPT ![doc[j]][batch[j]] = @ + 1]
  /\ IF batch[j] > Batches
       THEN at' = [at EXCEPT ![j] = "index"] /\ UNCHANGED batch
       ELSE batch' = [batch EXCEPT ![j] = @ + 1] /\ UNCHANGED at
  /\ UNCHANGED <<record, files, doc, handler, restarts, history>>

\* Mutant: a failed insert escapes without the status being set.
InsertBatch_Uncaught(j) ==
  /\ at[j] = "insert"
  /\ at' = [at EXCEPT ![j] = "finish"]
  /\ UNCHANGED <<stores, doc, batch, handler, restarts, history>>

\* One insert_many.  One with errors may still have stored what it could.
InsertBatch(j) ==
  /\ at[j] = "insert"
  /\ \/ /\ chunks' = [chunks EXCEPT ![doc[j]][batch[j]] = @ + 1]
        /\ IF batch[j] = Batches
             THEN at' = [at EXCEPT ![j] = "index"] /\ UNCHANGED batch
             ELSE batch' = [batch EXCEPT ![j] = @ + 1] /\ UNCHANGED at
     \/ /\ chunks' \in {chunks, [chunks EXCEPT ![doc[j]][batch[j]] = @ + 1]}
        /\ at' = [at EXCEPT ![j] = "fail"]
        /\ UNCHANGED batch
  /\ UNCHANGED <<record, files, doc, handler, restarts, history>>

\* update_document raises KeyError when the document has been removed.
SetStatus(d, status) ==
  record' = IF record[d] = "absent" THEN record ELSE [record EXCEPT ![d] = status]

\* update_document(status="indexed"); page_count before it may fail.
MarkIndexed(j) ==
  /\ at[j] = "index"
  /\ \/ /\ SetStatus(doc[j], "indexed")
        /\ at' = [at EXCEPT ![j] = IF record[doc[j]] = "absent" THEN "fail" ELSE "enrich"]
     \/ /\ at' = [at EXCEPT ![j] = "fail"]
        /\ UNCHANGED record
  /\ UNCHANGED <<files, chunks, doc, batch, handler, restarts, history>>

MarkFailed(j) ==
  /\ at[j] = "fail"
  /\ SetStatus(doc[j], "failed")
  /\ at' = [at EXCEPT ![j] = "finish"]
  /\ UNCHANGED <<files, chunks, doc, batch, handler, restarts, history>>

\* Profile and topic tree: neither touches this state, nor does their failure.
Enrich(j) ==
  /\ at[j] = "enrich"
  /\ at' = [at EXCEPT ![j] = "finish"]
  /\ UNCHANGED <<stores, doc, batch, handler, restarts, history>>

\* Mutant: the slot is never given back.
Finish_Leak(j) ==
  /\ handler = Idle
  /\ at[j] = "finish"
  /\ UNCHANGED vars

\* Back on the loop: the slot is released.
Finish(j) ==
  /\ handler = Idle
  /\ at[j] = "finish"
  /\ at' = [at EXCEPT ![j] = "done"]
  /\ UNCHANGED <<stores, doc, batch, handler, restarts, history>>

-----------------------------------------------------------------------------
\* The process dies and comes back: disk and Weaviate survive, the registry and
\* whatever a handler was doing do not, and nothing resumes them.
Restart ==
  /\ restarts < MaxRestarts
  /\ restarts' = restarts + 1
  /\ at' = [j \in Jobs |-> IF at[j] \in Live THEN "lost" ELSE at[j]]
  /\ handler' = Idle
  /\ stranded' = stranded \cup {d \in Docs : ~Quiet(d)}
  /\ UNCHANGED <<stores, doc, batch, overlapped>>

HandlerStep ==
  \/ AddDocument
  \/ \E j \in Jobs : Submit(j)
  \/ PurgeChunks
  \/ RemoveRecord
  \/ UnlinkFiles

JobStep(j) ==
  \/ Acquire(j)
  \/ Start(j)
  \/ ClearChunks(j)
  \/ InsertBatch(j)
  \/ MarkIndexed(j)
  \/ MarkFailed(j)
  \/ Enrich(j)
  \/ Finish(j)

Request == \E d \in Docs : SaveFile(d) \/ RemoveDocument(d)

Next == Request \/ HandlerStep \/ (\E j \in Jobs : JobStep(j)) \/ Restart

Spec == Init /\ [][Next]_vars

\* A handler runs to its end and a thread is scheduled: nothing blocks for ever,
\* every client call has a timeout.  Acquire and Finish wait for the loop, which
\* requests keep taking; its ready queue is first come first served, so a ready
\* task is not passed over for ever.  No fairness for requests or restarts.
FairSpec ==
  /\ Spec
  /\ WF_vars(HandlerStep)
  /\ \A j \in Jobs :
       /\ WF_vars(JobStep(j))
       /\ SF_vars(Acquire(j))
       /\ SF_vars(Finish(j))

-----------------------------------------------------------------------------
(* Properties.                                                             *)

TypeOK ==
  /\ record \in [Docs -> Status]
  /\ files \subseteq Docs
  /\ chunks \in [Docs -> [BatchNos -> Nat]]
  /\ at \in [Jobs -> JobSteps]
  /\ doc \in [Jobs -> Docs \cup {NoDoc}]
  /\ batch \in [Jobs -> BatchNos]
  /\ handler \in {Idle} \cup [at : HandlerSteps, doc : Docs]
  /\ restarts \in 0..MaxRestarts
  /\ stranded \subseteq Docs
  /\ overlapped \subseteq Docs

\* The documents whose index nothing vouches for: a restart caught them in
\* flight, or two of their jobs could run at once.
Disturbed(d) == d \in stranded \/ (MaxConcurrency > 1 /\ d \in overlapped)

\* A document the record calls "indexed", with nothing under way for it, has
\* every one of its chunks in the tenant exactly once - whatever failed, was
\* retried or was removed before, and across restarts once it is uploaded again.
IndexedOnce ==
  \A d \in Docs :
    record[d] = "indexed" /\ Quiet(d) /\ ~Disturbed(d) => chunks[d] = Once

\* A document shown as queued or running has a job that will still write its
\* verdict, or an upload about to submit one; only a restart leaves it without.
NoLimbo ==
  \A d \in Docs :
    record[d] \in {"queued", "running"} =>
      \/ \E j \in JobsOf(d) : at[j] \in Unsettled
      \/ handler = [at |-> "submit", doc |-> d]
      \/ d \in stranded

\* A document the record lists has its original on disk, so opening a citation
\* never fails on it: bytes are saved before and unlinked after the record.
ListedHasOriginal == \A d \in Docs : record[d] # "absent" => d \in files

\* Chunks first: a document leaves the record only once its chunks are gone, or
\* while a job on a worker thread is writing some again behind the handler.
ChunksFirst ==
  [][\A d \in Docs :
       record[d] # "absent" /\ record'[d] = "absent" =>
         chunks[d] = None \/ JobsOf(d) \cap Holders # {}]_vars

\* Every upload is decided: a queued or running document is indexed, failed or
\* removed in the end, unless a restart strands it.
Settles ==
  \A d \in Docs :
    record[d] \in {"queued", "running"} ~>
      record[d] \in {"absent", "indexed", "failed"} \/ d \in stranded

-----------------------------------------------------------------------------
(* What the comments promise and the code does not keep.                   *)

\* "The same bytes uploaded twice land on the same id, so a retried upload is
\* re-indexed in place rather than duplicated" (api/routes/matters.py).
RetryNeverDuplicates ==
  \A d \in Docs :
    record[d] = "indexed" /\ Quiet(d) => \A b \in BatchNos : chunks[d][b] <= 1

\* "Remove a document ... and everything derived from it" (matters/delete.py):
\* once nothing is under way, an unlisted document has no chunks left to cite.
RemovedLeavesNothing ==
  \A d \in Docs : record[d] = "absent" /\ Quiet(d) => chunks[d] = None

\* "A partial index is never left behind" (matters/ingest.py): a document whose
\* job is over has all of its chunks or none.
NoPartialIndex ==
  \A d \in Docs :
    record[d] \in {"indexed", "failed"} /\ Quiet(d) => chunks[d] \in {None, Once}

=============================================================================
