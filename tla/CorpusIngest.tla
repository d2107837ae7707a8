---------------------------- MODULE CorpusIngest ----------------------------
(***************************************************************************)
(* The corpus ingest (corpus/ingest.py: index_document, run), a command    *)
(* that is run again after it was interrupted: document by document, it    *)
(* counts the chunks Weaviate has and skips, or clears and inserts.        *)
(* Nothing but those chunks outlives a run.                                *)
(***************************************************************************)
EXTENDS Integers, FiniteSets

CONSTANTS
  CorpusSize,    \* documents, indexed in order
  ChunkCount,    \* chunks of each
  IngestBatch,   \* ingest_batch_size
  MaxIngests     \* bound: runs of the command

ASSUME CorpusIngestAssumption ==
  /\ CorpusSize \in Nat /\ IngestBatch \in Nat \ {0} /\ MaxIngests \in Nat
  /\ ChunkCount \in [1..CorpusSize -> Nat]

VARIABLES
  inWeaviate,  \* copies of each chunk of each document
  ingests,     \* runs so far
  step,        \* "off", "count", "clear" or "insert"
  document,    \* the document the run is at
  from,        \* chunks of it before this are inserted
  passed       \* documents some run has returned from index_document for (history)

corpusIngestVars == <<inWeaviate, ingests, step, document, from, passed>>

Chunks(d) == 1..ChunkCount[d]

\* indexed_chunks: how many there are, whichever they are.
indexed_chunks(d) ==
  LET count[c \in 0..ChunkCount[d]] == IF c = 0 THEN 0 ELSE count[c - 1] + inWeaviate[d][c]
  IN count[ChunkCount[d]]

StartIngest ==
  /\ step = "off" /\ ingests < MaxIngests
  /\ ingests' = ingests + 1 /\ step' = "count" /\ document' = 1
  /\ UNCHANGED <<inWeaviate, from, passed>>

NextDocument == document' = document + 1 /\ step' = "count" /\ passed' = passed \cup {document}

\* Mutant: any chunk at all will do.
Decision_Trusts(d) == IF indexed_chunks(d) > 0 THEN "skip" ELSE "insert"

\* What to do with a document of which so many chunks are there; one of no
\* chunks is complete.
Decision(d) ==
  IF indexed_chunks(d) = ChunkCount[d] THEN "skip"
  ELSE IF indexed_chunks(d) = 0 THEN "insert" ELSE "clear"

CountChunks ==
  /\ step = "count" /\ document <= CorpusSize
  /\ IF Decision(document) = "skip" THEN NextDocument
       ELSE step' = Decision(document) /\ UNCHANGED <<document, passed>>
  /\ from' = 0
  /\ UNCHANGED <<inWeaviate, ingests>>

ClearDocument ==
  /\ step = "clear"
  /\ inWeaviate' = [inWeaviate EXCEPT ![document] = [c \in Chunks(document) |-> 0]]
  /\ step' = "insert"
  /\ UNCHANGED <<ingests, document, from, passed>>

\* insert_many: all of the batch, or some of it and an error ends the run.
InsertChunks(failed) ==
  /\ step = "insert"
  /\ LET batch == {c \in Chunks(document) : from < c /\ c <= from + IngestBatch}
     IN /\ failed \subseteq batch
        /\ inWeaviate' = [inWeaviate EXCEPT ![document] =
                            [c \in Chunks(document) |-> @[c] + IF c \in batch \ failed THEN 1 ELSE 0]]
  /\ from' = from + IngestBatch
  /\ IF failed # {} THEN step' = "off" /\ UNCHANGED <<document, passed>>
     ELSE IF from' >= ChunkCount[document] THEN NextDocument
     ELSE UNCHANGED <<step, document, passed>>
  /\ UNCHANGED ingests

\* The run is through, or is interrupted: anywhere.
EndIngest ==
  /\ step # "off"
  /\ step' = "off"
  /\ UNCHANGED <<inWeaviate, ingests, document, from, passed>>

CorpusIngestInit ==
  /\ inWeaviate = [d \in 1..CorpusSize |-> [c \in Chunks(d) |-> 0]]
  /\ ingests = 0 /\ step = "off" /\ document = 1 /\ from = 0 /\ passed = {}

CorpusIngestNext ==
  \/ StartIngest \/ CountChunks \/ ClearDocument \/ EndIngest
  \/ \E failed \in UNION {SUBSET Chunks(d) : d \in 1..CorpusSize} : InsertChunks(failed)

CorpusIngestSpec == CorpusIngestInit /\ [][CorpusIngestNext]_corpusIngestVars

-----------------------------------------------------------------------------
(* Properties *)

CorpusIngestTypeOK ==
  /\ \A d \in 1..CorpusSize : inWeaviate[d] \in [Chunks(d) -> Nat]
  /\ step \in {"off", "count", "clear", "insert"}
  /\ document \in 1..CorpusSize + 1 /\ passed \subseteq 1..CorpusSize

\* A document a run went past is in the index whole and once, now and after any
\* later run, however many runs before were interrupted and wherever: the number
\* of chunks is enough to tell a complete document from "the trace of a run that
\* was interrupted mid-insert" (corpus/ingest.py:83).
CorpusExact ==
  \A d \in passed : \A c \in Chunks(d) : inWeaviate[d][c] = 1
=============================================================================
