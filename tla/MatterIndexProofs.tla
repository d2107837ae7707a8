------------------------- MODULE MatterIndexProofs -------------------------
(***************************************************************************)
(* What MatterIndex guarantees for every set of documents, number of       *)
(* batches, width of the semaphore, and number of uploads and restarts.    *)
(***************************************************************************)
EXTENDS MatterIndex, FiniteSetTheorems, TLAPS

(* The inductive invariant.                                                *)

\* What each handler has done by the time it takes its next step.
HandlerProgress ==
  /\ handler.at \in {"add", "submit"} => handler.doc \in files
  /\ handler.at = "unlink" => record[handler.doc] = "absent"

\* A job in the registry has a document.
JobsHaveDocs == \A j \in Jobs : at[j] # "unused" => doc[j] \in Docs

\* Jobs are numbered as they come, and the semaphore serves them in that order.
FirstComeFirstServed ==
  \A i, j \in Jobs :
    i < j => /\ at[i] = "unused" => at[j] = "unused"
             /\ at[i] = "waiting" => at[j] \in {"waiting", "unused"}

\* With one slot one job runs; with more, only the jobs of a document that was
\* uploaded over a live job can be two.
Exclusion ==
  /\ MaxConcurrency = 1 => \A i, j \in Holders : i = j
  /\ MaxConcurrency > 1 =>
       \A d \in Docs \ overlapped : \A i, j \in JobsOf(d) : i = j

\* The documents of which the invariant speaks: no removal has taken their
\* chunks, and no upload that has yet to submit its job hides that one did.
Vouched(d) ==
  /\ ~Disturbed(d)
  /\ record[d] # "absent"
  /\ handler # [at |-> "unrecord", doc |-> d]
  /\ handler # [at |-> "submit", doc |-> d]

\* The batches a job has put in by now.
Written(j) == [b \in BatchNos |-> IF at[j] = "index" \/ b < batch[j] THEN 1 ELSE 0]

\* The only live job of a document has written what it says, and nothing else is in.
Progress ==
  \A d \in Docs : \A j \in Jobs :
    JobsOf(d) = {j} /\ at[j] \in {"insert", "index"} /\ Vouched(d) =>
      chunks[d] = Written(j)

\* An indexed document with no verdict pending is whole.
Settled ==
  \A d \in Docs :
    record[d] = "indexed" /\ Vouched(d) /\ (\A j \in JobsOf(d) : at[j] \notin Unsettled) =>
      chunks[d] = Once

-----------------------------------------------------------------------------
USE NoDocAssumption, BatchesAssumption, ConcurrencyAssumption, BoundsAssumption

\* The two fixed pictures of a document's chunks.
LEMMA Pictures == None \in [BatchNos -> Nat] /\ Once \in [BatchNos -> Nat]
  BY DEF None, Once, BatchNos

\* A handler with something left to do is a request for a document.
LEMMA HandlerDoc ==
  ASSUME TypeOK, handler.at \in HandlerSteps
  PROVE  handler.doc \in Docs /\ handler = [at |-> handler.at, doc |-> handler.doc]
  BY DEF TypeOK, Idle, HandlerSteps

\* Every variable keeps to the values the code can give it.
THEOREM TypeCorrect == Spec => []TypeOK
<1>1. Init => TypeOK
  BY DEF Init, TypeOK, Status, None, BatchNos, Jobs, JobSteps, Live, Unsettled, Running
<1>2. TypeOK /\ [Next]_vars => TypeOK'
  <2> SUFFICES ASSUME TypeOK, [Next]_vars PROVE TypeOK'
    OBVIOUS
  <2> USE DEF TypeOK, Jobs, BatchNos, stores, jobs, history
  <2>1. ASSUME NEW d \in Docs, SaveFile(d) PROVE TypeOK'
    BY <2>1 DEF SaveFile, Idle, HandlerSteps
  <2>2. ASSUME NEW d \in Docs, RemoveDocument(d) PROVE TypeOK'
    BY <2>2 DEF RemoveDocument, Idle, HandlerSteps
  <2>3. CASE AddDocument
    BY <2>3 DEF AddDocument, Idle, HandlerSteps, Status
  <2>4. ASSUME NEW j \in Jobs, Submit(j) PROVE TypeOK'
    <3>1. handler.at \in HandlerSteps /\ handler.doc \in Docs
      BY <2>4, HandlerDoc DEF Submit, HandlerSteps
    <3>2. at' \in [Jobs -> JobSteps] /\ doc' \in [Jobs -> Docs \cup {NoDoc}]
      BY <2>4, <3>1 DEF Submit, JobSteps, Live, Unsettled
    <3>3. handler' \in {Idle} \cup [at : HandlerSteps, doc : Docs]
      BY <2>4 DEF Submit
    <3>4. stranded' \subseteq Docs /\ overlapped' \subseteq Docs
      BY <2>4, <3>1 DEF Submit
    <3>5. UNCHANGED <<record, files, chunks, batch, restarts>>
      BY <2>4 DEF Submit
    <3> QED BY <3>2, <3>3, <3>4, <3>5
  <2>5. CASE PurgeChunks
    BY <2>5, Pictures DEF PurgeChunks, Idle, HandlerSteps
  <2>6. CASE RemoveRecord
    BY <2>6 DEF RemoveRecord, Idle, HandlerSteps, Status
  <2>7. CASE UnlinkFiles
    BY <2>7 DEF UnlinkFiles, Idle, HandlerSteps
  <2>8. ASSUME NEW j \in Jobs, JobStep(j) PROVE TypeOK'
    <3> USE DEF JobSteps, Live, Unsettled, Running
    <3>1. CASE Acquire(j)
      BY <3>1 DEF Acquire
    <3>2. CASE Start(j)
      BY <3>2 DEF Start, Status
    <3>3. CASE ClearChunks(j)
      <4>1. [chunks EXCEPT ![doc[j]] = None] \in [Docs -> [BatchNos -> Nat]]
        BY Pictures
      <4>2. chunks' \in [Docs -> [BatchNos -> Nat]]
        BY <3>3, <4>1 DEF ClearChunks
      <4>3. batch' \in [Jobs -> BatchNos]
        BY <3>3 DEF ClearChunks
      <4>4. /\ \/ at' = [at EXCEPT ![j] = "insert"]
               \/ at' = [at EXCEPT ![j] = "fail"]
            /\ UNCHANGED <<record, files, doc, handler, restarts, history>>
        BY <3>3 DEF ClearChunks
      <4>5. at' \in [Jobs -> JobSteps]
        BY <4>4
      <4> QED BY <4>2, <4>3, <4>4, <4>5
    <3>4. CASE InsertBatch(j)
      <4>1. [chunks[doc[j]] EXCEPT ![batch[j]] = @ + 1] \in [BatchNos -> Nat]
              \/ doc[j] = NoDoc
        OBVIOUS
      <4>2. [chunks EXCEPT ![doc[j]][batch[j]] = @ + 1] \in [Docs -> [BatchNos -> Nat]]
        BY <4>1
      <4>3. chunks' \in [Docs -> [BatchNos -> Nat]]
        BY <3>4, <4>2 DEF InsertBatch
      <4>4. batch' \in [Jobs -> BatchNos]
        <5>1. \/ batch' = batch
              \/ batch[j] # Batches /\ batch' = [batch EXCEPT ![j] = @ + 1]
          BY <3>4, Zenon DEF InsertBatch
        <5>2. batch[j] \in BatchNos /\ (batch[j] # Batches => batch[j] + 1 \in BatchNos)
          OBVIOUS
        <5> QED BY <5>1, <5>2
      <4>5. /\ \/ at' = [at EXCEPT ![j] = "index"]
               \/ at' = at
               \/ at' = [at EXCEPT ![j] = "fail"]
            /\ UNCHANGED <<record, files, doc, handler, restarts, history>>
        BY <3>4 DEF InsertBatch
      <4>6. at' \in [Jobs -> JobSteps]
        BY <4>5
      <4> QED BY <4>3, <4>4, <4>5, <4>6
    <3>5. CASE MarkIndexed(j)
      BY <3>5 DEF MarkIndexed, SetStatus, Status
    <3>6. CASE MarkFailed(j)
      BY <3>6 DEF MarkFailed, SetStatus, Status
    <3>7. CASE Enrich(j)
      BY <3>7 DEF Enrich
    <3>8. CASE Finish(j)
      BY <3>8 DEF Finish
    <3> QED BY <2>8, <3>1, <3>2, <3>3, <3>4, <3>5, <3>6, <3>7, <3>8 DEF JobStep
  <2>9. CASE Restart
    BY <2>9 DEF Restart, Idle, JobSteps, Live, Unsettled, Running
  <2>10. CASE UNCHANGED vars
    BY <2>10 DEF vars
  <2> QED BY <2>1, <2>2, <2>3, <2>4, <2>5, <2>6, <2>7, <2>8, <2>9, <2>10
            DEF Next, Request, HandlerStep
<1> QED BY <1>1, <1>2, PTL DEF Spec

-----------------------------------------------------------------------------
(* Originals, and statuses that do not stall.                              *)

\* A step that leaves the record's listing, the files and the handler alone
\* cannot part a document from its original.
LEMMA OriginalsStep ==
  ASSUME TypeOK, HandlerProgress, ListedHasOriginal, [Next]_vars
  PROVE  HandlerProgress' /\ ListedHasOriginal'
<1> USE DEF TypeOK, HandlerProgress, ListedHasOriginal, Idle, HandlerSteps,
            stores, jobs, history, Jobs
<1>1. ASSUME NEW d \in Docs, SaveFile(d) PROVE HandlerProgress' /\ ListedHasOriginal'
  BY <1>1 DEF SaveFile
<1>2. ASSUME NEW d \in Docs, RemoveDocument(d) PROVE HandlerProgress' /\ ListedHasOriginal'
  BY <1>2 DEF RemoveDocument
<1>3. CASE AddDocument
  BY <1>3 DEF AddDocument
<1>4. ASSUME NEW j \in Jobs, Submit(j) PROVE HandlerProgress' /\ ListedHasOriginal'
  BY <1>4 DEF Submit
<1>5. CASE PurgeChunks
  BY <1>5 DEF PurgeChunks
<1>6. CASE RemoveRecord
  BY <1>6 DEF RemoveRecord
<1>7. CASE UnlinkFiles
  BY <1>7 DEF UnlinkFiles
<1>8. ASSUME NEW j \in Jobs, JobStep(j) PROVE HandlerProgress' /\ ListedHasOriginal'
  <2>1. /\ UNCHANGED <<files, handler>>
        /\ \A d \in Docs : record'[d] = "absent" <=> record[d] = "absent"
    BY <1>8 DEF JobStep, Acquire, Start, ClearChunks, InsertBatch, MarkIndexed, MarkFailed,
                Enrich, Finish, SetStatus
  <2> QED BY <2>1
<1>9. CASE Restart
  BY <1>9 DEF Restart
<1>10. CASE UNCHANGED vars
  BY <1>10 DEF vars
<1> QED BY <1>1, <1>2, <1>3, <1>4, <1>5, <1>6, <1>7, <1>8, <1>9, <1>10
           DEF Next, Request, HandlerStep

\* A listed document always has its original on disk, restarts included.
THEOREM OriginalsKept == Spec => [](HandlerProgress /\ ListedHasOriginal)
<1>1. Init => HandlerProgress /\ ListedHasOriginal
  BY DEF Init, HandlerProgress, ListedHasOriginal, Idle
<1> QED BY <1>1, TypeCorrect, OriginalsStep, PTL DEF Spec

\* A queued or running status survives a step only with someone to decide it.
LEMMA LimboStep ==
  ASSUME TypeOK, HandlerProgress, ListedHasOriginal, JobsHaveDocs, NoLimbo, [Next]_vars
  PROVE  JobsHaveDocs' /\ NoLimbo'
<1> USE DEF TypeOK, JobsHaveDocs, NoLimbo, Idle, HandlerSteps, stores, jobs, history,
            Jobs, JobsOf, Live, Unsettled, Running, JobSteps
<1>1. ASSUME NEW d \in Docs, SaveFile(d) PROVE JobsHaveDocs' /\ NoLimbo'
  BY <1>1 DEF SaveFile
<1>2. ASSUME NEW d \in Docs, RemoveDocument(d) PROVE JobsHaveDocs' /\ NoLimbo'
  BY <1>2 DEF RemoveDocument
<1>3. CASE AddDocument
  BY <1>3 DEF AddDocument
<1>4. ASSUME NEW j \in Jobs, Submit(j) PROVE JobsHaveDocs' /\ NoLimbo'
  <2>1. PICK d \in Docs : handler = [at |-> "submit", doc |-> d]
    BY <1>4, HandlerDoc DEF Submit
  <2>2. /\ at'[j] = "waiting" /\ doc'[j] = d
        /\ \A i \in Jobs \ {j} : at'[i] = at[i] /\ doc'[i] = doc[i]
        /\ record' = record /\ at[j] = "unused"
        /\ stranded' = stranded \ {d}
    BY <1>4, <2>1 DEF Submit
  <2>3. j \in JobsOf(d)'
    BY <2>2
  <2>4. \A e \in Docs : \A i \in JobsOf(e) : i \in JobsOf(e)' /\ at'[i] = at[i]
    BY <2>2
  <2>5. JobsHaveDocs'
    BY <2>2
  <2>6. ASSUME NEW e \in Docs, e # d, record'[e] \in {"queued", "running"}
        PROVE  \/ \E i \in JobsOf(e)' : at'[i] \in Unsettled
               \/ e \in stranded'
    <3>1. handler # [at |-> "submit", doc |-> e]
      BY <2>1, <2>6
    <3>2. (\E i \in JobsOf(e) : at[i] \in Unsettled) \/ e \in stranded
      BY <2>2, <2>6, <3>1
    <3> QED BY <2>2, <2>4, <2>6, <3>2
  <2> QED BY <2>2, <2>3, <2>5, <2>6
<1>5. CASE PurgeChunks
  BY <1>5 DEF PurgeChunks
<1>6. CASE RemoveRecord
  BY <1>6 DEF RemoveRecord
<1>7. CASE UnlinkFiles
  BY <1>7 DEF UnlinkFiles
<1>8. ASSUME NEW j \in Jobs, JobStep(j) PROVE JobsHaveDocs' /\ NoLimbo'
  \* The job's document, and that no other job has moved.
  <2>1. /\ doc[j] \in Docs
        /\ at[j] \in Live
        /\ UNCHANGED <<doc, handler, stranded>>
        /\ \A i \in Jobs \ {j} : at'[i] = at[i]
        /\ at'[j] # "unused"
    BY <1>8 DEF JobStep, Acquire, Start, ClearChunks, InsertBatch, MarkIndexed, MarkFailed,
                Enrich, Finish
  <2>2. JobsHaveDocs'
    BY <2>1
  <2>3. CASE at[j] \in Unsettled /\ at'[j] \notin Unsettled
    \* The verdict: indexed, failed, or the document is not listed at all.
    <3>1. /\ record'[doc[j]] \notin {"queued", "running"}
          /\ \A d \in Docs \ {doc[j]} : record'[d] = record[d]
      BY <1>8, <2>1, <2>3 DEF JobStep, Acquire, Start, ClearChunks, InsertBatch, MarkIndexed,
                              MarkFailed, Enrich, Finish, SetStatus, ListedHasOriginal
    <3> QED BY <2>1, <2>2, <3>1
  <2>4. CASE at'[j] \in Unsettled
    <3>1. \A d \in Docs \ {doc[j]} : record'[d] = record[d]
      BY <1>8, <2>1, <2>4 DEF JobStep, Acquire, Start, ClearChunks, InsertBatch, MarkIndexed,
                              MarkFailed, Enrich, Finish, SetStatus
    <3>2. j \in JobsOf(doc[j])'
      BY <2>1, <2>4
    <3> QED BY <2>1, <2>2, <2>4, <3>1, <3>2
  <2>5. CASE at[j] \notin Unsettled
    <3>1. UNCHANGED record /\ at'[j] \notin Unsettled
      BY <1>8, <2>5 DEF JobStep, Acquire, Start, ClearChunks, InsertBatch, MarkIndexed,
                        MarkFailed, Enrich, Finish
    <3> QED BY <2>1, <2>2, <2>5, <3>1
  <2> QED BY <2>3, <2>4, <2>5
<1>9. CASE Restart
  <2>1. JobsHaveDocs'
    BY <1>9 DEF Restart
  <2>2. ASSUME NEW d \in Docs, record[d] \in {"queued", "running"} PROVE d \in stranded'
    <3>1. CASE \E j \in JobsOf(d) : at[j] \in Unsettled
      BY <1>9, <3>1 DEF Restart, Quiet
    <3>2. CASE handler = [at |-> "submit", doc |-> d]
      BY <1>9, <3>2 DEF Restart, Quiet, Handling
    <3>3. CASE d \in stranded
      BY <1>9, <3>3 DEF Restart
    <3> QED BY <2>2, <3>1, <3>2, <3>3
  <2> QED BY <1>9, <2>1, <2>2 DEF Restart
<1>10. CASE UNCHANGED vars
  BY <1>10 DEF vars
<1> QED BY <1>1, <1>2, <1>3, <1>4, <1>5, <1>6, <1>7, <1>8, <1>9, <1>10
           DEF Next, Request, HandlerStep

\* No document hangs as queued or running unless a restart left it so.
THEOREM StatusIsLive == Spec => [](JobsHaveDocs /\ NoLimbo)
<1>1. Init => JobsHaveDocs /\ NoLimbo
  BY DEF Init, JobsHaveDocs, NoLimbo
<1> QED BY <1>1, TypeCorrect, OriginalsKept, LimboStep, PTL DEF Spec

-----------------------------------------------------------------------------
(* Who may work on a document at once.                                     *)

\* Taking the last slot means that nobody held one.
LEMMA OneSlot ==
  ASSUME TypeOK, MaxConcurrency = 1, Cardinality(Holders) < MaxConcurrency
  PROVE  Holders = {}
<1>1. IsFiniteSet(Jobs)
  BY FS_Interval DEF Jobs
<1>2. IsFiniteSet(Holders)
  BY <1>1, FS_Subset DEF Holders
<1>3. Cardinality(Holders) = 0
  BY <1>2, FS_CardinalityType
<1> QED BY <1>2, <1>3, FS_EmptySet

\* A job's step moves that job only, forward, and never back into the queue.
LEMMA JobStepMoves ==
  ASSUME TypeOK, JobsHaveDocs, NEW j \in Jobs, JobStep(j)
  PROVE  /\ doc[j] \in Docs
         /\ at[j] \in Live
         /\ at'[j] \in Running \cup {"done"}
         /\ at' = [at EXCEPT ![j] = at'[j]]
         /\ UNCHANGED <<doc, files, handler, restarts, history>>
<1> USE DEF TypeOK, Live, Unsettled, Running, JobSteps, stores, history
<1>1. /\ at[j] \in Live
      /\ at'[j] \in Running \cup {"done"}
      /\ UNCHANGED <<doc, files, handler, restarts, history>>
  BY DEF JobStep, Acquire, Start, ClearChunks, InsertBatch, MarkIndexed, MarkFailed, Enrich,
         Finish
<1>2. doc[j] \in Docs
  BY <1>1 DEF JobsHaveDocs
<1>3. at' = [at EXCEPT ![j] = at'[j]]
  <2>1. at' \in [Jobs -> JobSteps] /\ \A i \in Jobs \ {j} : at'[i] = at[i]
    BY DEF JobStep, Acquire, Start, ClearChunks, InsertBatch, MarkIndexed, MarkFailed, Enrich,
           Finish
  <2> QED BY <2>1
<1> QED BY <1>1, <1>2, <1>3

\* Jobs are served in order, and share a document only as Exclusion allows.
LEMMA OrderStep ==
  ASSUME TypeOK, JobsHaveDocs, FirstComeFirstServed, Exclusion, [Next]_vars
  PROVE  FirstComeFirstServed' /\ Exclusion'
<1> USE DEF TypeOK, Jobs, stores, jobs, history, Live, Unsettled, Running, JobSteps
<1>1. CASE UNCHANGED jobs /\ UNCHANGED overlapped
  BY <1>1 DEF FirstComeFirstServed, Exclusion, Holders, JobsOf
<1>2. ASSUME NEW j \in Jobs, Submit(j) PROVE FirstComeFirstServed' /\ Exclusion'
  <2>1. PICK d \in Docs : handler = [at |-> "submit", doc |-> d]
    BY <1>2, HandlerDoc DEF Submit, HandlerSteps
  <2>2. /\ at' = [at EXCEPT ![j] = "waiting"]
        /\ doc' = [doc EXCEPT ![j] = d]
        /\ at[j] = "unused"
        /\ \A i \in Jobs : i < j => at[i] # "unused"
        /\ overlapped' = IF JobsOf(d) = {} THEN overlapped \ {d} ELSE overlapped \cup {d}
    BY <1>2, <2>1 DEF Submit
  <2>3. FirstComeFirstServed'
    BY <2>2 DEF FirstComeFirstServed
  <2>4. Holders' = Holders
    BY <2>2 DEF Holders
  <2>5. \A e \in Docs : \A i : i \in JobsOf(e)' <=> i \in JobsOf(e) \/ (e = d /\ i = j)
    BY <2>2 DEF JobsOf
  <2>6. Exclusion'
    BY <2>2, <2>4, <2>5 DEF Exclusion
  <2> QED BY <2>3, <2>6
<1>3. ASSUME NEW j \in Jobs, JobStep(j) PROVE FirstComeFirstServed' /\ Exclusion'
  <2>1. /\ at' = [at EXCEPT ![j] = at'[j]]
        /\ at[j] \in Live /\ at'[j] \in Running \cup {"done"}
        /\ UNCHANGED <<doc, overlapped>>
    BY <1>3, JobStepMoves
  <2>2. FirstComeFirstServed'
    <3>1. at[j] = "waiting" => Acquire(j)
      BY <1>3 DEF JobStep, Start, ClearChunks, InsertBatch, MarkIndexed, MarkFailed, Enrich,
                  Finish
    <3>2. at[j] = "waiting" => \A i \in Jobs : i < j => at[i] # "waiting"
      BY <3>1 DEF Acquire
    <3> QED BY <2>1, <3>2 DEF FirstComeFirstServed
  <2>3. \A d \in Docs : JobsOf(d)' \subseteq JobsOf(d)
    BY <2>1 DEF JobsOf
  <2>4. CASE at[j] \in Running
    <3>1. Holders' \subseteq Holders
      BY <2>1, <2>4 DEF Holders
    <3> QED BY <2>1, <2>2, <2>3, <3>1 DEF Exclusion
  <2>5. CASE at[j] = "waiting"
    <3>1. Cardinality(Holders) < MaxConcurrency
      BY <1>3, <2>5 DEF JobStep, Acquire, Start, ClearChunks, InsertBatch, MarkIndexed,
                        MarkFailed, Enrich, Finish
    <3>2. MaxConcurrency = 1 => Holders = {}
      BY <3>1, OneSlot
    <3>3. Holders' \subseteq Holders \cup {j}
      BY <2>1 DEF Holders
    <3> QED BY <2>1, <2>2, <2>3, <3>2, <3>3 DEF Exclusion
  <2> QED BY <2>1, <2>4, <2>5
<1>4. CASE Restart
  <2>1. /\ \A j \in Jobs : at'[j] \notin Live /\ (at'[j] = "unused" <=> at[j] = "unused")
        /\ UNCHANGED overlapped
    BY <1>4 DEF Restart
  <2> QED BY <2>1 DEF FirstComeFirstServed, Exclusion, Holders, JobsOf
<1> QED
  <2>1. ASSUME NEW d \in Docs, SaveFile(d) \/ RemoveDocument(d)
        PROVE  UNCHANGED jobs /\ UNCHANGED overlapped
    BY <2>1 DEF SaveFile, RemoveDocument
  <2>2. ASSUME AddDocument \/ PurgeChunks \/ RemoveRecord \/ UnlinkFiles \/ UNCHANGED vars
        PROVE  UNCHANGED jobs /\ UNCHANGED overlapped
    BY <2>2 DEF AddDocument, PurgeChunks, RemoveRecord, UnlinkFiles, vars
  <2> QED BY <1>1, <1>2, <1>3, <1>4, <2>1, <2>2 DEF Next, Request, HandlerStep

-----------------------------------------------------------------------------
(* What the chunks of a document are.                                      *)

\* A running job of an undisturbed document is the only one that is not queued.
LEMMA Alone ==
  ASSUME TypeOK, Exclusion, NEW d \in Docs, ~Disturbed(d),
         NEW i \in JobsOf(d), NEW j \in JobsOf(d), at[j] \in Running
  PROVE  i = j \/ at[i] = "waiting"
<1>1. CASE MaxConcurrency = 1
  <2>1. i \in Jobs /\ j \in Jobs /\ at[i] \in Live /\ j \in Holders
    BY DEF JobsOf, Holders
  <2>2. at[i] = "waiting" \/ i \in Holders
    BY <2>1 DEF Holders, Live, Unsettled, Running
  <2> QED BY <1>1, <2>1, <2>2 DEF Exclusion
<1>2. CASE MaxConcurrency > 1
  BY <1>2 DEF Exclusion, Disturbed
<1> QED BY <1>1, <1>2

\* Requests and handlers: the documents still vouched for are untouched.
LEMMA ContentsUntouched ==
  ASSUME Progress, Settled, UNCHANGED jobs,
         \A d \in Docs : Vouched(d)' =>
           Vouched(d) /\ chunks'[d] = chunks[d] /\ record'[d] = record[d]
  PROVE  Progress' /\ Settled'
<1>1. UNCHANGED <<at, doc, batch>>
  BY DEF jobs
<1>2. \A d \in Docs : JobsOf(d)' = JobsOf(d)
  BY <1>1 DEF JobsOf
<1>3. \A j \in Jobs : Written(j)' = Written(j)
  BY <1>1 DEF Written
<1>4. Progress'
  BY <1>1, <1>2, <1>3 DEF Progress
<1>5. Settled'
  BY <1>1, <1>2 DEF Settled
<1> QED BY <1>4, <1>5

\* An upload puts a job in the queue, and until it ran nothing is claimed.
LEMMA ContentsSubmit ==
  ASSUME TypeOK, JobsHaveDocs, Progress, Settled, NEW j \in Jobs, Submit(j)
  PROVE  Progress' /\ Settled'
<1> USE DEF TypeOK
<1>1. PICK d \in Docs : handler = [at |-> "submit", doc |-> d]
  BY HandlerDoc DEF Submit, HandlerSteps
<1>2. /\ at[j] = "unused"
      /\ at' = [at EXCEPT ![j] = "waiting"] /\ doc' = [doc EXCEPT ![j] = d]
      /\ UNCHANGED <<record, chunks, batch>> /\ handler' = Idle
      /\ \A e \in Docs \ {d} : /\ e \in stranded' <=> e \in stranded
                               /\ e \in overlapped' <=> e \in overlapped
  BY <1>1 DEF Submit, stores
<1>3. j \in JobsOf(d)'
  BY <1>2 DEF JobsOf, Live, Unsettled
<1>4. \A e \in Docs \ {d} : JobsOf(e)' = JobsOf(e)
  BY <1>2 DEF JobsOf, Live, Unsettled, Running
<1>5. \A e \in Docs \ {d} : Vouched(e)' => Vouched(e)
  BY <1>1, <1>2 DEF Vouched, Disturbed
<1>6. Progress'
  <2> SUFFICES ASSUME NEW e \in Docs, NEW i \in Jobs, JobsOf(e)' = {i},
                      at'[i] \in {"insert", "index"}, Vouched(e)'
               PROVE  chunks'[e] = Written(i)'
    BY DEF Progress
  <2>1. i # j /\ at[i] = at'[i]
    BY <1>2
  <2>2. e # d
    BY <1>3, <2>1
  <2>3. Written(i)' = Written(i)
    BY <1>2, <2>1 DEF Written
  <2> QED BY <1>2, <1>4, <1>5, <2>1, <2>2, <2>3 DEF Progress
<1>7. Settled'
  <2> SUFFICES ASSUME NEW e \in Docs, record'[e] = "indexed", Vouched(e)',
                      \A i \in JobsOf(e)' : at'[i] \notin Unsettled
               PROVE  chunks'[e] = Once
    BY DEF Settled, Once
  <2>1. e # d
    BY <1>2, <1>3 DEF Unsettled
  <2>2. \A i \in JobsOf(e) : at[i] \notin Unsettled
    <3>1. \A i \in JobsOf(e) : i \in Jobs /\ i # j
      BY <1>2 DEF JobsOf, Live, Unsettled, Running
    <3>2. \A i \in JobsOf(e) : at'[i] = at[i] /\ i \in JobsOf(e)'
      BY <1>2, <1>4, <2>1, <3>1
    <3> QED BY <3>2
  <2> QED BY <1>2, <1>5, <2>1, <2>2 DEF Settled
<1> QED BY <1>6, <1>7

\* A restart strands every document it disturbs.
LEMMA ContentsRestart ==
  ASSUME TypeOK, Progress, Settled, Restart
  PROVE  Progress' /\ Settled'
<1>1. Progress'
  BY DEF Progress, Restart, TypeOK, Live, Unsettled, Running
<1>2. Settled'
  <2> SUFFICES ASSUME NEW d \in Docs, record'[d] = "indexed", Vouched(d)'
               PROVE  chunks'[d] = Once
    BY DEF Settled, Once
  <2>1. Quiet(d) /\ ~Disturbed(d)
    BY DEF Vouched, Disturbed, Restart
  <2>2. Vouched(d)
    BY <2>1 DEF Vouched, Quiet, Handling, Restart, stores
  <2>3. JobsOf(d) = {}
    BY <2>1 DEF Quiet
  <2> QED BY <2>2, <2>3 DEF Settled, Restart, stores
<1> QED BY <1>1, <1>2

\* What a job's step does to a document other than its own: nothing.
LEMMA JobStepOthers ==
  ASSUME TypeOK, JobsHaveDocs, NEW j \in Jobs, JobStep(j),
         NEW e \in Docs, e # doc[j]
  PROVE  /\ chunks'[e] = chunks[e] /\ record'[e] = record[e]
         /\ JobsOf(e)' = JobsOf(e)
         /\ Vouched(e)' <=> Vouched(e)
         /\ \A i \in JobsOf(e) : i # j /\ at'[i] = at[i] /\ Written(i)' = Written(i)
<1> USE DEF TypeOK
<1>1. /\ doc[j] \in Docs /\ at[j] \in Live
      /\ at' = [at EXCEPT ![j] = at'[j]]
      /\ UNCHANGED <<doc, handler, stranded, overlapped>>
  BY JobStepMoves DEF history
<1>2. \A i \in Jobs \ {j} : at'[i] = at[i] /\ batch'[i] = batch[i]
  BY DEF JobStep, Acquire, Start, ClearChunks, InsertBatch, MarkIndexed, MarkFailed, Enrich,
         Finish
<1>3. chunks'[e] = chunks[e]
  BY <1>1 DEF JobStep, Acquire, Start, ClearChunks, InsertBatch, MarkIndexed, MarkFailed,
              Enrich, Finish, stores
<1>4. record'[e] = record[e]
  BY <1>1 DEF JobStep, Acquire, Start, ClearChunks, InsertBatch, MarkIndexed, MarkFailed,
              Enrich, Finish, stores, SetStatus
<1>5. JobsOf(e)' = JobsOf(e)
  BY <1>1, <1>2 DEF JobsOf
<1>6. Vouched(e)' <=> Vouched(e)
  BY <1>1, <1>4 DEF Vouched, Disturbed
<1>7. \A i \in JobsOf(e) : i # j /\ at'[i] = at[i] /\ Written(i)' = Written(i)
  BY <1>2 DEF JobsOf, Written
<1> QED BY <1>3, <1>4, <1>5, <1>6, <1>7

\* What it does to its own document, while that is vouched for.
LEMMA JobStepOwn ==
  ASSUME TypeOK, JobsHaveDocs, ListedHasOriginal, Exclusion, Progress, Settled,
         NEW j \in Jobs, JobStep(j), NEW d \in Docs, d = doc[j], Vouched(d)'
  PROVE  /\ \A i \in Jobs : JobsOf(d)' = {i} /\ at'[i] \in {"insert", "index"} =>
               chunks'[d] = Written(i)'
         /\ record'[d] = "indexed" /\ (\A i \in JobsOf(d)' : at'[i] \notin Unsettled) =>
               chunks'[d] = Once
<1> USE DEF TypeOK
<1>1. /\ at[j] \in Live
      /\ at' = [at EXCEPT ![j] = at'[j]]
      /\ UNCHANGED <<doc, handler, stranded, overlapped>>
      /\ \A i \in Jobs \ {j} : at'[i] = at[i]
  BY JobStepMoves DEF history
<1>2. record[d] # "absent" /\ record'[d] # "absent"
  BY DEF JobStep, Acquire, Start, ClearChunks, InsertBatch, MarkIndexed, MarkFailed, Enrich,
         Finish, stores, SetStatus, Vouched
<1>3. Vouched(d) /\ ~Disturbed(d)
  BY <1>1, <1>2 DEF Vouched, Disturbed
<1>4. j \in JobsOf(d)
  BY <1>1 DEF JobsOf
<1>5. /\ \A i \in JobsOf(d) \ {j} : i \in JobsOf(d)' /\ at'[i] = at[i]
      /\ \A i \in JobsOf(d)' : i \in JobsOf(d)
      /\ at'[j] \in Live => j \in JobsOf(d)'
  BY <1>1 DEF JobsOf
\* Whoever else is live on d is queued, if j is running.
<1>6. at[j] \in Running => \A i \in JobsOf(d) \ {j} : at[i] = "waiting"
  BY <1>3, <1>4, Alone
<1>7. ASSUME at[j] \in Running, NEW i \in Jobs, JobsOf(d)' = {i},
             at'[i] \in {"insert", "index"}
      PROVE  i = j /\ JobsOf(d) = {j}
  BY <1>4, <1>5, <1>6, <1>7
<1>8. CASE at'[j] \in Unsettled
  <2>1. j \in JobsOf(d)'
    BY <1>5, <1>8 DEF Live
  <2>2. ~(\A i \in JobsOf(d)' : at'[i] \notin Unsettled)
    BY <1>8, <2>1
  <2> SUFFICES ASSUME NEW i \in Jobs, JobsOf(d)' = {i}, at'[i] \in {"insert", "index"}
               PROVE  chunks'[d] = Written(i)'
    BY <2>2
  <2>3. i = j
    BY <2>1
  <2>4. CASE ClearChunks(j)
    <3>1. chunks' = [chunks EXCEPT ![d] = None] /\ batch'[j] = 1 /\ at'[j] = "insert"
      BY <1>1, <2>3, <2>4 DEF ClearChunks
    <3>2. \A b \in BatchNos : ~(b < 1)
      BY DEF BatchNos
    <3>3. Written(j)' = None
      BY <3>1, <3>2 DEF Written, None
    <3> QED BY <2>3, <3>1, <3>3
  <2>5. CASE InsertBatch(j)
    <3>1. JobsOf(d) = {j} /\ at[j] = "insert"
      BY <1>7, <2>3, <2>5 DEF InsertBatch, Running
    <3>2. chunks[d] = Written(j)
      BY <1>3, <3>1 DEF Progress
    <3>3. /\ chunks' = [chunks EXCEPT ![d][batch[j]] = @ + 1]
          /\ \/ batch[j] = Batches /\ at'[j] = "index" /\ batch' = batch
             \/ batch'[j] = batch[j] + 1 /\ at'[j] = "insert"
      BY <2>3, <2>5 DEF InsertBatch
    <3>4. chunks'[d] = [chunks[d] EXCEPT ![batch[j]] = @ + 1]
      BY <3>3
    <3>5. batch[j] \in BatchNos /\ Batches \in Nat
      OBVIOUS
    <3>6. \A b \in BatchNos : chunks'[d][b] = IF b < batch[j] + 1 THEN 1 ELSE 0
      BY <3>1, <3>2, <3>4, <3>5 DEF Written, BatchNos
    <3>7. \A b \in BatchNos :
            (at'[j] = "index" \/ b < batch'[j]) <=> (b < batch[j] + 1)
      <4>1. CASE batch[j] = Batches /\ at'[j] = "index"
        BY <3>5, <4>1 DEF BatchNos
      <4>2. CASE batch'[j] = batch[j] + 1 /\ at'[j] = "insert"
        BY <4>2
      <4> QED BY <3>3, <4>1, <4>2
    <3>8. chunks'[d] = [b \in BatchNos |-> chunks'[d][b]]
      BY <3>4
    <3> QED BY <2>3, <3>6, <3>7, <3>8 DEF Written
  <2> QED BY <1>1, <2>3, <2>4, <2>5
           DEF JobStep, Acquire, Start, MarkIndexed, MarkFailed, Enrich, Finish
<1>9. CASE at'[j] \notin Unsettled
  <2>1. at[j] \in Running
    BY <1>1, <1>9 DEF JobStep, Acquire, Start, ClearChunks, InsertBatch, MarkIndexed, MarkFailed,
                      Enrich, Finish, Running, Unsettled
  <2>2. \A i \in Jobs : ~(JobsOf(d)' = {i} /\ at'[i] \in {"insert", "index"})
    BY <1>7, <1>9, <2>1 DEF Unsettled
  <2> SUFFICES ASSUME record'[d] = "indexed", \A i \in JobsOf(d)' : at'[i] \notin Unsettled
               PROVE  chunks'[d] = Once
    BY <2>2
  <2>3. JobsOf(d) = {j}
    BY <1>4, <1>5, <1>6, <2>1 DEF Unsettled
  <2>4. CASE MarkIndexed(j)
    <3>1. chunks[d] = Written(j) /\ at[j] = "index"
      BY <1>3, <2>3, <2>4 DEF MarkIndexed, Progress
    <3> QED BY <2>4, <3>1 DEF MarkIndexed, Written, Once
  <2>5. CASE Enrich(j) \/ Finish(j)
    BY <1>3, <2>3, <2>5 DEF Enrich, Finish, Settled, stores, Unsettled
  <2>6. CASE Start(j) \/ MarkFailed(j)
    BY <1>2, <1>9, <2>6 DEF Start, MarkFailed, SetStatus, ListedHasOriginal, Unsettled
  <2> QED BY <1>1, <1>9, <2>4, <2>5, <2>6
           DEF JobStep, Acquire, ClearChunks, InsertBatch, Unsettled
<1> QED BY <1>8, <1>9

\* Every step keeps the chunks of the documents vouched for what the jobs say.
LEMMA ContentsStep ==
  ASSUME TypeOK, HandlerProgress, ListedHasOriginal, JobsHaveDocs, Exclusion,
         Progress, Settled, [Next]_vars
  PROVE  Progress' /\ Settled'
<1> USE DEF TypeOK, stores, jobs, history
<1>1. ASSUME NEW d \in Docs, SaveFile(d) \/ RemoveDocument(d) PROVE Progress' /\ Settled'
  BY <1>1, ContentsUntouched DEF SaveFile, RemoveDocument, Vouched, Disturbed, Idle
<1>2. CASE UNCHANGED vars
  BY <1>2, ContentsUntouched DEF vars, Vouched, Disturbed
<1>3. ASSUME NEW j \in Jobs, Submit(j) PROVE Progress' /\ Settled'
  BY <1>3, ContentsSubmit
<1>4. CASE AddDocument \/ PurgeChunks \/ RemoveRecord \/ UnlinkFiles
  <2>1. PICK d \in Docs : handler = [at |-> handler.at, doc |-> d]
    BY <1>4, HandlerDoc DEF HandlerSteps, AddDocument, PurgeChunks, RemoveRecord, UnlinkFiles
  <2>2. CASE AddDocument
    BY <2>1, <2>2, ContentsUntouched DEF AddDocument, Vouched, Disturbed
  <2>3. CASE PurgeChunks
    BY <2>1, <2>3, ContentsUntouched DEF PurgeChunks, Vouched, Disturbed, Idle
  <2>4. CASE RemoveRecord
    BY <2>1, <2>4, ContentsUntouched DEF RemoveRecord, Vouched, Disturbed
  <2>5. CASE UnlinkFiles
    BY <2>1, <2>5, ContentsUntouched DEF UnlinkFiles, Vouched, Disturbed, Idle, HandlerProgress
  <2> QED BY <1>4, <2>2, <2>3, <2>4, <2>5
<1>5. ASSUME NEW j \in Jobs, JobStep(j) PROVE Progress' /\ Settled'
  <2>1. Progress'
    <3> SUFFICES ASSUME NEW d \in Docs, NEW i \in Jobs, JobsOf(d)' = {i},
                        at'[i] \in {"insert", "index"}, Vouched(d)'
                 PROVE  chunks'[d] = Written(i)'
      BY DEF Progress
    <3>1. CASE d = doc[j]
      BY <1>5, <3>1, JobStepOwn
    <3>2. CASE d # doc[j]
      BY <1>5, <3>2, JobStepOthers DEF Progress
    <3> QED BY <3>1, <3>2
  <2>2. Settled'
    <3> SUFFICES ASSUME NEW d \in Docs, record'[d] = "indexed", Vouched(d)',
                        \A i \in JobsOf(d)' : at'[i] \notin Unsettled
                 PROVE  chunks'[d] = Once
      BY DEF Settled, Once
    <3>1. CASE d = doc[j]
      BY <1>5, <3>1, JobStepOwn
    <3>2. CASE d # doc[j]
      BY <1>5, <3>2, JobStepOthers DEF Settled
    <3> QED BY <3>1, <3>2
  <2> QED BY <2>1, <2>2
<1>6. CASE Restart
  BY <1>6, ContentsRestart
<1> QED BY <1>1, <1>2, <1>3, <1>4, <1>5, <1>6 DEF Next, Request, HandlerStep

\* An indexed document at rest is whole: each chunk once.
LEMMA SettledSuffices == Settled => IndexedOnce
  BY DEF Settled, IndexedOnce, Vouched, Quiet, Handling

\* Indexed means indexed: every chunk once, for any number of documents, batches,
\* uploads and restarts, unless jobs of one document could run together.
THEOREM IndexedMeansOnce == Spec => []IndexedOnce
<1> DEFINE Contents == FirstComeFirstServed /\ Exclusion /\ Progress /\ Settled
<1>1. Init => Contents
  BY DEF Init, FirstComeFirstServed, Exclusion, Progress, Settled, Holders, JobsOf, Running,
         Live, Unsettled
<1>2. /\ TypeOK /\ HandlerProgress /\ ListedHasOriginal /\ JobsHaveDocs
      /\ Contents /\ [Next]_vars
      => Contents'
  BY OrderStep, ContentsStep
<1>3. Contents => IndexedOnce
  BY SettledSuffices
<1> QED BY <1>1, <1>2, <1>3, TypeCorrect, OriginalsKept, StatusIsLive, PTL DEF Spec

-----------------------------------------------------------------------------
(* The order of a removal.                                                 *)

\* Between the purge and the record a removal finds the document's chunks gone,
\* or a job of the document holding a slot.
PurgeHolds ==
  handler.at = "unrecord" =>
    chunks[handler.doc] = None \/ \E j \in Holders : doc[j] = handler.doc

LEMMA PurgeStep ==
  ASSUME TypeOK, JobsHaveDocs, PurgeHolds, [Next]_vars
  PROVE  PurgeHolds'
<1> USE DEF TypeOK, PurgeHolds, stores, jobs, history, Idle
<1>1. ASSUME NEW d \in Docs, SaveFile(d) \/ RemoveDocument(d) PROVE PurgeHolds'
  BY <1>1 DEF SaveFile, RemoveDocument
<1>2. CASE UNCHANGED vars
  BY <1>2 DEF vars, Holders
<1>3. ASSUME NEW j \in Jobs, Submit(j) PROVE PurgeHolds'
  BY <1>3 DEF Submit
<1>4. CASE AddDocument \/ RemoveRecord \/ UnlinkFiles
  BY <1>4 DEF AddDocument, RemoveRecord, UnlinkFiles
<1>5. CASE PurgeChunks
  BY <1>5 DEF PurgeChunks, HandlerSteps
<1>6. ASSUME NEW j \in Jobs, JobStep(j) PROVE PurgeHolds'
  <2> SUFFICES ASSUME handler.at = "unrecord"
               PROVE  chunks'[handler.doc] = None \/ \E i \in Holders' : doc[i] = handler.doc
    BY <1>6, JobStepMoves
  <2>1. handler.doc \in Docs
    BY HandlerDoc DEF HandlerSteps
  <2>2. at'[j] \in Running
    BY <1>6 DEF JobStep, Acquire, Start, ClearChunks, InsertBatch, MarkIndexed, MarkFailed,
                Enrich, Finish, Running, Unsettled
  <2>3. \A i \in Holders : i \in Holders'
    BY <1>6, <2>2, JobStepMoves DEF Holders
  <2>4. CASE doc[j] = handler.doc
    BY <2>2, <2>4 DEF Holders
  <2>5. CASE doc[j] # handler.doc
    BY <1>6, <2>1, <2>3, <2>5, JobStepOthers
  <2> QED BY <2>4, <2>5
<1>7. CASE Restart
  BY <1>7 DEF Restart
<1> QED BY <1>1, <1>2, <1>3, <1>4, <1>5, <1>6, <1>7 DEF Next, Request, HandlerStep

\* Only a removal takes a document off the record, and only then.
LEMMA RemovalOrder ==
  ASSUME TypeOK, JobsHaveDocs, PurgeHolds, [Next]_vars, NEW d \in Docs,
         record[d] # "absent", record'[d] = "absent"
  PROVE  chunks[d] = None \/ JobsOf(d) \cap Holders # {}
<1> USE DEF TypeOK, stores, jobs, history
<1>1. RemoveRecord
  <2>1. ASSUME NEW j \in Jobs, JobStep(j) PROVE record'[d] # "absent"
    BY <2>1 DEF JobStep, Acquire, Start, ClearChunks, InsertBatch, MarkIndexed, MarkFailed,
                Enrich, Finish, SetStatus
  <2>2. ASSUME \/ \E e \in Docs : SaveFile(e) \/ RemoveDocument(e)
               \/ AddDocument \/ PurgeChunks \/ UnlinkFiles \/ Restart \/ UNCHANGED vars
               \/ \E j \in Jobs : Submit(j)
        PROVE  record'[d] # "absent"
    BY <2>2 DEF SaveFile, RemoveDocument, AddDocument, Submit, PurgeChunks, UnlinkFiles,
                Restart, vars
  <2> QED BY <2>1, <2>2 DEF Next, Request, HandlerStep
<1>2. handler.at = "unrecord" /\ d = handler.doc
  BY <1>1 DEF RemoveRecord
<1>3. \A j \in Holders : doc[j] = d => j \in JobsOf(d)
  BY DEF Holders, JobsOf, Live
<1> QED BY <1>2, <1>3 DEF PurgeHolds

\* Chunks first, whatever else is going on: a document leaves the record with its
\* chunks gone or a job of its own still at work.
THEOREM RemovalIsChunksFirst == Spec => ChunksFirst
<1>1. Init => PurgeHolds
  BY DEF Init, PurgeHolds, Idle
<1>2. TypeOK /\ JobsHaveDocs /\ PurgeHolds /\ [Next]_vars
      => [\A d \in Docs :
            record[d] # "absent" /\ record'[d] = "absent" =>
              chunks[d] = None \/ JobsOf(d) \cap Holders # {}]_vars
  BY RemovalOrder
<1> QED BY <1>1, <1>2, TypeCorrect, StatusIsLive, PurgeStep, PTL DEF Spec, ChunksFirst

=============================================================================
