# A TLA+ model of the legal research assistant

The repository is a retrieval-augmented research assistant over Kenyan legal
material: a FastAPI backend (`backend/app`) that answers questions from a corpus
in Weaviate and from the documents a user uploads to a *matter*, and a Next.js
frontend. The repository also carries two agent skills with code of their own
(`.agents/skills/swarm`, `.agents/skills/brainstorming`). This directory holds TLA+ modules that model the parts of it where
order, interleaving and failure decide whether it is right, TLC configurations
that check them on small instances, and proofs that TLAPS checks for every
instance.

## 1. The system

### Components, state and operations

| Component | State | Operations |
|---|---|---|
| **Matter documents** (`api/routes/matters.py`, `matters/ingest.py`, `matters/delete.py`) | none of its own: it writes the matter record, the files and the chunks | upload (save, record, submit a job); the ingest job (status running, clear, embed, insert in batches, status indexed or failed, profile and topic tree); removal (chunks, record, files) |
| **Matter store** (`matters/store.py`) | one JSON file and one directory of originals per matter, a lock | create, list, get, add/update/remove document, save file, set topics and analysis, delete |
| **Job registry** (`jobs.py`) | jobs by id, their tasks, a semaphore of `ingest_concurrency` slots | submit, run, evict the oldest finished |
| **Workflow runs** (`workflows/runs.py`, `research.py`, `case_analysis.py`, `api/routes/workflows.py`) | per run: events, done, subscribers; the registry of runs | start, emit, finish, follow, evict |
| **Query graph** (`retrieval/graph.py` and the nodes it joins) | the `GraphState` that flows through the nodes | plan, retrieve (with relaxation), expand, topics, rerank, review rounds, generate, verify |
| **Planner and filters** (`retrieval/planner.py`, `plan.py`, `filters.py`) | the plan cache | plan, constrain to the request and the catalog, fall back, relax |
| **Retrieval cache** (`caching.py`) and **circuit breaker** (`resilience.py`) | entries by key with an expiry, keys by namespace; failures in a row and when it opened | get, set, invalidate; may call, success, failure |
| **Streaming bridge** (`api/streaming.py`) | one queue per request | pump the generator, drain to the client |
| **Case analysis** (`analysis/`) | warnings and the analysis under construction | extract per document, resolve authorities, merge, synthesise, store |
| **Catalog** (`retrieval/catalog.py`) | the catalog and when it was built, a lock | get, rebuilding on expiry |
| **Topic tree** (`tree/`) | summaries by tenant | build levels, replace, search |
| **Corpus ingest** (`corpus/ingest.py`) | the chunks already in the collection | compare counts, delete, insert |
| **Citation graph** (`graph/`) | an immutable map of citations | neighbours, resolve |
| **Research page** (`frontend/lib/useResearch.ts`, `useAnalysis.ts`, `stream.ts`, `components/Workspace.tsx`) | the phase, passages, answer and verdict of the last question; the working file; which of the two is shown and which authority is open | ask, stop, read an event, run or reopen an analysis, open and walk the authorities |
| **Matter rail** (`frontend/lib/useMatter.ts`, `components/MatterRail.tsx`) | the matters as last fetched, the one in use | list, create, upload, remove, refresh, poll while something is pending |
| **Filters** (`components/FilterRail.tsx`) | collections, courts and years of the next question | tick, untick, clear |
| **Authority panel** (`components/SourcePanel.tsx`, `PdfPage.tsx`, `lib/useNeighbourhood.ts`) | the page being rendered, the neighbourhood fetched | open, resize, render, fail |
| **Swarm skill** (`.agents/skills/swarm/scripts`) | tables as files with a cache of rows in front; one call of `run()` | create, evict, load, run over batches, merge, save |
| **Brainstorming companion** (`.agents/skills/brainstorming/scripts`) | the server's clients, screens and events; the page's socket, timer and queued clicks | connect, reconnect, click, notice a screen, stop, start; decode frames |

### How they interact

* **The event loop and worker threads.** Handlers and callbacks run one at a time on
  one asyncio loop. Jobs, searches and model calls run on worker threads. A handler
  that does not await is atomic with respect to other handlers, never with respect to
  the worker threads.
* **Calls.** An upload handler submits an ingest job to the job registry; a research or
  analysis handler starts a workflow run, which is a job too. The graph's nodes call
  Weaviate, the reranker and the models; each may fail or time out.
* **Callbacks.** A worker thread reaches the loop only by `call_soon_threadsafe`; its own
  result comes back the same way.
* **Shared state without a transaction.** The matter record, the files on disk, the chunk
  tenant, the summary tenant and the retrieval cache are each written on their own.

### What is hard here

1. Two jobs of one document, or a job and a removal, at once: nothing serialises them.
2. Each pair of stores can disagree after a failure, a removal or a restart.
3. A restart forgets all jobs and runs; nothing resumes them.
4. A client may connect to a run at any moment, and several times, while a thread emits.
5. A search that started before an upload ends may fill the cache after it.
6. The review loop, the relaxed searches and the fallbacks multiply the paths of a
   question; each must end, with an answer or a reason.
7. Breaker, cache and registries are shared by concurrent callers.
8. The page has several streams and requests out at once, of questions, analyses and
   tabs the user has already left; what they bring must not land on the current ones.
9. The swarm's batches come back in any order and in part, and a table can be evicted
   while a run is saving it.
10. The companion's server stops and comes back under an open page; its frames arrive cut anywhere.

`PROJECT.json` lists these as hazards, each at the line where it bites, with the
properties that would catch it going wrong.

### What makes each component correct

* *Matter documents* - an indexed document has each chunk once; every status shown to the
  user will be settled; what is listed can be opened; nothing removed can still be cited.
* *Job registry* - every submitted job runs or is lost to a restart; no slot leaks;
  unfinished jobs are never evicted.
* *Workflow runs* - every client sees one log, whole and in order, and learns the end
  after the last event; a finished status means a finished log.
* *Query graph* - bounded rounds, no search repeated, candidates within the budget, an
  answer or a reason, no verdict but on an answer.
* *Planner and filters* - a plan never widens what the request asked for; a
  relaxation never names a court the request excluded.
* *Cache and breaker* - a result older than the last invalidation is not served;
  an open breaker costs no calls until it cools down, and one success closes it.
* *Research page* - what is on screen is the last question's, the file is one analysis's;
  after Stop nothing moves; every wait ends, unless a research run fails without saying so.
* *Rail, filters, panel* - a pending document is seen to settle; no courts without case law;
  a tab shows what belongs to it.
* *Swarm* - every row is accounted for and has its own answer; what `run()` returned is saved
  as long as the cache knows the file's text.
* *Companion* - one reconnection at a time; clicks made during an outage are sent when it is
  over (one sent into a socket whose server has just died, or whose connection is lost on the
  way, may be lost); every whole frame handled once.
* *Store, tree, catalog* - readers see a whole record; one tree per matter; one rebuild per
  expiry.

## 2. The modules

| Module | What it is |
|---|---|
| `MatterIndex` | the documents of one matter: handlers, ingest jobs, three stores |
| `MCMatterIndex` | its symmetry for TLC |
| `MatterIndexProofs` | its invariants, proved |
| `EventLog` | the abstract log a run promises its followers |
| `WorkflowRun` | one run: worker thread, callback queue, loop, followers; implements `EventLog` |
| `WorkflowRunProofs` | its invariants and the refinement, proved |
| `AnswerStream` | the abstract stream one question promises its reader |
| `QueryGraph` | one question through the graph of nodes; implements `AnswerStream` |
| `MCQueryGraph` | a corpus of five passages for TLC |
| `QueryGraphProofs` | its invariants and the refinement, proved |
| `Workspace` | the research page: the question, the working file and what crosses them |
| `WorkspaceProofs` | its invariants, proved |
| `MatterRail` | the matters on the page against those on the server |
| `FilterRail` | the filters |
| `AuthorityTab` | the open authority: its page preview and its neighbourhood |
| `RetrievalCache` | the cache between searches, changes of an index and invalidations |
| `CircuitBreaker` | the breaker between concurrent callers and a provider |
| `WorkflowRegistry` | the registries of jobs and of runs, and their eviction |
| `CorpusIngest` | the resumable corpus ingest |
| `SwarmRun` | one call of `run()` after another over a table |
| `SwarmTable` | the tables' files and cache |
| `Companion` | the companion's page and server |
| `CompanionFrames` | its WebSocket frame reader |
| `Sublists` | the entries of an ordered list that are in a set, which three of these use |
| `MCParts` | the eleven from `MatterRail` to `CompanionFrames`, side by side for TLC |
| `InductionLemmas` | induction over numbers, and what sums, sublists and one-to-one lists are |
| `BackendProofs` | the invariants of the cache, the breaker, the registries and the corpus ingest, proved |
| `PageProofs` | those of the filters, the authority panel and the matter rail |
| `ToolsProofs` | those of the companion and the swarm, and the types of all parts side by side |

A definition that ends in `_Something` and is commented *Mutant* is a plausible bug
in the definition that follows it. No specification uses it; put in that definition's
place, it breaks the property `PROJECT.json` pairs it with, which shows that the
property depends on that code.

### MatterIndex

| Code | Model |
|---|---|
| `matter.json`: the status of each document | `record[d]`, `"absent"` when the matter does not list it |
| originals under the matter's directory | `files` |
| the matter's tenant in Weaviate | `chunks[d][b]`: copies of insert batch `b` of document `d` |
| a job of the registry, its task and its slot | `at[j]`, `doc[j]`, `batch[j]` |
| the request handler running on the loop | `handler` |
| `upload_document` | `SaveFile`, `AddDocument`, `Submit` |
| `delete_document` and `MatterStore.remove_document` | `RemoveDocument`, `PurgeChunks`, `RemoveRecord`, `UnlinkFiles` |
| `JobRegistry._run` | `Acquire`, `Finish` |
| `ingest` and `index_document` | `Start`, `ClearChunks`, `InsertBatch`, `MarkIndexed`, `MarkFailed`, `Enrich` |
| a restart of the process | `Restart` |

A handler's body does not await after it starts to write, so at most one handler is in
progress and `Acquire` and `Finish`, which need the loop, wait for it. The worker
threads do not wait, so every store call of a handler is a step of its own. A mutation
of the store is one step because the store's lock covers it - except that
`remove_document` unlinks the files after it releases the lock, hence two actions.
`stranded` and `overlapped` are history: the documents a restart caught in flight, and
those uploaded again over a live job.

### WorkflowRun and EventLog

| Code | Model |
|---|---|
| `WorkflowRun.events`, `.done`, `._subscribers` | `events`, `done`, `subscribers` |
| the thread that runs `research.run` or `case_analysis.run` | `worker`, `produced`; `Start`, `Emit`, `Finish`, `Return` |
| `call_soon_threadsafe` and the thread's result | the queue `callbacks` |
| `_publish` on the loop | `Publish` |
| `JobRegistry._run` resuming | `Settle`, `status` |
| a `follow()` generator | `following`, `finished`, `replay`, `queue`, `sent` of a follower |
| `follow`: snapshot and subscribe; the replay; the queue; the two returns; the `finally` | `Follow`, `YieldReplay`, `YieldNext`, `StreamEnds`, `Disconnect` |

`EventLog` knows nothing of threads, callbacks or queues: a log that grows and closes,
and readers who each read it from the start. `WorkflowRun` implements it under the
mapping log = `events`, closed = `done`, reading = `following`, seen = `sent`.

### QueryGraph and AnswerStream

| Code | Model |
|---|---|
| the `GraphState` between two nodes | `plan`, `followUps`, `rounds`, `searched`, `documents`, `grounded` |
| `hybrid_score` in a passage's metadata | membership of `scored` |
| the edges of `build_graph` | `node`, and the `RouteAfter...` operators |
| `sources`, `done`, `verdict` and `error` of `stream_query` | `sources`, `reply`, `verdict`, and `node = "failed"` |
| one action for each node function | `Plan`, `Retrieve`, `Expand`, `Topics`, `Rerank`, `Review`, `Generate`, `Verify`, `Decline` |
| the searches of earlier passes (`state["retrieval"]`) | `searched`, `Recorded`; `passes` is history: the texts of each pass |
| a stage that is switched off | `SwitchedOff` |
| the end of `stream_query`, and its `except` | `Close`, `Fail` |

A node that catches its own failures (plan, rerank, review) has the fallback among its
outcomes; `Fail` is a failure nobody catches: that of a node without a fallback, of a plan over
no collection at all, of what a review does outside its `try`, and of the last event's making. What Weaviate, the citation graph, the topic tree, the reranker and
the models come up with is any list of passages within their reach: a passage is a
name with a collection, and `Admitted` says which ones the user's courts and years
let through. `_within_budget` (`Fits`, `Widen`) is modelled as it computes, a negative
room included; only ties and the scores' values are left open.

`AnswerStream` is what the reader may rely on: passages may be replaced until something
is said about them, one answer at most, only over passages on show, one verdict on
it, then a clean end - or an error, wherever the stream stands.

### Workspace

| Code | Model |
|---|---|
| the state of `useResearch` | `shown`; its `by` collects the questions whose events wrote it |
| the current `AbortController` | `live`, 0 after Stop; `Aborted` is `signal.aborted` |
| a question's request and stream | `read[k]`: the last event read, `"posting"` and `"opening"` before the first |
| `submit`, `cancel` | `ask`, `research`, `cancel` |
| the `for await` of `submit`, its `catch`, the end of the stream | `ReadEvent` with `After`, `Fails`, `Closes` |
| a stream that ends before its last event (`finally: run.finish()` of `research.py`) | `Cut`, where `Unguarded` |
| the state of `useAnalysis`, its controller, its stream | `file`, `liveRun`, `readRun[j]`; `analyse`, `openAnalysis`, `ReadRunEvent`, `RunFails` |
| `.then(refreshMatter)` | `Refreshed`, which puts a stored analysis on the page's copy of a matter |
| `view`, `openIndex`, `citations`, `bundleOpen` of `Workspace.tsx` | `view`, `openIndex`, `bundle`, `bundleOpen`; `openedOn` is history |

`Follows` says what a server may send after what: the order `stream_query` keeps, which
`QueryGraph` checks, cut off anywhere by a failure. `Unguarded` says where a research run may
fail with no `error` event: before the graph starts, and where the answer or its verdict is put
together outside `stream_query`'s `try` or in its caller. The run's log is finished all the
same, so the stream ends cleanly, the loop over its events is done, and the page stays in the phase it had. An aborted reader still gets the events
that were read before the abort reached it; `Aborted` is what keeps them off the page. Every
setting of state is one step, since React applies a handler's updates together.

### MatterRail, FilterRail, AuthorityTab

| Code | Model |
|---|---|
| `matters`, `currentId` of `useMatter`, the stored id | `matters`, `currentId`, `remembered`; `Known`, `current`, `pending` |
| the server's record of each matter | `onServer`; `JobSettles` is an ingest job ending |
| a request of the page | `request[r]`: `Begin`, `Done`, `Poll`, `Refresh`, then `Read` at the server and `Arrives` or `FetchFails` at the page |
| `listMatters` on mount, a reload of the page | `ListAnswered`, `ListArrives`, `Reload` |
| `filters` and the controls of `FilterRail` | `filters`; `toggleCollection`, `toggleCourt`, `setYear`, `ClearFilters`; `asked` is what the last question took |
| the effect of `PdfPage`, its cleanup, its three awaits | `jobs` with `live` and `at`; `Renders`, `PageLoaded`, `PageDrawn`, `PageFails` |
| `rendered`, `failed`, the canvas | `rendered`, `failed`, `canvas`, each the key it is of; `status` |
| `useNeighbourhood` and its module-level cache | `loaded`, `awaiting`, `graph`; `GraphAnswers`, `CachedAnswer`, `neighbourhood` |

pdf.js refuses to render twice at once on one canvas, which is the failure `PageLoaded` has
when another rendering is drawing.

### RetrievalCache, CircuitBreaker, WorkflowRegistry, CorpusIngest

| Code | Model |
|---|---|
| `_entries`, `_namespaces` of `TTLCache` | `expiry` (keys, oldest first), `value`, `namespaces` |
| `_search`: get, `hybrid_search`, set | `Hit`, `Miss`, `Finds`, `SearchFails`, `Sets` |
| an upload or a removal, and the invalidation at its end | `ChangeIndex`, `Invalidate` |
| `_failures`, `_opened_at`, the clock | `failures`, `circuit`, `CoolsDown`; the calls an outage caught are `hit` |
| `JobRegistry._jobs`, `WorkflowRuns._runs`, `updated_at` | `jobEntries`, `runEntries`, the order `updated`; `SubmitJob`, `BeginJob`, `RunIsDone`, `EndJob` |
| `corpus.ingest.run` and `index_document` | `StartIngest`, `NextDocument`, `CountChunks`, `ClearDocument`, `InsertChunks`, `EndIngest` |

What a search found is the version of the index it read. A search that has its answer but has
not stored it when the invalidation comes stores it afterwards, and it is served until
its TTL: `CacheFresh` names that gap (`overtaken`) and says there is no other.

### SwarmRun, SwarmTable

| Code | Model |
|---|---|
| `resolveBatchGroups`, `createBatches`, `buildDispatchUnits` | the operators of these names; a group is a size's rows (`Alike`), in the order the sizes first occur (`Leads`) |
| `dispatch`: `idx`, the workers, `results[i]` | `idx`, `holding`, `Slot`; `Take`, `Answer` |
| `unpackDispatchResults`, `mergeRowResults`, the summary | `Unpacked`, `Completed`, `Tally`, `FinishRun` |
| `.swarm/*.jsonl`, the cache, `lastWritten`, `sequenceCounter` | `fileOf`, `content`, `cached`, `cachedRows`, `lastWritten`, `sequenceCounter` |
| `listTableFiles`, which answers with nothing when it fails | `Listings` |
| `createTable` between its awaits | `Create`, `EvictNext`, `Overwrite`, `Number`, `WriteNew`, `Created` |
| `loadTable` between its awaits | `RunOn` and `ReadRows` on a hit or a miss, `ReadText`, `CacheSet` |
| `saveTable` around its await | `Save`, `Edit`, `Saved` with `Remembered` |
| a tool that rejects, before or after it reached the file | `Rejects` |

A row is its place in the table, an answer the rows it has an object for; JSON, schemas and
prompts are left out. Two calls of `run()` on one table at once would share its row objects;
the skill's examples await each call, and the model does not overlap them. Calls of `rows()`
and `create()` overlap with everything. `strayed` is history: the tables whose cache may have
left their file behind - an eviction picked the table, a `CacheSet` put an older text or a
second entry in the cache, or an edit took effect and was then reported as failed. After any of
them `editFile` finds nothing to replace, says so in a string nobody reads, and `run()` returns as if it had saved.

### Companion, CompanionFrames

| Code | Model |
|---|---|
| `ws`, `reconnectTimer`, `eventQueue`, `tombstoneShown` of `helper.js` | `socket` and `conn`, `timers`, `eventQueue`, `tombstone` |
| `connect`, `onopen`, `onclose`/`onerror`, `sendEvent` | `Reconnect`, `Opens`, `OnClose` with `Rescheduled`, `Click` |
| `handleMessage`, the watcher, `shutdown`, `startServer` | `Receive`, `Notice` and `NoticeUpdate`, `Stop`, `Start` |
| a connection lost while the server runs on | `Drops` |
| `decodeFrame` and the `data` handler | `decodeFrame`, `Chunk`, `DecodeNext` with `Handle`; a frame is an opcode and a length, the stream a count of bytes |
| `socket.end`, and a write after it | `connection`, `Write` |

`socket.end()` ends only what the server writes. The `data` handler stays, so frames that come
in a later chunk, after the one that ended the connection, are decoded and handled as well,
until a write to the ended socket destroys it; `FramesDelivered` allows for that.

Time is left out: whether an outage was long enough for the overlay is a free choice. A
restarted server takes the last one's port and key, as `server.cjs` does when it can; a page
whose server came back elsewhere is a page whose server did not come back.

## 3. The runs

| Run | Configuration | Expected | What it shows |
|---|---|---|---|
| `matter_index` | `MCMatterIndex.cfg` | pass | the record, the files and the chunks agree as far as the code keeps them together |
| `matter_settles` | `MCMatterIndexSettles.cfg` | pass | with one slot every upload is decided, and documents are indexed once even when uploaded over their own job |
| `workflow_run` | `MCWorkflowRun.cfg` | pass | followers see whole logs in order and learn the end last; refinement of `EventLog`; streams end |
| `query_graph` | `MCQueryGraph.cfg` | pass | bounded rounds, no repeated search, budget, scope, sources; refinement of `AnswerStream`; every question ends |
| `workspace` | `MCWorkspace.cfg` | pass | old questions, analyses and tabs write nothing into the current ones; every wait ends, but that of a run cut off in silence |
| `parts` | `MCParts.cfg` | pass | the eleven smaller machines, each with its own properties |
| `retry_duplicates` | `MCMatterIndexRetry.cfg` | violation | a retried upload can store a document's chunks twice |
| `removal_leaves_chunks` | `MCMatterIndexRemove.cfg` | violation | a removal under a running job leaves chunks nobody lists |
| `partial_index` | `MCMatterIndexPartial.cfg` | violation | a failed insert leaves a partial index |
| `topics_scope` | `MCQueryGraphScope.cfg` | violation | topics bring in passages of courts and years the user excluded |
| `kept_displaced` | `MCQueryGraphKept.cfg` | violation | a second pass drops passages the first one kept before they are reranked again |
| `stop_leaves_busy` | `MCWorkspaceStop.cfg` | violation | after Stop the page goes on saying that it works |

`parts` is one specification over eleven machines that share no state: its initial states
choose one, and only that one moves. Its behaviours are those of the eleven, one after
another rather than interleaved, so each property means what it would mean in a run of its
machine alone. `MCParts` restates the fairness of the three machines that have any, each
conditional on being the one that runs.

### Bounds, and why they are enough

* `matter_index`: two documents, three uploads, two batches, two slots, one restart. Two
  jobs can be on one document while a third waits or is on the other; a batch can fail
  with one behind it; a document can be removed, uploaded again and stranded. Documents
  are interchangeable, so they are symmetric. Fewer slots make the semaphore wait.
* `matter_settles`: one slot, so that a slot that leaks is felt; no symmetry, because of
  the liveness property.
* `workflow_run`: two followers, three events. The order of replay, queue and
  disconnection of one follower does not depend on the others; two show that the
  subscriptions do not mix, three events that a snapshot may end in the middle.
* `query_graph`: five passages, one of an excluded year and one of an excluded collection,
  one of them found in a pass and displaced in another; four texts, so that a
  third pass, and the last review, have something left to ask; three rounds, two that may ask, so that the second could
  repeat the first pass, and the last that may not; a budget of three that two lookups and one neighbour fill
  exactly, below a pool of three found; a mode that keeps fewer passages than the reranker returns, and
  modes that keep as many.

* `workspace`: five clicks of the user, two questions, two analyses, two matters. Two questions
  are enough for one to overtake another at every point of its stream; five clicks for an
  analysis to be run, left, reopened and left for a question again, with a tab opened on the way.
  A list of citations is empty or has two, so that it has a first and a last.
* `parts`, swarm: four rows, batches of one and two, two workers, two calls - a batch that is
  short of rows, a group of each size, and a retry; two flows over a store that holds one
  table, so that a creation evicts what it finds, a read or an eviction can overtake a save, and
  one restart of the session.
* `parts`, companion: two choices, one screen and two stops; frames of 125, 126, 65536 and
  10485761 bytes, each side of every form of the length and over the maximum, two of them, cut
  inside a header, at its end and inside a payload.
* `parts`, page: two courts, one year; two pages and two authorities, so that each kind of tab
  replaces each; two matters, one document, two requests, which is where a late
  reply meets an early one.
* `parts`, backend: three callers over a threshold of two, so that a failure may come after the
  breaker opened; a cache of two entries under three keys and two searches; documents of
  one batch and two over three runs; two jobs and one run kept, of four submitted.

A question, a run and a sequence of uploads end, so `CHECK_DEADLOCK` is off where the
model has a last state: when the uploads are used up, when a stream is closed, when the user has nothing left to click and
when a part's bounds are used up. It
stays on for `workflow_run`, where a client can always come or go.

### Fairness, and why the code justifies it

* `MatterIndex`: weak fairness of the handler in progress and of each job - every store
  and model call has a client timeout, and a thread is scheduled. Strong fairness of
  `Acquire` and `Finish`: they wait for the loop between requests, and the loop's ready
  queue is first come, first served. None for requests, nor for restarts.
* `WorkflowRun`: weak fairness of the worker, of the loop's callbacks and of each connected
  client's reading. None for clients coming and going.
* `QueryGraph`: weak fairness of the one thread that runs the graph, whose calls have
  timeouts.
* `Workspace`: weak fairness of reading each stream - the server sends its next event or the
  network fails, and the loop runs the callback - and of noticing its end. A stream cut off in
  silence is over, and owes nothing. None for the user.
* `MatterRail`: weak fairness of requests, of the polling interval and of the ingest jobs
  (whose own run shows what a restart does to them); strong fairness of replies, as a matter
  polled for ever is not refused for ever.
* `Companion`: weak fairness of the browser's timers and callbacks, of the server's reading, and
  of `Start`, the agent bringing a stopped companion back; without it a click waits for ever.
* `CircuitBreaker`: time passes, calls end by their timeouts, and questions keep being asked.

### Where the code and its comments part

1. `api/routes/matters.py:87` promises that a retried upload is re-indexed in place; two
   jobs of one document may interleave (`RetryNeverDuplicates`). `IndexedOnce` states what
   does hold: it excludes exactly the documents uploaded over a live job while more than
   one slot exists.
2. `matters/delete.py:1` promises to remove everything derived; a job between its clear and
   its inserts writes after the removal (`RemovedLeavesNothing`). `ChunksFirst` states the
   order the code does keep.
3. `matters/ingest.py:5` promises that no partial index is left (`NoPartialIndex`).
4. `retrieval/state.py:31` calls the user's filters hard constraints; topics check the
   collection only (`UserScopeIsHard`). `ScopeWithoutTopics` states what holds.
5. `retrieval/retrieve.py:15` promises that what the first pass kept stays for the reranker;
   the budget drops it first where it has no hybrid score (`KeptStays`).
6. `useResearch.ts:17` calls the phase what the screen is doing. Stop aborts the stream and leaves
   the phase, so the page stays "answering" with nobody answering (`BusyIsWorking`), and the composer, which takes a phase
   other than idle and done for busy, refuses the next question. `StoppedIsFrozen` states
   what holds: nothing else moves either.

Three more have no run of their own.

* `caching.py:142` says that an upload is never answered from results computed before it; the gap
  described under `RetrievalCache` is the exception `CacheFresh` spells out.
* `workflows/research.py:32` says that the stream reports a failure to its followers. A failure
  outside `stream_query`'s `try` sends them no `error` event: their streams just end, and the page
  stays busy. `EveryWaitEnds` names it as the one wait that does not end.
* `retrieval/expand.py:18` says that the pool never grows past a budget; `PoolWithinBudget` holds
  where one stage's additions fit in that budget, for otherwise the room left is negative.

In `PdfPage.tsx:45` two citations of one page share a key, so the second shows the first's box
until its own rendering is done; `AuthorityTab` gives each citation a key of its own, and
`PanelShowsOpenAuthority`, which is about a panel with no rendering under way, does not depend on it.

## 4. What is proved

TLAPS checks these for every value of the constants, under the named assumptions of
the modules: limits and bounds are natural numbers, and those the code divides or
compares by are positive (batches, slots, thresholds, workers); a mark (`NoDoc`, `END`,
`NoMatter`, `ABSENT`) is none of what it marks the absence of; the filters name passages and
collections of the corpus; a key belongs to one namespace, a corpus document has a
number of chunks; the breaker has finitely many callers. What the bounds of the
configurations say of size - two slots, four rows, five clicks - is assumed nowhere.

| Theorem | Property |
|---|---|
| `MatterIndexProofs!TypeCorrect` | `TypeOK` |
| `MatterIndexProofs!OriginalsKept` | `ListedHasOriginal` |
| `MatterIndexProofs!StatusIsLive` | `NoLimbo` |
| `MatterIndexProofs!IndexedMeansOnce` | `IndexedOnce` |
| `MatterIndexProofs!RemovalIsChunksFirst` | `ChunksFirst` |
| `WorkflowRunProofs!RunTypeCorrect` | `TypeOK` |
| `WorkflowRunProofs!StreamsAreComplete` | `ClosedIsComplete` |
| `WorkflowRunProofs!StatusIsLast` | `StatusComesLast` |
| `WorkflowRunProofs!NobodyElseIsFed` | `OnlyFollowersSubscribed` |
| `WorkflowRunProofs!RunImplementsLog` | `ImplementsLog` |
| `QueryGraphProofs!TypeCorrect` | `TypeOK` |
| `QueryGraphProofs!NoRepeatedSearch` | `NeverSearchedTwice` |
| `QueryGraphProofs!ScopeKeptWithoutTopics` | `ScopeWithoutTopics` |
| `QueryGraphProofs!BudgetKept` | `PoolWithinBudget` |
| `QueryGraphProofs!AnswersStandOnSources` | `AnswersOverSources` |
| `QueryGraphProofs!GraphImplementsStream` | `ImplementsStream` |
| `WorkspaceProofs!WorkspaceTypeCorrect` | `TypeOK` |
| `WorkspaceProofs!ShownIsAskedHolds` | `ShownIsAsked` |
| `WorkspaceProofs!FileOfOneRunHolds` | `FileOfOneRun` |
| `WorkspaceProofs!DeskTabHolds` | `DeskTabIsThisQuestions` |
| `WorkspaceProofs!StoppedStaysFrozen` | `StoppedIsFrozen` |
| `BackendProofs!CacheStaysFresh` | `CacheFresh` |
| `BackendProofs!CorpusStaysExact` | `CorpusExact` |
| `BackendProofs!UnfinishedStaysKept` | `UnfinishedKept` |
| `BackendProofs!CacheTypeCorrect`, `BreakerTypeCorrect`, `CorpusTypeCorrect`, `RegistryTypeCorrect` | the type invariant of each |
| `PageProofs!CourtsFollowCaseLaw` | `CourtsNeedCaseLaw` |
| `PageProofs!PanelIsOfOpenTab` | `PanelShowsOpenAuthority` |
| `PageProofs!FilterTypeCorrect`, `TabTypeCorrect`, `RailTypeCorrect` | the type invariant of each |
| `ToolsProofs!OneReconnectHolds` | `OneReconnect` |
| `ToolsProofs!FramesAreDelivered` | `FramesDelivered` |
| `ToolsProofs!ReturnedStaysSaved` | `ReturnedIsSaved` |
| `ToolsProofs!BatchesCover` | `BatchesCoverWithinLimit` |
| `ToolsProofs!EveryRowAccountedFor` | `RunAccountsForEveryRow` |
| `ToolsProofs!CompanionTypeCorrect`, `FramesTypeCorrect`, `TableTypeCorrect`, `SwarmRunTypeCorrect` | the type invariant of each |
| `ToolsProofs!PartsTypeCorrect` | `PartsTyped` |

With these every invariant of a passing run is proved, and so are both action
properties and both refinements.

The inductive invariants, and why they are needed:

* **MatterIndex.** `IndexedOnce` speaks of documents at rest, so it says nothing of a job
  half way through. `Progress` does: the only live job of an undisturbed document has put
  in exactly the batches its counter says (`Written`). That holds only while no second
  job is on the document, which `Exclusion` and `FirstComeFirstServed` give - with
  one slot, or with no upload over a live job. `HandlerProgress` relates the stores to the
  step a handler has reached, and gives `ListedHasOriginal`; `PurgeHolds`, that a purged
  document stays purged unless a running job writes, gives `ChunksFirst`.
* **WorkflowRun.** `RunInv` says that the log and the callbacks still queued, put end to end,
  count up to what was produced, with END behind the last event and the result behind END
  (`LogInv`); and that for a connected follower, what was sent, the rest of the snapshot
  and its queue, put end to end, are the log so far (`FollowerInv`). Every property and
  the refinement follow from it.
* **QueryGraph.** What is on record (`searched`) is the union of what the passes so far searched, and a
  pass under way takes follow-ups from outside it; `NoRepeatedSearch` rests on both.
  `Counted` ties passes to reviews at each node; `Confined` keeps plan and
  follow-ups in the user's collections, from which the scope of what they find follows;
  `Bounded` carries the budget from one stage to the next, over the lemma `WidenFacts`
  about the pool `_within_budget` hands on; `Conversation` says, node by node, what the
  reader has been told, and is what the refinement rests on.

* **Workspace.** Nobody but the reader of `live` may write to the desk, and `live` is the last
  question or none (`DeskInv`); an older stream still being read finds itself aborted. `FileInv`
  says the same of analyses, and that the page's copy of a matter holds that matter's own
  analysis, which reopening it relies on. `StoppedIsFrozen` follows: where nothing is live,
  `Aborted` holds of every stream.
* **RetrievalCache.** An invalidation drops what the namespace lists, so every entry must be
  listed in its namespace (`CacheInv`), evicted and refreshed ones included; and an answer that
  is found but not yet stored must already be as new as the last invalidation, or marked.
* **CircuitBreaker.** `BreakerInv` counts: with the circuit not closed no call begins, and
  each one under way can add one failure, so failures and calls together stay bounded.
* **CorpusIngest.** The document under way has exactly the chunks before `from`. That is why
  comparing counts suffices: what an interrupted run left has fewer, never others or more.
* **WorkflowRegistry.** Each job is once in the order of age, so dropping the oldest finished ones
  drops as many as are over the limit, or all there are.
* **FilterRail, AuthorityTab, MatterRail.** A rendering still wanted is of the open tab, and what
  the canvas has when none is wanted is what was last rendered (`TabInv`); what the page or a
  reply holds of a matter was read from the server, which forgets none (`RailInv`).
* **Companion, CompanionFrames.** A loaded page has a connection or a timer and never both. What
  was consumed ends where the handled frames end, and where frames end grows with each
  frame (`Ends`), so no way of cutting the stream can skip or repeat one.
* **SwarmTable.** `CacheKnows`: for a table that has not strayed, what the cache says was last written
  is the file's content, except between a save's edit and its return. That needs to say of each call under way what it has in its hands (`CallOK`,
  `WorkOK`): the rows to be saved hold what the file holds, and the entry being saved is still
  the cache's. No two calls are at work on one table (`Apart`), and no two create one file (`StoreOK`).
* **SwarmRun.** The units cut up the selected rows (`CutsUp`, carried from `createBatches` through
  groups and concatenation); a unit has its answer once it is taken and no worker awaits it; this
  call's mark is in no row before the end. The number of batches is a lemma on division.

TLC checked each inductive invariant on the instances of the runs before it was proved. Where a
proof needs induction over numbers or lists, `InductionLemmas` states it of a *set* of numbers -
a non-empty one has a least - because the library's induction takes an operator as parameter.

The proofs corrected the model in four places. Guards of a `CASE` that can hold together (an
empty document of the corpus is whole and absent at once) left the choice open: they are now
in the code's order. `Decision` and `InsertChunks` of `CorpusIngest`, `status` of `AuthorityTab` and
`decodeFrame` of `CompanionFrames` were such. `ABSENT` was not said to differ from a matter. The type
of `reviews` in `Workspace` left out the review a page gets when there is room for none. And lists
were filtered by an operator the provers cannot instantiate; `Sublists` filters by a set.

**Only model-checked.** The liveness properties `Settles`, `StreamsEnd`, `Ends`, `EveryWaitEnds`,
`ClickArrives`, `RailSettles` and `BreakerRecovers`, as fairness is out of the prover's reach; and the
violations, which need one instance.

## 5. What is not modelled, and why

* What a model, the reranker, the embeddings or Weaviate compute: any answer is possible.
* Authentication, rate limits, configuration, metrics, tracing, prompts: no state the
  rest depends on. `PROJECT.json` lists them, and notes the one place where the two query
  routes record different scores for the same withdrawn answer.
* Inside `QueryGraph`: the plan, review and token events (progress only), the plan cache (a
  cached plan is one of the plans there are; a cached result one of the choices a search has),
  and the text of answers and of citation markers.
* Inside `MatterIndex`: the removal of a whole matter, and the content of the profile and the
  topic tree. `RetrievalCache` models the invalidation a job ends with on its own.
* The topic tree, the citation graph, the case analysis, the catalog, scoring and citations: text,
  clustering and model output, or one cached value. `PROJECT.json` gives the reason for each.
* In the frontend: markup, formatting, Markdown, scrolling and focus, and events that cannot be
  parsed, which `readEvents` skips. Of the page's
  streams, that an event reaches the reader in the order it was sent is taken from HTTP.
* In the skills: JSON schemas, prompts and interpolation of the swarm (whether a row has the columns an
  instruction names is a free choice), two sessions over one table store at once, table ids that collide and
  sequence numbers past 999, whose file names no longer sort; the key, the cookie, the port files and the idle
  timer's arithmetic of the companion. Both are vendored (`skills-lock.json`); their code is
  modelled as it stands here.
* The other skills and the infrastructure: documents and configuration.

## 6. Plan

The model is as wide as it is meant to be, and every safety property its passing runs check is
proved. What is left:

1. Action properties of the parts that are implied by their invariants' proofs and not stated
   yet: a cache entry's version never goes back, a handled frame is never handled again.
2. An abstract store for `SwarmTable` - a set of saved runs per table - and the
   refinement, with strayed tables as its exception; the same for `RetrievalCache` over a map
   from keys to versions.
3. `ToolsProofs` is the longest module; its lemmas on cutting up rows would read better with the
   other lemmas on lists in `InductionLemmas`.
