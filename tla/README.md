# Verification of Espacio Tiempo Humanos (eth_pipeline)

TLA+ specifications of the document pipeline in `src/src/eth_pipeline`, checked with TLC and, for
their safety properties, proved with TLAPS. Source paths below are relative to `src/src/eth_pipeline/`
unless they start with `README.md`, `next.md`, `tests/` or `scripts/`.

## 1. The system

Clients submit documents to a FastAPI process. It stores them in PostgreSQL (files also in MinIO) and
starts a Temporal workflow `doc-<id>`. A worker process polls the task queue and executes the
workflow's activities: extract the text, cut it into chunks, and for every chunk ask an LLM for events
and store them; at the end the references of the events are given document offsets. The web client
polls the document's status and queries the event tables.

| Component | State it keeps | Operations | Interacts with |
|---|---|---|---|
| Processing workflow (`workflows.py`) | the local variables of `run()`, replayed by Temporal | one await after another, a loop over the chunks, one `except` that writes `failed` | schedules activities, sees their results |
| Activities (`activities/`) | none of their own | statements on the tables, most committed one by one; `store_events_v7` uses a transaction | PostgreSQL, LLM, MinIO |
| Worker (`scripts/run_worker.py`) | attempts in execution, the connection pool | poll, run, report, crash | Temporal server |
| Submit and delete handlers (`api/routes/documents.py`) | none | INSERT and start; DELETEs one by one, then terminate | PostgreSQL, MinIO, Temporal |
| Database pool (`db.py`, `processing_log.py`) | `_pool`, `_lock`, borrowed connections | `get_pool`, `get_db`, `log` | every activity of the process |
| Provider registry (`providers.py`) | `llm_provider`, `model_color` | add, delete, seed, assign a colour | delete cascades; documents name a provider |
| Blob storage (`storage.py`) | objects in MinIO | put, get, remove | upload, extract_text |
| Processing log (`processing_log.py`) | `document_event_log` | `log`, capped at 100 rows | all activities |
| LLM usage and calls (`llm_usage.py`, `llm_call_recorder.py`) | `llm_usage`, `llm_call_log` | UPSERT | extract_events |
| Chunker, extractors (`chunker.py`, `extractors.py`) | none: pure functions | read pages, accumulate page offsets, split, distribute, merge, map offsets to pages | chunk, extract_text |
| Offset helpers (`offsets.py`) | none | imported by nothing in the repository | |
| LLM client (`llm.py`) | none | request, parse | extract_events |
| Geocoding (`geo/geocode.py`, `api/routes/geo.py`) | coordinates in `event_location` | backfill, map | rows stored by the pipeline |
| Read API (`api/routes/documents.py`, `events_v2.py`) | none | lists page by page, a document with its counts, the detail of an event: several statements each | every table |
| Lifespan (`api/lifespan.py`) | the Temporal client of the process, or none | start | submit handlers |
| Web client (`static/`) | the rows it has fetched | fetch all pages, poll, render | read API |
| Passcodes, migrations | none, or before start-up only | checks | |

What is hard, and where it bites:

* **Attempts that outlive their timeout.** Temporal starts a retry once `start_to_close_timeout` has
  passed, but the first attempt goes on until the SDK cancels it: two attempts of one activity work on
  the same rows, and the first may still commit after the workflow has moved on.
* **Crashes between statements.** Only `store_events_v7` has a transaction; the other activities leave
  what they did so far, and rely on the retry to repair it.
* **Errors that are no errors to Temporal.** Several activities catch every exception and return a
  dict; `run()` looks at some of them and not at others.
* **A delete request during processing.** The handler removes rows statement by statement while the
  worker inserts, and asks Temporal to terminate the execution only afterwards.
* **Shared, bounded resources.** One pool of ten connections for all attempts of a worker, some of which
  take two at a time; a palette of twenty colours.
* **Two stores without a transaction.** An upload writes to MinIO and then to PostgreSQL; either call may
  fail after it took effect, and the API may die in between.
* **Records that write over each other.** Log, usage and call rows have ids made of document, step and
  position, so a retry, and in the log the next chunk, overwrites what was there, partly.
* **Arithmetic at boundaries.** Page offsets that must count the separators between pages; a greedy fill
  with a merge and a second pass, where a sentence can get lost, doubled or put into an empty chunk.
* **Reads without a transaction.** A page is a COUNT and a SELECT, a detail four SELECTs, each committed on
  its own; the pipeline, deletes and the geocoder write in between, and between the pages of a scan.
* **Check, then act** in separate statements: provider names, free colours, the cap of the log.

What makes each part correct: the pipeline loses no events and publishes none that nobody extracted, in
text order, whatever the worker does; the status agrees with the execution and settles; no row outlives
its document; the process opens one pool, and attempts do not wait for each other for ever; a provider
name means one provider and a colour belongs to a provider that exists; the records of a chunk tell of the answer whose events were stored; a document that was accepted keeps its
content, and a blob nobody refers to has a reason, as has a document that stays pending; a client that reads
all pages misses no row and sees none twice without a reason it could know; what is shown of an event or a
processed document is whole; equal names of places get equal coordinates; chunks hold every sentence of the
text once and in order, and the offset of a character finds its page; the references whose text is in their chunk, and
no others, get document offsets; a document changes from one model to another at most once. `PROJECT.json` lists every
hazard at its line, with the properties that cover it.

## 2. Modules

| Module | Models |
|---|---|
| `DocPipeline` | one document from submission to deletion: tables, workflow, Temporal's scheduling, worker slots, submit and delete handlers |
| `Publication` | the abstract promise to readers of the event tables; `DocPipeline` implements it |
| `DocPipelineInv` | the inductive invariants: `IInv`, `BaseInv` under any fault, `CrashInv` under worker crashes only |
| `DocPipelineProofs` | theorems about `DocPipeline` under any fault: types, safety, the refinement of `Publication` |
| `DocPipelineCrash` | theorems about what holds when workers crash and nothing else goes wrong |
| `MCDocPipeline` | instance for TLC |
| `ConnectionPool`, `ConnectionPoolProofs` | the pool of a worker process, and theorems |
| `Providers`, `ProvidersProofs`, `MCProviders` | the provider registry, theorems, instance for TLC |
| `Chunking`, `ChunkingProofs` | from the pages of a file to the rows of `document_chunk`, and theorems |
| `Ingest`, `IngestProofs` | submitting, fetching and deleting documents across PostgreSQL, MinIO and Temporal, and theorems |
| `Submission` | the abstract promise of the submit handlers to clients and worker; `Ingest` implements it |
| `Listing` | the paginated lists, and a client that reads one to its end beside the writers |
| `Views` | a document with its counts and the detail of an event, read statement by statement beside the pipeline and a deletion |
| `Locations` | the geocode backfill beside stores, and the map |
| `ReadingProofs`, `MCReading` | theorems about these three, and their instance for TLC |
| `Extraction`, `ExtractionProofs` | the attempts of `extract_events`: their provider, and their rows in log, usage and call tables; theorems |

### DocPipeline and the code

| State | Code |
|---|---|
| `doc` | row of `document`: status, whether `error_message` and `text_content` are set |
| `chunks`, `events` | rows of `document_chunk`, batches of `event_v2`, as pairs of chunk index and number of the attempt that inserted them (ids are fresh uuid4) |
| `linked`, `resolved` | batches with their `event_document` and `event_ref` rows; references (batch and name) that have document offsets |
| `wf`, `answers` | the await `run()` is at, loop index, number of chunks, what the LLM answered for each chunk |
| `task`, `slot` | Temporal's activity task with its attempt number; the attempt each worker slot executes and its local variables |
| `submit`, `del`, `erased` | progress of the two handlers |

An attempt goes through three phases: `Claim` polls the task, the activity's own actions execute its
statements one commit at a time (`ChunkDelete`, `ChunkInsert`, `ChunkMark`; `StoreBegin`, `StoreCommit`;
`ResolveRead`, `ResolveUpdate`; the single-statement activities are one action each), and `Report` hands
the result to the workflow, which runs to its next await (`Onward`, `AfterExtract`, `AfterStore`, ...).
`DbError` is a statement that fails, with what that activity's handler makes of it. `Crash` kills the
worker; `Timeout` lets the server schedule the next attempt of one that died; `TimeoutLate` does so while
the attempt still runs, which then ends in `Discard` or `CancelLate`.

Abstractions:

* one document: every statement of the activities is restricted to one document id;
* texts, offsets and event contents are left out; what a chunk yields is "events" or "none", chosen once
  by the LLM's answer. A batch of events is one row, since its transaction commits it as a whole;
* the answer for every chunk has the references `References`, of which those in `Quoted` have a text that is found in
  the chunk; the others, with an empty `verbatim_text` or one the chunk does not contain, are skipped by
  `resolve_references_v7.py:55-57` and `:65-74` and keep the span the LLM gave. `ResolveRead` takes the two SELECTs for
  one step (the references in a chunk that is there are `todo`), `ResolveUpdate` is one UPDATE, or the end of the loop;
* `DeleteLinks` groups the DELETEs of the child tables: the states between them (references gone, links
  still there) are not told apart; one delete request is in progress at a time;
* `wedged`: `run()` raises a plain `RuntimeError`, which the Temporal SDK takes for a failed workflow
  task and not for a failed execution, so the execution stays open and does nothing more;
* the death of the API in the middle of a delete is the same as `DeleteFails`: what was deleted stays
  deleted and the rest stays.

### ConnectionPool and the code

`pool`, `created` and `lock` stand for `_pool` and `_lock` of `db.py`. `step[a]` is the `async with
get_db()` block an attempt is in: the opening log entry, the main block, a log entry written *inside* the
main block (`nested`), a last block. `call[a]` is the await inside `get_db`. An attempt may be cancelled
at any await. The constant `Nested` names the attempts of the activities that log inside their block
(`extract_text.py:163`, `chunk_document.py:97`, `get_document_metadata.py:54`). The stale-loop branch of
`get_pool` and `close_pool` do not arise in the worker, which has one event loop.

### Providers and the code

A request to add a provider is a sequence of statements that commit on their own: `CheckName`,
`InsertProvider`, `ReadColors`, `CountColors` if the palette is used up, `Paint`. `req[c]` holds the
request's local variables, `seen` the rows `assign_free_color` read. `DeleteProvider` is one action
because `is_default` of a row never changes between its SELECT and its DELETE. `Restart` is a start of
the API with `seed_default_provider`, which may find no database (degraded mode).

### Chunking and the code

One file goes through `PdfExtractor.extract` (`ReadPage` per page, `ShiftOffsets`, `Gate`) or is plain text
(`ReadText`), then through `SmartChunker.chunk`: `Whole` for a short text, otherwise `Sentence` (Punkt, any
sentences in order with gaps between them), `Distribute`, `Take` per sentence of a greedy fill, `EndPass`
with the merge of the tail and the decision for a second pass, `Locate` for offsets and pages of the rows.
A text is its length and a sentence a half-open interval of it, with the `sum` of the lengths so far, so that the
characters of a group are a difference of two sums; a group of sentences is named by its first one (`starts`). `goal`, `size` and `next` are `target_size`, `current_len` and the loop variable of
`_greedy_fill_with_merge`. What `strip()` leaves of a text is left open in `Gate`. `PageOffsets` is what the
chunker works with, `offsets` what the extractor returned: `run()` does not pass it on. What `run()` does
with a file that is `rejected` or makes the chunker raise is part of `DocPipeline`.

### Ingest and the code

`req[d]` is the request that submits `d`: the call it is at, the connection attempts made in `_connect`,
`stored` for `minio_available`, and as history `hit`, the faults it met. A text goes from `Submit` to
`InsertRow` and `StartWorkflow`; a file goes through `Connect` and `PutBlob` first and, when its INSERT
raises, through `Reconnect` and `RemoveBlob`. `Form` is what the row says of its content: the text, the file
inline, or the path of its blob. A put, an INSERT and a call to Temporal may fail with or without effect;
`_connect` repeats an attempt after an `S3Error` or `OSError` and gives up at once on any other exception.
`fetch[d]` is `extract_text` up to the content. `temporal` is `app.state.temporal`, the client that the
process gets when it starts or lacks until its next start (`lifespan.py:41-53`). `Crash` ends all requests of
the API process, and a new one starts with a client or without. What the
INSERT, the delete and the extraction do apart from row and blob is in `DocPipeline`; `DeleteDocument` here
joins the DELETE of the row and the request to terminate, which may be lost.

`Submission` is what clients and worker are promised, without stores and calls: a document is absent, stored or gone,
its client is answered once, nothing is stored after the answer, "created" means that it was stored, and only a document
that was stored and not refused is processed, with its content or as one that is gone. `Place` and `Outcome` read that off
`rows`, `deleted` and `fetch`; a content that is missing has no counterpart in it. One thing it does concede: a
document may be stored although its client was told of a failure (an INSERT that raised after its commit).

### Extraction and the code

`run[a]` is an attempt, named by chunk and attempt number, at one of the awaits of
`extract_events_v7_activity`: read the chunk and `provider_id`, `resolve_provider` on another connection, four
log entries, the LLM, the usage record, the call record. A row of a table is represented by the attempts that
wrote its columns: `log[s]` by the one that wrote sequence number `s`, `usage[c]` and `calls[c]` by the one
whose tokens and text (`text`) and the one whose cost (`cost`) they hold, since `ON CONFLICT DO UPDATE` leaves
the latter alone. A write that fails is swallowed (`Miss`). `Dead` is what is left of an attempt whose worker
died; `Timeout` and `TimeoutLate` schedule the next one, `Report` moves the workflow on. A worker without
`OPENROUTER_API_KEY` returns no events after one warning (`Degraded`). `cfg` is whose key and URL are used: the
document's provider's (`own`) or the environment's (`env`), which `extract_events_v7.py:66-87` falls back to when the
document has no provider any more or the lookup finds none; a lookup that raises ends the attempt (`Raise`). What the workflow does between two
extractions, and late attempts of other activities, are `DocPipeline`.

### Listing and the code

`list` is the route: `list_documents`, `get_document_logs`, `get_document_llm_calls` or `list_events_v2`. They
share one scheme, `CheckDocument` (the routes of one document), `Count`, `Select`, and differ in the order of
their rows (`Keys`), in what an empty table answers (`Pages`) and in where the statement text puts its
parameters (`WhereParams`, `LimitAt`, `Acceptable`). `scan` is the client, `fetchAllEvents` of the timeline,
which asks for page after page up to the `pages` of the last answer. `table` holds the rows that match, each
with the key it is sorted by; `IsSlice` is what `ORDER BY .. LIMIT .. OFFSET` may return when keys are equal:
any arrangement of them, and another one the next time. The keys of documents, log entries and calls are the
times of their INSERTs, two of which may be overtaken by one; an event has any key, or the one that stands
for NULL. `Insert`, `StoreRows`, `DeleteRows`, `DeleteDocument` are the writers, as far as the list can tell.
`start`, `inserted`, `removed`, `late` and `fault` are history. The document list's filters, with a search term
among them, are a number: only how many there are matters to the positions. A scan starts at any table that the
writers may have left; what is written before it begins makes no difference to it.

### Views and the code

`chunks`, `events`, `links`, `people`, `places`, `refs` are the rows of one document in the tables of the
pipeline, `deletion` the number of statements a delete handler has executed, in the handler's order
(`Cleared`), with the cascades of the foreign keys. `get` is one request: `get_document` (`ReadDocument`,
`CountEvents`, `CountChunks`; a count that raises is swallowed, `CountFails`), which is also a row of
`list_documents`; or `get_event_v2_detail` (`ReadEvent`, `ReadPlaces`, `ReadPeople`, `ReadRefs`; any failure is a
502). The pipeline is reduced to what it writes: attempts of `chunk_document` and `store_events_v7` may come at
any time, also after the document was processed (`stray`), and an event that is stored has a row in every table.
`cuts` are the attempts of `chunk_document`, each with the index it inserts next: an attempt may end after any of its
INSERTs, and one past its timeout goes on beside its retry, so that `chunks`, a number of rows with fresh ids, may be
short of `NumChunks` or beyond it. `Complete` sets the document to processed with whatever is there, since `run()`
does not look at the result of `chunk_document` (`workflows.py:85`); `LateStatus` is the status that an attempt past its
timeout writes afterwards. Both `get_document` and `list_documents` count events and chunks; the former does not pass the
number of events on (`reference_count` and `entity_count` are always 0 in both). Why attempts come when they do is the
subject of `DocPipeline`.

### Locations and the code

`locations` are the rows of `event_location`; `at` stands for `lat` and `lon`, both NULL or both set, on one
axis. `StoreLocations` is what `store_events_v7` and `delete_document` do to them: the rows of a batch go and new
ones come, without coordinates, one location per event as `store_events_v7.py:144-155` writes it. `run[r]` is a
run of `backfill`, started by hand, so that runs may overlap: `SelectNames` (no ORDER BY: any names, up to the limit),
`Geocode` (`geocode_place` returns coordinates or, after any failure, None), `UpdateLocations`, `EndRun`.
`ShowMap` is `list_geo_events`, with `parse_bbox` as `IsBox`. `found` (when a location was given its coordinates),
`present`, `selected` and `unknown` are history.

## 3. Runs

| Run | Configuration | States | Shows |
|---|---|---|---|
| `pipeline_crash` | 2 chunks, 2 references each, one of which is not in its chunk, 2 slots, crashes and a lost start, 2 faults | 89,534 | With worker crashes only: no duplicates and no lost chunk, as `README.md:65` promises, document offsets for the references whose text is found and no others, a status that agrees with the execution and settles |
| `pipeline_faults` | 2 chunks, 2 slots, all four kinds of fault, 2 faults, slot symmetry | 4,810,059 | The safety invariants, and the refinement of `Publication` under any combination of crashes, late attempts and database errors with a delete request |
| `pipeline_live` | 1 chunk, 2 slots, all kinds, 1 fault | 132,496 | Executions end; after a delete the workers come to rest |
| `pipeline_duplicates` | 1 chunk, one late attempt | violation | see below |
| `pipeline_unreadable` | 1 chunk, no fault | violation | see below |
| `pool` | 3 attempts, 1 of them nesting, pool of 2, 2 failed creations | 8,796 | One pool only; every attempt ends, so nesting does not exhaust the pool |
| `pool_exhausted` | 3 nesting attempts, pool of 2 | violation | see below |
| `registry` | 2 requests at a time, 4 in all, 3 names, 2 colours, 2 restarts | 657,492 | Names unique, colours of live providers, sharing only after a race or with the palette used up |
| `chunking` | target 3, up to 3 pages of 2 characters, plain texts of up to 9, any sentences | 94,575 | Page offsets find pages, chunks partition the sentences and exceed the target by a merge at most, both passes end |
| `ingest` | 2 documents, 3 connection attempts | 95,048 | Accepted documents stay readable, what `Submission` promises is kept (so no extraction misses its blob), blobs without a row, refusals with a row and documents that stay pending are explained, every request ends |
| `extraction` | 2 chunks, 2 attempts each, 1 of them disturbed | 4,827,604 | With any number of crashes, the records of a chunk hold the answer that was taken, the two tables agree, log rows of newer attempts lie before those of older ones; after the environment's model the provider's is not asked again |
| `reading` | pages of 2, up to 4 rows, 2 sort keys, up to 2 filters; 2 chunks, 2 attempts to cut them, 1 event; 2 runs of the backfill, 2 batches, 2 names, 2 anchors, limits 1 and 2, 3 locations | 2,065,841 | Which rows a scan may miss or repeat, when a list is refused, what of a detail or of counts may be torn, which locations stay without coordinates or get different ones |

**Why the bounds are enough.** The statements of one attempt touch one chunk or all of them, so two
chunks show what one chunk's processing does to another (loop position, order, late stores for an earlier
chunk). Two slots let one live and one late attempt meet; the server listens to one attempt only. Two faults
allow a crash during the recovery from another fault, or two late attempts. The liveness run allows one
fault, to keep its graph small; with two faults (1,129,778 states) it holds as well. A palette of two
colours is used up, freed and raced for by four requests. In the pool, two connections and three attempts
make waiting, handing over and a full queue happen; the palette of 20 and the pool of 10 are covered by
the theorems, which hold for any size. A target of 3 against texts of 9 characters gives up to three full
chunks, tails just below and at half of the target, sentences longer than the target, and totals between
one and one and a half targets, where the second pass happens and may collapse again; pages may be empty. Documents of `Ingest` have row ids
and paths of their own and meet only in a crash, so two show everything; any call of any request may fail,
without a bound on the number of faults. In `extraction` workers may die at every step; `MaxDisturbed` bounds
the attempts that outlive their timeout or miss a record, for which the record properties make an exception
(a late attempt does write over its successor's records, and nothing corrects that). Two attempts and two
chunks let rows be written over by a retry and by the next chunk. The three modules of `reading` share no
variable; `MCReading` explores each while the others are in their initial state, which reaches every state of
each. Four rows on pages of two are up to two full pages, or one and a part, with rows before, on and behind the page
that is read, and two sort keys make ties within a page and across its border; the number of filters matters only as zero or
more. Two attempts of `chunk_document` leave documents with none,
some, all or twice their chunks; one event is stored, replaced by nothing and deleted at any point of a read (with two, of which one
replaces the other, there are 12,714,157 states, and the properties and `ViewsInv` hold as well); three locations of two names let a store come before
and after each statement of two runs; a limit of one cuts a name off. What holds at any size is proved.

**Fairness.** `DocPipeline!FairSpec` assumes that the workers poll and execute, that the server's timeouts
expire, and that a request in progress goes on: Temporal's delivery is at-least-once with durable timers,
and `docker-compose` restarts the worker. Nothing obliges a fault to happen, a client to submit or to
delete, or the SDK to cancel a late attempt. `ConnectionPool!FairSpec` adds strong fairness of the lock
and of the pool's queue, because `asyncio.Lock` and asyncpg's queue serve their waiters first come, first
served; nothing is assumed of cancellation. `Chunking!FairSpec` only says that a sequential function goes on,
`Ingest!FairSpec` that each call of a handler returns or raises, since the clients of MinIO, PostgreSQL and
Temporal have timeouts. The modules of `reading` have safety properties only. Faults of `DocPipeline` and `ConnectionPool` are finite in every run: with faults for
ever no execution need end, since several activities retry without limit.

`CHECK_DEADLOCK FALSE` is set where the system may stop: an execution that has ended, bounded requests.

### What the code does otherwise than documented

* **Duplicates** (`NoDuplicates`). `README.md:65` and `:128` promise no duplicates. An attempt of
  `store_events_v7` that outlives its timeout has deleted the old batch and commits a new one beside the
  batch of its retry. With worker crashes alone the promise holds (`CrashMakesNoDuplicates`, proved for any number of them).
* **Unreadable files end as processed** (`UnreadableNotProcessed`). `run()` does not look at the result
  of `extract_text`; the activities mark the document failed, and `run()` overwrites that with processed.
* **Logging can exhaust the pool** (`LogIsSafe`). `processing_log.py:4` says each entry opens its own
  connection; it borrows one from the shared pool, inside blocks that hold one already.

Other promises are too strong as well, and have no run of their own:

* A document that is processed need not have its chunks: the error that `chunk_document` returns
  (`chunk_document.py:107-130`) is ignored by `run()`, which goes on with the rows that were inserted before it.
  `CountsExplained` states what a client may rely on, that status and counts are of one moment.
* Not every reference of a processed document has document offsets: one whose text is not found keeps the chunk-relative
  span of the LLM, in the same columns (`tests/test_resolve_references_v7.py`, `test_text_not_found_in_chunk`, asserts it).
  `CrashResolvesQuotations` is about the others.
* A document whose provider is deleted is extracted further, with its own model's name and the key and URL of the
  environment (`extract_events_v7.py:68-87`), and its events may come from two models. `SwitchesOnce` states that this
  happens at a deletion only, and once.
* `chunker.py:143-146` describes `page_start` and `page_end` as the pages of a chunk's text. `run()` passes
  `{"page_offsets": [0]}` to `chunk_document` (`workflows.py:87`), which the chunker completes to one page, so
  every chunk is said to lie on page 1. The extractor's own offsets, which would tell, are right
  (`OffsetsFindPages`).
* `documents.py:830` announces "pagination, search, and status filtering". `list_documents` writes `LIMIT $1 OFFSET $2`
  into its text (`documents.py:888`) while the filters of the WHERE clause take `$1` onwards: with a
  filter the database refuses the statement and the answer is a 502. `ErrorsExplained` names this list as the
  only one that is ever refused without a fault.
* `tests/test_timeline_fetch_all.py:3-4` demands that the timeline render all events that match. A scan of several
  requests cannot promise that beside writers, and events with equal times have no order that lasts from one
  page to the next; `MissedExplained` and `RepeatedExplained` list the reasons.
* `geo/geocode.py:21-23` says that identical place names share coordinates. A row stored after its name was located is
  asked for again by the next run, and the geocoder may answer otherwise (`CoordinatesExplained`).
* `chunker.py:50-53` says that no chunk ever exceeds the target, and `chunker.py:100-102` that a second pass
  never returns a single chunk. A tail below half of the target is merged into a full chunk, and with
  sentences of 3 and 1 characters and a target of 3 both passes merge everything into one chunk of 4.
  `ExcessBounded` states what the code guarantees instead.
* `README.md:65` says that each activity is retried, with three attempts. An activity that turns its
  exception into a dict (`query_helpers.py:37`, `store_events_v7.py:214-239`) has succeeded for Temporal, and
  `run()` fails the document after one attempt.
* `next.md:5` asks for colours that are 1 to 1 with providers. `assign_free_color` reads and inserts without
  a lock and the column is not UNIQUE; `SharesOnlyByRace` states exactly when a colour is shared.
* `documents.py:1039` says that a document is deleted with "all its associated data". The handler deletes rows
  only, and with the row the path of the object: `remove_object` is called by the clean-up of a refused upload
  and nowhere else (`OrphansExplained` lists the delete among the reasons of a blob without a row).
* `processing_log.py:8-10` says that the ids of log entries leave no orphaned entries, and `README.md:132`
  promises a "Full audit trail". The counter starts at zero in every attempt, of every chunk: the entries of
  a chunk overwrite those of the chunk before, and a refused retry leaves "extraction completed" of an earlier
  attempt behind its own entries. `LogIsLayered` states what can be read off the log.
* `documents.py:150` and `:223` announce a 503 when the database is unavailable; the handlers answer 502 to
  a failed INSERT.
* `documents.py:152` says that a document stored without Temporal "can be processed later"; nothing starts
  its workflow later, and it stays pending (`PendingExplained` lists the reasons).

## 4. Proofs

All theorems hold for every value of the constants under the assumptions stated beside them:
`NumChunks \in Nat \ {0}`, `Slots # {}`, `Faults` a set of fault kinds and `MaxFaults \in Nat`, `References` any
set and `Quoted` any function from chunks to its subsets;
`Attempts` finite, `Nested \subseteq Attempts`, `PoolSize` positive; `PaletteSize` positive;
`NumChunks` and `MaxAttempts` of `Extraction` positive, `MaxDisturbed` a natural number;
`Target` and `MaxPages` positive, `ShortText` and `MaxPageLength` natural numbers; `MaxRetries` positive;
`PerPage` positive, `SortKeys` a set of integers, `MaxFilters`, `MaxRows`, `MaxCuts` and `MaxEvents` natural numbers, `Lists` among
the four; `Anchors` a set of integers without 0, `NameLimits` of natural numbers, `MapLimit` positive; `Runs`,
`Batches` and `Names` any sets.

* **DocPipeline.** `TypeCorrect`, and from `IInv`: `NoOrphans`, `NoLostEvents`, `OnlyAnswered`;
  `ErrorColumn` has an argument of its own. The properties are not inductive: that a late store publishes
  nothing of its own depends on every store attempt, live or late, working on a chunk whose answer is
  final (`StoreInv`); that in turn depends on answers being given in loop order (`WorkflowInv`) and on the
  one live attempt being the one the workflow awaits (`LiveInv`), so that a late attempt's result never
  reaches it. That an `ok` of `store_events` means visible rows (`StoreInv`, last part) is what
  `NoLostEvents` needs when the workflow moves on; `RowInv` keeps links and resolved references inside the
  events and everything inside the document, which `DeleteInv` ties to the delete handler's progress.
  There is one lemma per action, and under it one step per conjunct that the action can disturb.
* **Refinement.** `Refinement == Spec => PublishesInOrder`: with the phase read off the document row and
  the visible chunks off the batches, every step is a step of `Publication` or a stutter. `Publish` needs
  that a commit comes for a chunk no earlier than all visible ones, or replaces one: from `OnlyAnswered`,
  `NoLostEvents` and `StoreInv`.
* **Crashes only.** `CrashSafe` carries `BaseInv` and, as long as no other fault has happened, `CrashInv`; from
  them follow `CrashMakesNoDuplicatesTheorem`, `CrashLosesNoChunkTheorem`, `CrashResolvesQuotationsTheorem`,
  `StatusAgreesTheorem` and `EventsStableTheorem`. `IInv` does not give them, since it admits late attempts. `BaseInv`
  says, under any fault, where the loop is (`LoopInv`), that what a document needs to be processed is there once it
  was read (`PresenceInv`, `UnreadableInv`) and that a batch without links is one an attempt is just storing
  (`LinkInv`). With crashes alone the one attempt at work is the live one (`LoneWorker`), so every row a step leaves
  behind is its own or of an attempt that died before it, which it repairs: a retry of `chunk_document`
  deletes all chunks before it inserts (`ChunksInv`), one of `store_events` the batch of its chunk
  (`BatchInv`), one of `resolve_references` starts at the first reference: what is neither
  resolved nor still `todo` has no text in its chunk (`ResolveInv`). The status follows the workflow's
  position (`StatusInv`) because an activity that reports an error has not written.
* **ConnectionPool.** `OnePoolTheorem` (whoever creates the pool holds the lock and found none),
  `NotExhaustedTheorem` (those who wait in a nested entry are among `Nested`),
  `PoolTypes`.
* **Providers.** `UniqueNamesTheorem`, `ColorsAreLiveTheorem`, `SharesOnlyByRaceTheorem`,
  `DefaultStaysTheorem` and `RegistryTypes` from `RegistryInv`: ids in use were handed out once (`IdsAreFresh`) and the local
  variables of a request agree with what it read (`LocalsAgree`).
* **Chunking.** `ChunkingSafe` proves `ChunkingInv` for any target, any pages and any sentences;
  `OffsetsFindPagesTheorem` and `ChunksPartitionTheorem` follow from it. Before the shift the offset of page
  `k + 1` lacks `k - 1` separators (`PagesInv`), so that after it offsets are the ends of pages, and no
  earlier interval of `_offset_to_page` holds a character of page `k`. Every placed sentence is in a group
  (`GroupsInv`), which an end of pass, a merge and a restart all keep; the rows are the groups (`RowsInv`).
  `ExcessBoundedTheorem` needs `FillInv`: no group is beyond the goal of its pass, but for a sentence alone. That
  goal is within the target except in one case, in which it is smaller than the first sentence while everything
  behind that sentence is below half of the target; `SecondGoal` is the arithmetic of the 51% rounded up. `SumsInv` says
  that sums grow with the sentences, which no group then has to be summed up for.
* **Extraction.** `ExtractionSafe` proves `ExtractionInv`. Attempts come in the order of chunk and number, and
  one that runs without being late is the one the workflow waits for (`OrderInv`), so two undisturbed ones never
  write at the same time. Hence the running attempt owns the first rows of the log, as many as it has passed
  (`LogInv`), which gives `LogIsLayeredTheorem`; its records are written when it is past them, and nobody writes
  over those of an attempt whose answer was taken (`RecordInv`), which gives `AnswerIsRecordedTheorem`; between its two
  writes the usage row is one upsert ahead of the call row (`TablesInv`), which gives `TablesAgreeTheorem`.
  `SwitchesOnceTheorem` needs that nobody uses the environment before the provider is gone, that who has not read the
  document yet has not chosen, and, from `OrderInv`, that the attempts of later chunks are such when events are taken (`SwitchInv`).
* **Ingest.** `IngestSafe` proves `IngestInv`; `AcceptedIsReadableTheorem`, `NeverMissingTheorem`,
  `OrphansExplainedTheorem`, `RejectedExplainedTheorem` and `PendingExplainedTheorem` follow; `TypesTheorem`
  has an argument of its own. The stores are tied to where the request is (`RequestInv`): before its
  INSERT there is no row, and the blob is there whenever `stored` says so, until the clean-up of a refused
  request (`BlobInv`); only a request past its INSERT is accepted or starts a workflow, so a fetch finds its
  blob. All steps but `Crash` touch one document, and `Framed` carries the others over.
  `KeepsThePromiseTheorem` is the refinement of `Submission`: of the handlers' steps the INSERT and the answers are
  steps of the promise, of the worker's those that end with a content or with no row; the calls to MinIO and a crash
  are stutters. It needs `WorkInv` beside `IngestInv`: what an execution was started for was stored and not refused.

* **Listing.** `MissedExplained` needs that a row not seen yet lies beyond the pages read (`UnseenInv`):
  its place, the number of rows with smaller keys, is at least the offset. A row's place falls only if a row in
  front of it goes, and rises only if one is put in front of it, so a writer either keeps the bound or gives the excuse.
  When the last page has been read, every offset below the count has been: what is left was counted late, or is
  excused. `SeenInv` is the same from the other side, for `RepeatedExplained`. The lemmas about places and
  cardinalities, and `SliceUnseen`, which relates `IsSlice` to them, hold for any number of rows.
  `ErrorsExplainedTheorem` needs no history: it is about the positions of the parameters.
* **Views.** `DetailExplainedTheorem`: `refs` is read last and cleared first, so that as soon as one of the other
  tables lacks the event, the references do, or the event was stored while a deletion was at work (`DetailInv`).
  `CountsExplainedTheorem`: a processed document, whatever chunks it has, keeps its rows until a deletion or a stray
  attempt (`CountsInv`), so what was counted is still there.
* **Locations.** `FoundTogether` carries `CoordinatesExplainedTheorem`: an UPDATE reaches every row of the name that has no
  coordinates, so one that still has none is newer than every one that was found. `RunInv` says where a run stands
  with each row it found unlocated.

Proved and not checked by a run of their own, because a run checks a consequence or because they are plain: the type
invariants of `DocPipeline`, `ConnectionPool`, `Providers`, `Ingest`, `Extraction` and of the three modules of reading; the
inductive invariants (`IInv`, `BaseInv`, `CrashInv`, `RegistryInv`, `ChunkingInv`, `SumsInv`, `FillInv`, `IngestInv`,
`ExtractionInv`, `ListingInv`, `ViewsInv`, `LocationsInv`), all of which TLC agreed with before they were proved;
`NotExhausted`, `DefaultStays`, `NeverMissing` (which `KeepsThePromise` implies). The types of `Chunking` are part of `ChunkingInv`.

Only model-checked: the liveness properties (`PollingSettles`, `EventuallyEnds`, `EventuallyQuiet`, `EveryAttemptEnds`,
`ChunkingEnds`, `RequestsEnd`): the prover has no liveness under fairness. Every invariant and every action property of a
passing run is the subject of a theorem.

## 5. Not modelled, and the plan

Left out, and why:

* the reads that are one statement (chunk and document texts, tokens, model colours, providers): they show one committed
  state, and nothing can go wrong between its parts; `get_document_text`, which no workflow awaits; `offsets.py`, which
  nothing imports;
* passcodes: a comparison with the environment before a handler begins; pydantic models: the shape of requests;
* migrations and scripts: run once, with the system stopped;
* parsing of model output, prompts, rendering, PDF internals: formatting, or a library's;
* `.agents/`: tools of the repository's developers, no part of the program;
* the connection test of a provider and the masking of keys: no state that changes;
* the cap of 100 log entries: sequence numbers start over in every attempt, so no document reaches it.

Next theorems: the refinement of an abstract registry, in which a provider is added in one step, by `Providers`; that
with no lost statement the extraction's records are those of one attempt per chunk. Every other safety
property of the runs is proved.
