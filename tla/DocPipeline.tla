---------------------------- MODULE DocPipeline ----------------------------
(***************************************************************************)
(* One document travelling through DocumentProcessingV7Workflow: the       *)
(* document row and the tables that hang from it, the Temporal server that *)
(* schedules one activity at a time, the worker slots that execute         *)
(* activity attempts statement by statement, and the two API handlers that *)
(* touch the same rows (submit and delete).                                *)
(*                                                                         *)
(* Every statement of the activities is restricted to one document id, so  *)
(* documents do not interact here and one document is modelled.  A chunk   *)
(* row or an event batch is named by its chunk index and by the number of  *)
(* the activity attempt that inserted it (uuid4 in the code: fresh).       *)
(***************************************************************************)
EXTENDS Integers, FiniteSets

CONSTANTS
    NumChunks,   \* chunks SmartChunker cuts the document's text into
    References,  \* references (rows of event_ref) in the answer for a chunk
    Quoted,      \* the references of each chunk whose text is found in the chunk
    Slots,       \* activity slots of the worker processes
    Faults,      \* the kinds of fault that may happen
    MaxFaults    \* bound on the number of faults of one behaviour

FaultKinds == {"crash", "late", "db", "temporal"}

Idx == 0 .. NumChunks - 1

ASSUME NumChunksAssumption == NumChunks \in Nat \ {0}
ASSUME QuotedAssumption == Quoted \in [Idx -> SUBSET References]
ASSUME SlotsAssumption == Slots # {}
ASSUME FaultsAssumption == Faults \subseteq FaultKinds /\ MaxFaults \in Nat

VARIABLES
    source,    \* what the client submitted: text, a readable or an unreadable file
    doc,       \* the row of table document
    chunks,    \* rows of table document_chunk
    events,    \* batches of rows of event_v2
    linked,    \* the batches that have their rows in event_document and event_ref
    resolved,  \* the references whose span is an offset in the document
    wf,        \* workflow execution: stage, loop index i, chunk count n, cause of failure
    answers,   \* extraction result the workflow received for each chunk
    task,      \* the activity task the Temporal server is waiting for
    slot,      \* the attempt each worker slot is executing
    submit,    \* progress of the submit handler
    del,       \* progress of the delete handler
    erased,    \* a delete request has started to remove rows
    faults     \* faults so far

vars == <<source, doc, chunks, events, linked, resolved, wf, answers, task, slot,
          submit, del, erased, faults>>

tables == <<doc, chunks, events, linked, resolved>>
temporal == <<wf, answers, task>>
api == <<source, submit, del, erased>>
-----------------------------------------------------------------------------
Row == Idx \X Nat
Reference == Idx \X Nat \X References

\* CHECK constraint valid_status on document.status.
Status == {"pending", "processing", "extracted", "extracting_blob",
           "extracting_text", "chunking", "processed", "failed"}

\* Stages at which the workflow awaits update_document_status_activity.
SetStages == {"set_processing", "set_extracting_blob", "set_extracting_text",
              "set_processed", "set_failed"}
Activities == SetStages \cup
    {"get_metadata", "extract_text", "chunk", "get_chunks", "get_prior",
     "extract_events", "store_events", "resolve_refs"}

\* completed and failed: the execution closed.  wedged: run() raised a plain
\* RuntimeError, which fails the workflow task and leaves the execution open.
Ends == {"completed", "failed", "wedged", "terminated"}
Stages == Activities \cup Ends \cup {"unstarted"}

WrittenStatus(stage) ==
    CASE stage = "set_processing" -> "processing"
      [] stage = "set_extracting_blob" -> "extracting_blob"
      [] stage = "set_extracting_text" -> "extracting_text"
      [] stage = "set_processed" -> "processed"
      [] OTHER -> "failed"

\* RetryPolicy(maximum_attempts=3); the other calls use the unlimited default.
Limited == {"get_metadata", "extract_text", "chunk", "extract_events"}
MaximumAttempts == 3
Exhausted(act, n) == act \in Limited /\ n >= MaximumAttempts

Absent == [present |-> FALSE, status |-> "pending", err |-> FALSE, text |-> FALSE]
NoTask == [state |-> "none", n |-> 0]
IdleSlot == [act |-> "idle", i |-> 0, n |-> 0, step |-> "run", k |-> 0,
             seen |-> {}, todo |-> {}, res |-> "ok", live |-> FALSE]

RowsOf(c, table) == {r \in table : r[1] = c}

\* The references of some batches whose verbatim text is found in the chunk.
\* All attempts store the one answer the workflow took for a chunk.  A text
\* that is empty or not found is skipped: the LLM's span stays in that row.
Quotations(batches) ==
    {t \in {<<e[1], e[2], r>> : e \in batches, r \in References} : t[3] \in Quoted[t[1]]}

Answer(c) == IF c \in Idx THEN answers[c] ELSE "none"
Spend(kind) == kind \in Faults /\ faults < MaxFaults /\ faults' = faults + 1

Init ==
    /\ source \in {"text", "file", "unreadable"}
    /\ doc = Absent
    /\ chunks = {} /\ events = {} /\ linked = {} /\ resolved = {}
    /\ wf = [stage |-> "unstarted", i |-> 0, n |-> 0, cause |-> "none"]
    /\ answers = [c \in Idx |-> "unknown"]
    /\ task = NoTask
    /\ slot = [s \in Slots |-> IdleSlot]
    /\ submit = "none" /\ del = "idle" /\ erased = FALSE
    /\ faults = 0
-----------------------------------------------------------------------------
(* The submit handlers: INSERT, then a best-effort workflow start.         *)

Submit ==
    /\ submit = "none"
    /\ submit' = "inserted"
    /\ doc' = [present |-> TRUE, status |-> "pending", err |-> FALSE,
               text |-> source = "text"]
    /\ UNCHANGED <<source, chunks, events, linked, resolved, temporal, slot, del, erased, faults>>

\* Await the activity of a stage, or close the execution.
Goto(w) ==
    /\ wf' = w
    /\ task' = IF w.stage \in Activities THEN [state |-> "scheduled", n |-> 1] ELSE NoTask

StartWorkflow ==
    /\ submit = "inserted"
    /\ submit' = "done"
    /\ Goto([wf EXCEPT !.stage = "set_processing"])
    /\ UNCHANGED <<source, tables, answers, slot, del, erased, faults>>

\* Temporal is not reachable: the exception is logged, the row stays.
LoseStart ==
    /\ submit = "inserted"
    /\ submit' = "done"
    /\ Spend("temporal")
    /\ UNCHANGED <<source, tables, temporal, slot, del, erased>>
-----------------------------------------------------------------------------
(* Worker slots: an attempt runs its statements one by one, then reports.  *)

Claim(s) ==
    /\ task.state = "scheduled"
    /\ slot[s].act = "idle"
    /\ slot' = [slot EXCEPT ![s] = [IdleSlot EXCEPT !.act = wf.stage, !.i = wf.i,
                                                    !.n = task.n, !.live = TRUE]]
    /\ task' = [task EXCEPT !.state = "started"]
    /\ UNCHANGED <<tables, wf, answers, api, faults>>

At(s, act, step) == slot[s].act = act /\ slot[s].step = step
Return(s, r) == slot' = [slot EXCEPT ![s].step = "done", ![s].res = r]
\* UPDATE document ... WHERE id = $1 touches nothing once the row is gone.
UpdateDoc(status, err) ==
    IF doc.present THEN [doc EXCEPT !.status = status, !.err = err] ELSE doc
Failed == UpdateDoc("failed", TRUE)

\* Mutant: error_message = NULL is missing from the UPDATE.
UpdateStatusKeepsError(s) ==
    /\ slot[s].act \in SetStages /\ slot[s].step = "run"
    /\ doc' = UpdateDoc(WrittenStatus(slot[s].act), doc.err \/ slot[s].act = "set_failed")
    /\ Return(s, "ok")
    /\ UNCHANGED <<chunks, events, linked, resolved, temporal, api, faults>>

UpdateStatus(s) ==
    /\ slot[s].act \in SetStages /\ slot[s].step = "run"
    /\ doc' = UpdateDoc(WrittenStatus(slot[s].act), slot[s].act = "set_failed")
    /\ Return(s, "ok")
    /\ UNCHANGED <<chunks, events, linked, resolved, temporal, api, faults>>

GetMetadata(s) ==
    /\ At(s, "get_metadata", "run")
    /\ Return(s, IF ~doc.present THEN "error"
                 ELSE IF doc.text THEN "ok" ELSE "no_text")
    /\ UNCHANGED <<tables, temporal, api, faults>>

ExtractText(s) ==
    /\ At(s, "extract_text", "run")
    /\ \/ /\ ~doc.present
          /\ doc' = doc
          /\ Return(s, "error")
       \/ /\ doc.present /\ source = "unreadable"
          /\ doc' = Failed
          /\ Return(s, "error")
       \/ /\ doc.present /\ source # "unreadable"
          /\ doc' = [doc EXCEPT !.text = TRUE, !.status = "extracting_text"]
          /\ Return(s, "ok")
    /\ UNCHANGED <<chunks, events, linked, resolved, temporal, api, faults>>

\* Mutant: a retry finds chunk rows and takes the document for chunked.
ChunkDeleteUnlessChunked(s) ==
    /\ At(s, "chunk", "run")
    /\ \/ doc.text /\ chunks # {} /\ Return(s, "ok")
       \/ /\ doc.text /\ chunks = {}
          /\ slot' = [slot EXCEPT ![s].step = "work"]
    /\ UNCHANGED <<tables, temporal, api, faults>>

\* chunk_document: read and split the text, DELETE the old rows, ...
ChunkDelete(s) ==
    /\ At(s, "chunk", "run")
    /\ \/ /\ ~doc.present
          /\ Return(s, "error")
          /\ UNCHANGED <<doc, chunks>>
       \/ /\ doc.present /\ ~doc.text     \* len(None) raises: the handler marks failed
          /\ doc' = Failed
          /\ Return(s, "error")
          /\ UNCHANGED chunks
       \/ /\ doc.present /\ doc.text
          /\ chunks' = {}
          /\ slot' = [slot EXCEPT ![s].step = "work"]
          /\ UNCHANGED doc
    /\ UNCHANGED <<events, linked, resolved, temporal, api, faults>>

\* Mutant: document_chunk has no foreign key.
ChunkInsertUnchecked(s) ==
    /\ At(s, "chunk", "work") /\ slot[s].k < NumChunks
    /\ chunks' = chunks \cup {<<slot[s].k, slot[s].n>>}
    /\ slot' = [slot EXCEPT ![s].k = @ + 1]
    /\ UNCHANGED <<doc, events, linked, resolved, temporal, api, faults>>

\* ... INSERT the new ones, one autocommitted statement each, ...
ChunkInsert(s) ==
    /\ At(s, "chunk", "work") /\ slot[s].k < NumChunks
    /\ \/ /\ doc.present
          /\ chunks' = chunks \cup {<<slot[s].k, slot[s].n>>}
          /\ slot' = [slot EXCEPT ![s].k = @ + 1]
       \/ /\ ~doc.present                 \* foreign key violation
          /\ Return(s, "error")
          /\ UNCHANGED chunks
    /\ UNCHANGED <<doc, events, linked, resolved, temporal, api, faults>>

\* ... and set status 'chunking'.
ChunkMark(s) ==
    /\ At(s, "chunk", "work") /\ slot[s].k = NumChunks
    /\ doc' = UpdateDoc("chunking", doc.err)
    /\ Return(s, "ok")
    /\ UNCHANGED <<chunks, events, linked, resolved, temporal, api, faults>>

GetChunks(s) ==
    /\ At(s, "get_chunks", "run")
    /\ slot' = [slot EXCEPT ![s].step = "done", ![s].k = Cardinality(chunks)]
    /\ UNCHANGED <<tables, temporal, api, faults>>

\* The prior events are prompt context only; no branch depends on them.
GetPrior(s) ==
    /\ At(s, "get_prior", "run")
    /\ Return(s, "ok")
    /\ UNCHANGED <<tables, temporal, api, faults>>

\* none: an empty list, a refusal, or no API key (answered before the chunk is
\* read).  raise: no such chunk row, an LLM or a transport error.
ExtractEvents(s) ==
    /\ At(s, "extract_events", "run")
    /\ \E r \in {"events", "none", "raise"} :
          /\ r = "events" => RowsOf(slot[s].i, chunks) # {}
          /\ Return(s, r)
    /\ UNCHANGED <<tables, temporal, api, faults>>

\* store_events with no events: a transaction that only deletes.
StoreNothing(s) ==
    /\ At(s, "store_events", "run") /\ Answer(slot[s].i) # "events"
    /\ events' = events \ RowsOf(slot[s].i, linked)
    /\ linked' = linked \cap events' /\ resolved' = resolved \cap Quotations(events')
    /\ Return(s, "ok")
    /\ UNCHANGED <<doc, chunks, temporal, api, faults>>

\* Mutants: the transaction inserts without deleting first; the DELETE is
\* not restricted to the chunk.
StoreBeginBlind(s) ==
    /\ At(s, "store_events", "run") /\ Answer(slot[s].i) = "events"
    /\ slot' = [slot EXCEPT ![s].step = "work", ![s].seen = {}]
    /\ UNCHANGED <<tables, temporal, api, faults>>

StoreBeginAll(s) ==
    /\ At(s, "store_events", "run") /\ Answer(slot[s].i) = "events"
    /\ slot' = [slot EXCEPT ![s].step = "work", ![s].seen = linked]
    /\ UNCHANGED <<tables, temporal, api, faults>>

\* store_events: the DELETE of the transaction sees the batches committed so
\* far; it finds them through event_document.
StoreBegin(s) ==
    /\ At(s, "store_events", "run") /\ Answer(slot[s].i) = "events"
    /\ slot' = [slot EXCEPT ![s].step = "work", ![s].seen = RowsOf(slot[s].i, linked)]
    /\ UNCHANGED <<tables, temporal, api, faults>>

\* Mutant: chunks are numbered from one when their events are stored.
StoreCommitFromOne(s) ==
    /\ At(s, "store_events", "work") /\ doc.present
    /\ events' = (events \ slot[s].seen) \cup {<<slot[s].i + 1, slot[s].n>>}
    /\ linked' = (linked \ slot[s].seen) \cup {<<slot[s].i + 1, slot[s].n>>}
    /\ resolved' = resolved \ Quotations(slot[s].seen)
    /\ Return(s, "ok")
    /\ UNCHANGED <<doc, chunks, temporal, api, faults>>

\* COMMIT of the deletion and the new batch; without the document row the
\* INSERTs violate their foreign key and everything rolls back.
StoreCommit(s) ==
    /\ At(s, "store_events", "work")
    /\ \/ /\ doc.present
          /\ events' = (events \ slot[s].seen) \cup {<<slot[s].i, slot[s].n>>}
          /\ linked' = (linked \ slot[s].seen) \cup {<<slot[s].i, slot[s].n>>}
          /\ resolved' = resolved \ Quotations(slot[s].seen)
          /\ Return(s, "ok")
       \/ /\ ~doc.present
          /\ Return(s, "error")
          /\ UNCHANGED <<events, linked, resolved>>
    /\ UNCHANGED <<doc, chunks, temporal, api, faults>>

\* resolve_references: read references and chunks; a reference without a chunk
\* row, or whose text is not in the chunk, is passed over ...
ResolveRead(s) ==
    /\ At(s, "resolve_refs", "run")
    /\ slot' = [slot EXCEPT ![s].step = "work",
                 ![s].todo = {t \in Quotations(linked) : RowsOf(t[1], chunks) # {}}]
    /\ UNCHANGED <<tables, temporal, api, faults>>

\* Mutant: a text that is not found ends the loop instead of its iteration.
ResolveUpdateStops(s) ==
    /\ At(s, "resolve_refs", "work")
    /\ \/ \E t \in slot[s].todo :
             /\ \A u \in slot[s].todo : t[1] <= u[1]
             /\ resolved' = resolved \cup ({t} \cap Quotations(linked))
             /\ slot' = [slot EXCEPT
                   ![s].todo = IF Quoted[t[1]] = References THEN @ \ {t} ELSE {}]
       \/ /\ slot[s].todo = {}
          /\ Return(s, "ok")
          /\ UNCHANGED resolved
    /\ UNCHANGED <<doc, chunks, events, linked, temporal, api, faults>>

\* ... then one autocommitted UPDATE per reference, ORDER BY chunk_index and a
\* random id.
ResolveUpdate(s) ==
    /\ At(s, "resolve_refs", "work")
    /\ \/ \E t \in slot[s].todo :
             /\ \A u \in slot[s].todo : t[1] <= u[1]
             /\ resolved' = resolved \cup ({t} \cap Quotations(linked))
             /\ slot' = [slot EXCEPT ![s].todo = @ \ {t}]
       \/ /\ slot[s].todo = {}
          /\ Return(s, "ok")
          /\ UNCHANGED resolved
    /\ UNCHANGED <<doc, chunks, events, linked, temporal, api, faults>>

\* A statement of the attempt fails.  Most activities return an error dict;
\* chunk_document also tries to mark the document failed; extract_events and
\* the deleting branch of store_events let an exception out, except that the
\* latter swallows a ConnectionError.
DbError(s) ==
    /\ slot[s].act # "idle" /\ slot[s].step \in {"run", "work"}
    /\ Spend("db")
    /\ doc' \in IF slot[s].act = "chunk" THEN {doc, Failed} ELSE {doc}
    /\ \E r \in CASE slot[s].act = "extract_events" -> {"raise"}
                  [] slot[s].act = "store_events" /\ Answer(slot[s].i) # "events"
                        -> {"raise", "ok"}
                  [] OTHER -> {"error"} :
          Return(s, r)
    /\ UNCHANGED <<chunks, events, linked, resolved, temporal, api>>
-----------------------------------------------------------------------------
(* The workflow: what run() does with the result of the awaited activity.  *)

Raise(cause) == Goto([wf EXCEPT !.stage = "set_failed", !.cause = cause])
Continue(stage) == Goto([wf EXCEPT !.stage = stage])

\* Mutant: run() returns without awaiting the last status update.
OnwardUnprocessed ==
    [set_processing |-> "get_metadata", set_extracting_blob |-> "extract_text",
     extract_text |-> "chunk", chunk |-> "get_chunks", get_prior |-> "extract_events",
     resolve_refs |-> "completed"]

\* Activities whose result run() does not look at, with what it awaits next.
\* The error dicts of extract_text, chunk, get_prior and resolve_refs are
\* among the results that are not looked at.
Onward ==
    [set_processing |-> "get_metadata", set_extracting_blob |-> "extract_text",
     extract_text |-> "chunk", chunk |-> "get_chunks", get_prior |-> "extract_events",
     resolve_refs |-> "set_processed", set_processed |-> "completed"]

\* The loop over the chunk rows that get_chunks returned; i runs over
\* positions in that list.
LoopAt(i, n) ==
    Goto([wf EXCEPT !.stage = IF i < n THEN "get_prior" ELSE "resolve_refs",
                    !.i = i, !.n = n])

AfterMetadata(a) ==
    /\ a.act = "get_metadata"
    /\ Continue(IF a.res = "no_text" THEN "set_extracting_blob" ELSE "chunk")

AfterGetChunks(a) ==
    /\ a.act = "get_chunks"
    /\ IF a.res = "error" THEN Raise("runtime") ELSE LoopAt(0, a.k)

AfterExtract(a) ==
    /\ a.act = "extract_events" /\ a.res # "raise"
    /\ Continue("store_events")

\* Mutant: the error of store_events is not looked at.
AfterStoreUnchecked(a) ==
    /\ a.act = "store_events" /\ a.res # "raise"
    /\ Continue("set_extracting_text")

AfterStore(a) ==
    /\ a.act = "store_events" /\ a.res # "raise"
    /\ IF a.res = "error" THEN Raise("runtime") ELSE Continue("set_extracting_text")

\* Mutant: the loop index does not advance.
AfterChunkDoneStuck(a) ==
    /\ a.act = "set_extracting_text"
    /\ LoopAt(wf.i, wf.n)

AfterChunkDone(a) ==
    /\ a.act = "set_extracting_text"
    /\ LoopAt(wf.i + 1, wf.n)

\* Mutant: the exception is not raised again.
AfterFailedSwallowed(a) ==
    /\ a.act = "set_failed"
    /\ Continue("completed")

\* except Exception: the status is written, then the exception is raised again.
AfterFailed(a) ==
    /\ a.act = "set_failed"
    /\ Continue(IF wf.cause = "activity" THEN "failed" ELSE "wedged")

\* The server retries a failed attempt until its RetryPolicy is exhausted;
\* then the workflow gets an ActivityError.
RetryOrRaise ==
    IF Exhausted(wf.stage, task.n)
    THEN Raise("activity")
    ELSE wf' = wf /\ task' = [state |-> "scheduled", n |-> task.n + 1]

Report(s) ==
    LET a == slot[s] IN
    /\ a.act # "idle" /\ a.step = "done" /\ a.live
    /\ \/ a.act \in DOMAIN Onward /\ Continue(Onward[a.act])
       \/ AfterMetadata(a)
       \/ AfterGetChunks(a)
       \/ AfterExtract(a)
       \/ AfterStore(a)
       \/ AfterChunkDone(a)
       \/ AfterFailed(a)
       \/ a.res = "raise" /\ RetryOrRaise
    /\ answers' = IF a.act = "extract_events" /\ a.res # "raise" /\ a.i \in Idx
                  THEN [answers EXCEPT ![a.i] = a.res] ELSE answers
    /\ slot' = [slot EXCEPT ![s] = IdleSlot]
    /\ UNCHANGED <<tables, api, faults>>

\* The answer of an attempt the server gave up on is dropped.
Discard(s) ==
    /\ slot[s].act # "idle" /\ slot[s].step = "done" /\ ~slot[s].live
    /\ slot' = [slot EXCEPT ![s] = IdleSlot]
    /\ UNCHANGED <<tables, temporal, api, faults>>

\* Some time after the timeout the worker process may cancel the attempt:
\* CancelledError ends it at its next await and rolls its transaction back.
CancelLate(s) ==
    /\ slot[s].act # "idle" /\ slot[s].step # "done" /\ ~slot[s].live
    /\ slot' = [slot EXCEPT ![s] = IdleSlot]
    /\ UNCHANGED <<tables, temporal, api, faults>>

\* start_to_close_timeout of an attempt whose worker is gone.
Timeout ==
    /\ task.state = "started" /\ \A s \in Slots : ~slot[s].live
    /\ RetryOrRaise
    /\ UNCHANGED <<tables, answers, slot, api, faults>>

\* start_to_close_timeout of an attempt that still runs: activities do not
\* heartbeat, so the attempt is not told and goes on beside its retry.
TimeoutLate(s) ==
    /\ slot[s].live
    /\ Spend("late")
    /\ slot' = [slot EXCEPT ![s].live = FALSE]
    /\ RetryOrRaise
    /\ UNCHANGED <<tables, answers, api>>

\* The worker process dies; an open transaction is rolled back.
Crash ==
    /\ \E s \in Slots : slot[s].act # "idle"
    /\ Spend("crash")
    /\ slot' = [s \in Slots |-> IdleSlot]
    /\ UNCHANGED <<tables, temporal, api>>
-----------------------------------------------------------------------------
(* DELETE /documents/{id}: autocommitted statements, then terminate.       *)

DeleteFind ==
    /\ del = "idle" /\ doc.present
    /\ del' = "found"
    /\ UNCHANGED <<source, tables, temporal, slot, submit, erased, faults>>

DeleteChunks ==
    /\ del = "found"
    /\ del' = "chunks_gone" /\ erased' = TRUE
    /\ chunks' = {}
    /\ UNCHANGED <<source, doc, events, linked, resolved, temporal, slot, submit, faults>>

\* Children first: event_ref, event_participant_v2, event_location, event_document, ...
DeleteLinks ==
    /\ del = "chunks_gone"
    /\ del' = "links_gone"
    /\ linked' = {} /\ resolved' = {}
    /\ UNCHANGED <<source, doc, chunks, events, temporal, slot, submit, erased, faults>>

\* ... then event_v2; ON DELETE CASCADE takes the children inserted meanwhile.
DeleteEvents ==
    /\ del = "links_gone"
    /\ del' = "events_gone"
    /\ events' = {} /\ linked' = {} /\ resolved' = {}
    /\ UNCHANGED <<source, doc, chunks, temporal, slot, submit, erased, faults>>

\* Here too ON DELETE CASCADE takes the rows inserted meanwhile.
DeleteDocument ==
    /\ del = "events_gone"
    /\ del' = "document_gone"
    /\ doc' = Absent /\ chunks' = {} /\ events' = {} /\ linked' = {} /\ resolved' = {}
    /\ UNCHANGED <<source, temporal, slot, submit, erased, faults>>

\* Best effort: without an open execution, or without Temporal, nothing happens.
Terminate ==
    /\ del = "document_gone"
    /\ del' = "idle"
    /\ \/ /\ wf.stage \in Activities \cup {"wedged"}
          /\ wf' = [wf EXCEPT !.stage = "terminated"]
          /\ task' = NoTask
          /\ slot' = [s \in Slots |-> [slot[s] EXCEPT !.live = FALSE]]
          /\ UNCHANGED faults
       \/ /\ wf.stage \notin Activities \cup {"wedged"}
          /\ UNCHANGED <<wf, task, slot, faults>>
       \/ /\ Spend("temporal")
          /\ UNCHANGED <<wf, task, slot>>
    /\ UNCHANGED <<source, tables, answers, submit, erased>>

\* A statement fails half way (502); the client may ask again.
DeleteFails ==
    /\ del \in {"found", "chunks_gone", "links_gone", "events_gone"}
    /\ Spend("db")
    /\ del' = "idle"
    /\ UNCHANGED <<source, tables, temporal, slot, submit, erased>>
-----------------------------------------------------------------------------
Work(s) ==
    \/ UpdateStatus(s) \/ GetMetadata(s) \/ ExtractText(s)
    \/ ChunkDelete(s) \/ ChunkInsert(s) \/ ChunkMark(s)
    \/ GetChunks(s) \/ GetPrior(s) \/ ExtractEvents(s)
    \/ StoreNothing(s) \/ StoreBegin(s) \/ StoreCommit(s)
    \/ ResolveRead(s) \/ ResolveUpdate(s)

Deletion == DeleteFind \/ DeleteChunks \/ DeleteLinks \/ DeleteEvents \/ DeleteDocument
                \/ Terminate \/ DeleteFails

Next ==
    \/ Submit \/ StartWorkflow \/ LoseStart
    \/ \E s \in Slots : Claim(s) \/ Work(s) \/ DbError(s) \/ Report(s)
                            \/ Discard(s) \/ CancelLate(s) \/ TimeoutLate(s)
    \/ Timeout \/ Crash
    \/ Deletion

Spec == Init /\ [][Next]_vars

\* Workers poll and run, the server fires timeouts, a handler that started goes on.
Fairness ==
    /\ WF_vars(StartWorkflow)
    /\ \A s \in Slots : WF_vars(Claim(s)) /\ WF_vars(Work(s))
                            /\ WF_vars(Report(s)) /\ WF_vars(Discard(s))
    /\ WF_vars(Timeout)
    /\ WF_vars(DeleteChunks) /\ WF_vars(DeleteLinks) /\ WF_vars(DeleteEvents)
    /\ WF_vars(DeleteDocument) /\ WF_vars(Terminate)

FairSpec == Spec /\ Fairness
-----------------------------------------------------------------------------
DocumentRow == [present : BOOLEAN, status : Status, err : BOOLEAN, text : BOOLEAN]
Execution == [stage : Stages, i : Nat, n : Nat, cause : {"none", "activity", "runtime"}]
Task == [state : {"none", "scheduled", "started"}, n : Nat]
Result == {"ok", "error", "no_text", "events", "none", "raise"}
Attempt ==
    [act : Activities \cup {"idle"}, i : Nat, n : Nat, step : {"run", "work", "done"},
     k : Nat, seen : SUBSET Row, todo : SUBSET Reference, res : Result, live : BOOLEAN]

\* Type invariant of every table, of the execution and of the attempts.
TypeOK ==
    /\ source \in {"text", "file", "unreadable"}
    /\ doc \in DocumentRow
    /\ chunks \in SUBSET Row /\ events \in SUBSET Row
    /\ linked \in SUBSET Row /\ resolved \in SUBSET Reference
    /\ wf \in Execution
    /\ answers \in [Idx -> {"unknown", "events", "none"}]
    /\ task \in Task
    /\ slot \in [Slots -> Attempt]
    /\ submit \in {"none", "inserted", "done"}
    /\ del \in {"idle", "found", "chunks_gone", "links_gone", "events_gone", "document_gone"}
    /\ erased \in BOOLEAN
    /\ faults \in Nat

\* A chunk whose store_events call the workflow has seen succeed.
Settled(c) ==
    c < wf.i \/ (c = wf.i /\ wf.stage = "set_extracting_text")

\* No row outlives its document: whatever attempts are still running when the
\* delete handler finishes, nothing they insert survives (the handler deletes
\* while the worker inserts; ON DELETE CASCADE and the foreign keys decide).
NoOrphans ==
    ~doc.present => chunks = {} /\ events = {} /\ linked = {} /\ resolved = {}

\* "No data loss": once the workflow has seen a chunk's events stored, a batch
\* of that chunk stays visible through retries, late attempts, crashes and
\* failures of later chunks, until a delete request removes it.
NoLostEvents ==
    \A c \in Idx : Settled(c) /\ answers[c] = "events" /\ ~erased
                    => RowsOf(c, events) # {}

\* Events are only ever visible for a chunk the LLM answered with events, and
\* no later than the chunk the workflow is at: an abandoned extraction or a
\* late store never publishes anything of its own.
OnlyAnswered ==
    \A e \in events : answers[e[1]] = "events" /\ e[1] <= wf.i

\* The four writers of document.status agree on error_message: it is set
\* whenever the status is failed and clear whenever the status was written
\* by the workflow's progress ("processing", "processed").
ErrorColumn ==
    /\ doc.status = "failed" => doc.err
    /\ doc.status \in {"processing", "processed", "extracting_blob"} => ~doc.err

\* The promise to the readers of the event tables (Publication.tla), with the
\* phase read off the document row and the visible chunks off the batches.
Phase ==
    IF doc.present THEN IF erased THEN "erasing" ELSE "live"
    ELSE IF submit = "none" THEN "absent" ELSE "gone"
Readers == INSTANCE Publication WITH phase <- Phase, visible <- {e[1] : e \in events}

\* The pipeline implements that promise under every fault, late attempts included.
PublishesInOrder == Readers!Spec

\* The assumption of README's "if the worker crashes": no attempt outlives its
\* timeout and no statement fails.
CrashOnly == Faults \subseteq {"crash", "temporal"}

AtMostOneBatch ==
    \A c \in Idx : \A e, f \in RowsOf(c, events) : e = f

\* "No duplicates": with worker crashes only, a chunk never has two batches of
\* events, although an attempt may commit and crash before it reports.  (A
\* delete request removes the links through which a store finds older batches.)
CrashMakesNoDuplicates == CrashOnly /\ ~erased => AtMostOneBatch

\* "Temporal resumes from the last completed step": with worker crashes only,
\* a readable document that reaches the resolve step has an answer for each
\* chunk of its text, in spite of a crash between the DELETE and the INSERTs
\* of chunk_document.
CrashLosesNoChunk ==
    CrashOnly /\ source # "unreadable" /\ ~erased
        /\ wf.stage \in {"resolve_refs", "set_processed", "completed"}
    => wf.n = NumChunks /\ \A c \in Idx : answers[c] # "unknown"

\* With worker crashes only, when the document becomes processed the stored
\* references with a document offset are exactly those whose text is in their
\* chunk, although the UPDATEs of resolve_references commit one by one; the
\* others keep the LLM's span (test_text_not_found_in_chunk).
CrashResolvesQuotations ==
    CrashOnly /\ doc.status = "processed" /\ ~erased => resolved = Quotations(events)

\* The status a client polls agrees with the way the execution closed.
StatusAgrees ==
    CrashOnly /\ doc.present =>
        /\ wf.stage = "completed" => doc.status = "processed"
        /\ wf.stage \in {"failed", "wedged"} => doc.status = "failed"

\* With worker crashes only, a chunk's events change only while the workflow
\* is storing that chunk or a delete request is removing rows.
EventsStable ==
    [][CrashOnly => \A c \in Idx : RowsOf(c, events') # RowsOf(c, events)
          => (wf.i = c /\ wf.stage = "store_events") \/ del # "idle"]_vars

\* With worker crashes only, a client that polls a started document comes to
\* see processed or failed, and never another status afterwards.
PollingSettles ==
    CrashOnly => (wf.stage = "set_processing"
                    ~> [](doc.status \in {"processed", "failed"} \/ ~doc.present))

\* README.md:65 and :128 without the restriction to crashes: no duplicates.
NoDuplicates == AtMostOneBatch

\* The plan for extract_text (260601-w4g-PLAN.md:84): the workflow raises on the
\* error of a file that cannot be read, so such a document never ends processed.
UnreadableNotProcessed == source = "unreadable" => doc.status # "processed"

\* A started execution comes to rest, whatever crashes and database errors hit it.
EventuallyEnds ==
    wf.stage = "set_processing" ~> wf.stage \in Ends

\* After a delete request removed the document row the workers come to rest
\* for good, even when the request to terminate the execution is lost.
EventuallyQuiet ==
    del = "document_gone" ~> [](\A s \in Slots : slot[s].act = "idle")
=============================================================================
