-------------------------- MODULE DocPipelineInv ---------------------------
(***************************************************************************)
(* The inductive strengthening behind DocPipeline's safety invariants.     *)
(* TLC checks it on the small instance; DocPipelineProofs proves it, and   *)
(* DocPipelineCrash what is said of worker crashes only.                   *)
(***************************************************************************)
EXTENDS DocPipeline

BeforeLoop == {"unstarted", "set_processing", "get_metadata", "set_extracting_blob",
               "extract_text", "chunk", "get_chunks"}
BeforeAnswer == BeforeLoop \cup {"get_prior", "extract_events"}

\* The workflow is past the extraction of chunk c: its answer is final.
Asked(c) == c < wf.i \/ (c = wf.i /\ wf.stage \notin BeforeAnswer)

\* The loop index only moves in the loop, and answers come in chunk order.
WorkflowInv ==
    /\ wf.stage \in BeforeLoop => wf.i = 0
    /\ \A c \in Idx : ~Asked(c) => answers[c] = "unknown"

\* The one attempt the server still listens to runs what the workflow awaits.
LiveInv ==
    /\ \A s \in Slots : slot[s].live =>
          /\ task.state = "started"
          /\ slot[s].act = wf.stage
          /\ slot[s].i = wf.i
    /\ \A s, t \in Slots : slot[s].live /\ slot[t].live => s = t
    /\ task.state # "none" => wf.stage \in Activities

\* What a finished attempt of the two activities whose result counts can report.
Outcome(a) ==
    a.step = "done" =>
        /\ a.act = "extract_events" => a.res \in {"events", "none", "raise"}
        /\ a.act = "store_events" => a.res \in {"ok", "error", "raise"}

OutcomeInv == \A s \in Slots : Outcome(slot[s])

\* Every store attempt, live or late, works on a chunk whose answer is final;
\* an open transaction holds rows of that chunk only, and a successful one has
\* left a batch behind.
StoreAttempt(a) ==
    a.act = "store_events" =>
        /\ Asked(a.i)
        /\ a.step = "work" => /\ a.i \in Idx /\ answers[a.i] = "events"
                              /\ \A e \in a.seen : e[1] = a.i
        /\ a.step = "done" /\ a.res = "ok" /\ Answer(a.i) = "events" /\ ~erased
               => RowsOf(a.i, events) # {}

StoreInv == \A s \in Slots : StoreAttempt(slot[s])

\* Rows exist only for a document, and event batches only for answered chunks.
RowInv ==
    /\ IsFiniteSet(chunks)
    /\ linked \subseteq events /\ resolved \subseteq Quotations(linked)
    /\ NoOrphans
    /\ \A e \in events : Asked(e[1]) /\ answers[e[1]] = "events"

\* The delete handler holds a document until it removes the row itself.
DeleteInv ==
    /\ doc.present => submit # "none"
    /\ submit # "done" => wf.stage = "unstarted"
    /\ submit = "none" => ~erased
    /\ del \in {"found", "chunks_gone", "links_gone", "events_gone"} => doc.present
    /\ del \in {"chunks_gone", "links_gone", "events_gone"} => erased

IInv ==
    /\ TypeOK
    /\ WorkflowInv
    /\ LiveInv
    /\ OutcomeInv
    /\ StoreInv
    /\ RowInv
    /\ DeleteInv
    /\ NoLostEvents
-----------------------------------------------------------------------------
(* What the properties under worker crashes only need on top of IInv.      *)

LoopStages == {"get_prior", "extract_events", "store_events", "set_extracting_text"}
Closing == {"resolve_refs", "set_processed", "completed"}
Cutting == {"chunk", "get_chunks"} \cup LoopStages \cup Closing

\* A document that was submitted stays until a delete request has begun to
\* remove rows, and one that was removed does not come back.
PresenceInv ==
    /\ del # "idle" => submit # "none"
    /\ submit # "none" /\ ~doc.present => erased
    /\ del = "document_gone" => ~doc.present

\* Batches and links come and go together, except in a deletion.
LinkInv == ~erased => linked = events

\* The loop leaves no chunk without an answer and ends after the last one.
LoopInv ==
    /\ \A c \in Idx : c < wf.i => answers[c] # "unknown"
    /\ wf.stage \in {"store_events", "set_extracting_text"} => Answer(wf.i) # "unknown"
    /\ wf.stage \in Closing => wf.i >= wf.n

\* A file that cannot be read has neither text nor chunks nor events.
UnreadableInv ==
    source = "unreadable" =>
        /\ ~doc.text /\ chunks = {}
        /\ \A c \in Idx : answers[c] # "events"
        /\ \A s \in Slots :
              /\ ~At(s, "chunk", "work")
              /\ At(s, "extract_events", "done") => slot[s].res # "events"

BaseInv == PresenceInv /\ LinkInv /\ LoopInv /\ UnreadableInv

\* Without late attempts nobody works beside the attempt the server listens
\* to, as long as the document exists.
LoneWorker ==
    \A s \in Slots : slot[s].act # "idle" => slot[s].live \/ (erased /\ ~doc.present)

\* A status the workflow has written last is still there.
StatusInv ==
    doc.present =>
        /\ \A s \in Slots :
              /\ At(s, "set_processed", "done") => doc.status = "processed"
              /\ At(s, "set_failed", "done") => doc.status = "failed"
        /\ wf.stage = "completed" => doc.status = "processed"
        /\ wf.stage \in {"failed", "wedged"} => doc.status = "failed"
        /\ doc.status = "processed" => wf.stage \in {"set_processed", "completed"}

\* The rows one attempt inserted for the chunks before k, and no others.
ChunkedUpTo(k, n) == chunks = (0 .. k - 1) \X {n}
Chunked == \E row \in chunks : ChunkedUpTo(NumChunks, row[2])
Readable == source # "unreadable" /\ ~erased

\* The text is there before it is cut, and all of its chunks before the loop.
ChunksInv ==
    Readable =>
        /\ wf.stage \in Cutting => doc.text
        /\ wf.stage \in Cutting \ {"chunk"} => Chunked
        /\ wf.stage \in LoopStages \cup Closing => wf.n = NumChunks
        /\ \A s \in Slots :
              /\ At(s, "get_metadata", "done") /\ slot[s].res # "no_text" => doc.text
              /\ At(s, "extract_text", "done") => doc.text
              /\ At(s, "chunk", "run") => slot[s].k = 0
              /\ At(s, "chunk", "work") =>
                    slot[s].k <= NumChunks /\ ChunkedUpTo(slot[s].k, slot[s].n)
              /\ At(s, "chunk", "done") => Chunked
              /\ At(s, "get_chunks", "done") => slot[s].k = NumChunks

\* An open store transaction sees the one batch it is about to replace.
BatchInv ==
    ~erased =>
        /\ AtMostOneBatch
        /\ \A s \in Slots : At(s, "store_events", "work")
               => slot[s].seen = RowsOf(slot[s].i, linked)

\* What resolve_references has not come to is still among what it read.
ResolveInv ==
    ~erased =>
        /\ \A s \in Slots :
              /\ At(s, "resolve_refs", "work") =>
                    Quotations(linked) \ slot[s].todo \subseteq resolved
              /\ At(s, "resolve_refs", "done") => resolved = Quotations(events)
        /\ wf.stage \in {"set_processed", "completed"} => resolved = Quotations(events)

CrashInv == LoneWorker /\ StatusInv /\ ChunksInv /\ BatchInv /\ ResolveInv
=============================================================================
