------------------------------- MODULE Ingest -------------------------------
(***************************************************************************)
(* How documents come in: create_document stores a text, upload_document   *)
(* puts the file into MinIO (or into the row, if that fails), INSERTs the   *)
(* row, cleans up if the INSERT fails, and starts the workflow; the worker *)
(* fetches the file; delete_document removes the row.  Blobs and rows live *)
(* in two stores, every call to one of which may fail, with or without     *)
(* effect, and the API may die between any two calls.                      *)
(***************************************************************************)
EXTENDS Integers

CONSTANTS
    Documents,   \* requests to submit one, each with fresh row id and blob path
    MaxRetries   \* MAX_RETRIES of storage.py, 3

ASSUME RetriesAssumption == MaxRetries \in Nat \ {0}

VARIABLES
    req,       \* per document, its request: where it is, connection attempts made,
               \* minio_available, and the faults that hit it (history)
    answer,    \* the status code the client has seen; 400 for every refused input
    rows,      \* table document: where a row keeps its content
    blobs,     \* objects in the bucket, named by their document
    started,   \* executions of the workflow
    fetch,     \* per document, extract_text: where it is, connection attempts made
    deleted,   \* documents delete_document has removed
    temporal   \* app.state.temporal: the API got a client when it started

vars == <<req, answer, rows, blobs, started, fetch, deleted, temporal>>
-----------------------------------------------------------------------------
Begun == {"connect", "put", "insert", "reconnect", "clean", "start"}
Fetching == {"connect", "get"}

Init ==
    /\ req = [d \in Documents |-> [at |-> "idle", tries |-> 0, stored |-> FALSE,
                                   kind |-> "text", hit |-> {}]]
    /\ answer = [d \in Documents |-> 0]
    /\ rows = [d \in Documents |-> "none"]
    /\ blobs = {} /\ started = {} /\ deleted = {}
    /\ temporal \in BOOLEAN
    /\ fetch = [d \in Documents |-> [at |-> "idle", tries |-> 0]]

Goto(d, step) == req' = [req EXCEPT ![d].at = step, ![d].tries = 0]
Hit(d, step, fault) ==
    req' = [req EXCEPT ![d].at = step, ![d].tries = 0, ![d].hit = @ \cup {fault}]
Respond(d, code) == answer' = [answer EXCEPT ![d] = code]
Reach(d, step) == fetch' = [fetch EXCEPT ![d] = [at |-> step, tries |-> 0]]

\* What the row of an upload says of its content.
Form(d) == IF req[d].kind = "text" THEN "text" ELSE IF req[d].stored THEN "minio" ELSE "inline"
-----------------------------------------------------------------------------
(* The handlers that submit.                                               *)

\* The input is refused before anything is stored, or a text or a file is taken on.
Submit(d) ==
    /\ req[d].at = "idle"
    /\ \/ Goto(d, "over") /\ Respond(d, 400)
       \/ req' = [req EXCEPT ![d].at = "insert", ![d].kind = "text"] /\ UNCHANGED answer
       \/ req' = [req EXCEPT ![d].at = "connect", ![d].kind = "file"] /\ UNCHANGED answer
    /\ UNCHANGED <<rows, blobs, started, fetch, deleted, temporal>>

\* Mutant: the attempts begin anew instead of ending.
ConnectForever(d) ==
    /\ req[d].at = "connect"
    /\ \/ Goto(d, "put")
       \/ req' = [req EXCEPT ![d].tries = (@ + 1) % MaxRetries]
    /\ UNCHANGED <<answer, rows, blobs, started, fetch, deleted, temporal>>

\* An attempt of _connect for the upload.  It is repeated after an S3Error or an
\* OSError; after the last one, or any other exception, the content goes into the row.
Connect(d) ==
    /\ req[d].at = "connect"
    /\ \/ Goto(d, "put")
       \/ req[d].tries + 1 < MaxRetries /\ req' = [req EXCEPT ![d].tries = @ + 1]
       \/ Goto(d, "insert")
    /\ UNCHANGED <<answer, rows, blobs, started, fetch, deleted, temporal>>

\* Mutant: minio_available is set before put_object returns.
PutBlobTrusting(d) ==
    /\ req[d].at = "put"
    /\ blobs' \in {blobs, blobs \cup {d}}
    /\ req' = [req EXCEPT ![d].at = "insert", ![d].stored = TRUE]
    /\ UNCHANGED <<answer, rows, started, fetch, deleted, temporal>>

\* put_object succeeds, or fails, and in that case may have stored the blob.
PutBlob(d) ==
    /\ req[d].at = "put"
    /\ \/ /\ blobs' = blobs \cup {d}
          /\ req' = [req EXCEPT ![d].at = "insert", ![d].stored = TRUE]
       \/ UNCHANGED blobs /\ Goto(d, "insert")
       \/ blobs' = blobs \cup {d} /\ Hit(d, "insert", "put")
    /\ UNCHANGED <<answer, rows, started, fetch, deleted, temporal>>

\* Mutant: the handler does not clean up after a failed INSERT.
InsertRowOnly(d) ==
    /\ req[d].at = "insert"
    /\ \/ rows' = [rows EXCEPT ![d] = Form(d)] /\ Goto(d, "start") /\ UNCHANGED answer
       \/ UNCHANGED rows /\ Goto(d, "over") /\ Respond(d, 502)
    /\ UNCHANGED <<blobs, started, fetch, deleted, temporal>>

\* The INSERT commits, or raises, and in that case may have committed.
InsertRow(d) ==
    /\ req[d].at = "insert"
    /\ \/ rows' = [rows EXCEPT ![d] = Form(d)] /\ Goto(d, "start") /\ UNCHANGED answer
       \/ LET onwards == IF req[d].stored THEN "reconnect" ELSE "over"
          IN  /\ \/ UNCHANGED rows /\ Goto(d, onwards)
                 \/ rows' = [rows EXCEPT ![d] = Form(d)] /\ Hit(d, onwards, "insert")
              /\ IF req[d].stored THEN UNCHANGED answer ELSE Respond(d, 502)
    /\ UNCHANGED <<blobs, started, fetch, deleted, temporal>>

\* An attempt of _connect for the clean-up, which is given up silently.
Reconnect(d) ==
    /\ req[d].at = "reconnect"
    /\ \/ Goto(d, "clean") /\ UNCHANGED answer
       \/ req[d].tries + 1 < MaxRetries /\ req' = [req EXCEPT ![d].tries = @ + 1]
          /\ UNCHANGED answer
       \/ Hit(d, "over", "cleanup") /\ Respond(d, 502)
    /\ UNCHANGED <<rows, blobs, started, fetch, deleted, temporal>>

\* Mutant: the handler goes on after the clean-up instead of raising.
RemoveBlobFallsThrough(d) ==
    /\ req[d].at = "clean"
    /\ \/ blobs' = blobs \ {d} /\ Goto(d, "start")
       \/ UNCHANGED blobs /\ Hit(d, "start", "cleanup")
    /\ UNCHANGED <<answer, rows, started, fetch, deleted, temporal>>

RemoveBlob(d) ==
    /\ req[d].at = "clean"
    /\ \/ blobs' = blobs \ {d} /\ Goto(d, "over")
       \/ UNCHANGED blobs /\ Hit(d, "over", "cleanup")
    /\ Respond(d, 502)
    /\ UNCHANGED <<rows, started, fetch, deleted, temporal>>

\* Mutant: the failure to start the workflow is an error of the request.
StartWorkflowOrFail(d) ==
    /\ req[d].at = "start"
    /\ \/ started' = started \cup {d} /\ Respond(d, 201)
       \/ UNCHANGED started /\ Respond(d, 502)
    /\ Goto(d, "over")
    /\ UNCHANGED <<rows, blobs, fetch, deleted, temporal>>

\* Mutant: only one of the two handlers starts the workflow.
StartUploadsOnly(d) ==
    /\ req[d].at = "start"
    /\ started' = IF req[d].kind = "file" THEN started \cup {d} ELSE started
    /\ Goto(d, "over") /\ Respond(d, 201)
    /\ UNCHANGED <<rows, blobs, fetch, deleted, temporal>>

\* Temporal is unreachable, or was when the API started, or raises although the
\* execution was started; the client is told nothing of it.
StartWorkflow(d) ==
    /\ req[d].at = "start"
    /\ \/ temporal /\ started' = started \cup {d} /\ Goto(d, "over")
       \/ UNCHANGED started /\ Hit(d, "over", "start")
       \/ temporal /\ started' = started \cup {d} /\ Hit(d, "over", "start")
    /\ Respond(d, 201)
    /\ UNCHANGED <<rows, blobs, fetch, deleted, temporal>>

\* The API process dies with the requests in progress, and starts again, with or
\* without Temporal.  The call to Temporal and the removal of a blob may have arrived;
\* an upload or INSERT that did is one that returned.
Crash ==
    /\ req' = [d \in Documents |->
           IF req[d].at \in Begun
           THEN [req[d] EXCEPT !.at = "over", !.tries = 0, !.hit = @ \cup {"crash"}]
           ELSE req[d]]
    /\ \E arrived \in SUBSET {d \in Documents : temporal /\ req[d].at = "start"} :
          started' = started \cup arrived
    /\ \E gone \in SUBSET {d \in Documents : req[d].at = "clean"} : blobs' = blobs \ gone
    /\ temporal' \in BOOLEAN
    /\ UNCHANGED <<answer, rows, fetch, deleted>>
-----------------------------------------------------------------------------
(* The worker, and delete_document.                                        *)

\* extract_text reads the row; only content in MinIO has to be fetched.
ReadRow(d) ==
    /\ d \in started /\ fetch[d].at = "idle"
    /\ \/ rows[d] = "none" /\ Reach(d, "gone")
       \/ rows[d] = "minio" /\ Reach(d, "connect")
       \/ rows[d] \in {"text", "inline"} /\ Reach(d, "text")
       \/ Reach(d, "failed")
    /\ UNCHANGED <<req, answer, rows, blobs, started, deleted, temporal>>

FetchConnect(d) ==
    /\ fetch[d].at = "connect"
    /\ \/ Reach(d, "get")
       \/ fetch[d].tries + 1 < MaxRetries /\ fetch' = [fetch EXCEPT ![d].tries = @ + 1]
       \/ Reach(d, "failed")
    /\ UNCHANGED <<req, answer, rows, blobs, started, deleted, temporal>>

GetBlob(d) ==
    /\ fetch[d].at = "get"
    /\ \/ d \in blobs /\ Reach(d, "text")
       \/ d \notin blobs /\ Reach(d, "missing")
       \/ Reach(d, "failed")
    /\ UNCHANGED <<req, answer, rows, blobs, started, deleted, temporal>>

\* Temporal repeats an attempt that failed or whose worker died; DocPipeline counts them.
FetchAgain(d) ==
    /\ fetch[d].at \in Fetching \cup {"failed"}
    /\ Reach(d, "idle")
    /\ UNCHANGED <<req, answer, rows, blobs, started, deleted, temporal>>

\* The row goes, then the execution unless Temporal is unreachable; an attempt
\* that runs goes on.  The statements before it belong to DocPipeline.
DeleteDocument(d) ==
    /\ rows[d] # "none"
    /\ rows' = [rows EXCEPT ![d] = "none"]
    /\ deleted' = deleted \cup {d}
    /\ started' \in IF temporal THEN {started, started \ {d}} ELSE {started}
    /\ UNCHANGED <<req, answer, blobs, fetch, temporal>>
-----------------------------------------------------------------------------
Handle(d) ==
    \/ Connect(d) \/ PutBlob(d) \/ InsertRow(d) \/ Reconnect(d)
    \/ RemoveBlob(d) \/ StartWorkflow(d)

Next ==
    \/ \E d \in Documents :
          \/ Submit(d) \/ Handle(d)
          \/ ReadRow(d) \/ FetchConnect(d) \/ GetBlob(d) \/ FetchAgain(d)
          \/ DeleteDocument(d)
    \/ Crash

Spec == Init /\ [][Next]_vars

\* Every call of a handler returns or raises: the clients have timeouts.
FairSpec == Spec /\ \A d \in Documents : WF_vars(Handle(d))
-----------------------------------------------------------------------------
Faults == {"put", "insert", "cleanup", "start", "crash"}
Requests == [at : Begun \cup {"idle", "over"}, tries : Nat, stored : BOOLEAN,
             kind : {"text", "file"}, hit : SUBSET Faults]
Fetches == [at : Fetching \cup {"idle", "gone", "text", "failed", "missing"}, tries : Nat]

Typed ==
    /\ req \in [Documents -> Requests] /\ fetch \in [Documents -> Fetches]
    /\ answer \in [Documents -> {0, 201, 400, 502}]
    /\ rows \in [Documents -> {"none", "text", "inline", "minio"}]

\* Type invariant; a failed attempt to connect is not the last one.
TypeOK ==
    /\ Typed
    /\ \A d \in Documents : req[d].tries < MaxRetries /\ fetch[d].tries < MaxRetries
    /\ blobs \subseteq Documents /\ started \subseteq Documents /\ deleted \subseteq Documents
    /\ temporal \in BOOLEAN

\* A document the client was told is created is there until it is deleted, and
\* its content with it.
AcceptedIsReadable ==
    \A d \in Documents : answer[d] = 201 /\ d \notin deleted =>
        rows[d] # "none" /\ (rows[d] = "minio" => d \in blobs)

\* No extraction looks for a blob that is not there: a row that was committed
\* although its INSERT raised has lost its blob, but nobody starts on it.
NeverMissing == \A d \in Documents : fetch[d].at # "missing"

\* A blob that no row names is explained by a call that failed, a crash, a
\* delete, or a request that is still at work.
OrphansExplained ==
    \A d \in blobs \cap Documents :
        \/ rows[d] = "minio" \/ d \in deleted \/ req[d].at \in Begun
        \/ req[d].hit \cap {"put", "cleanup", "crash"} # {}

\* A client is told of failure with the document stored only if the INSERT
\* raised after its commit.
RejectedExplained ==
    \A d \in Documents : answer[d] = 502 /\ rows[d] # "none" => "insert" \in req[d].hit

\* A document that stays pending for good, with no execution and no request that
\* would start one, is explained by a call to Temporal that failed or was not made
\* for want of a client, by a crash, or by an INSERT that raised after its commit.
\* (No operation starts the execution later.)
PendingExplained ==
    \A d \in Documents : rows[d] # "none" /\ req[d].at = "over" /\ d \notin started =>
        req[d].hit \cap {"start", "insert", "crash"} # {}

\* The promise to clients and worker (Submission.tla), read off the two stores and
\* the worker's attempt.
Place(d) ==
    IF d \in deleted THEN "gone" ELSE IF rows[d] = "none" THEN "absent" ELSE "stored"
Outcome(d) == IF fetch[d].at \in {"text", "gone", "missing"} THEN fetch[d].at ELSE "none"
Promise == INSTANCE Submission WITH
    place <- [d \in Documents |-> Place(d)],
    reply <- answer,
    outcome <- [d \in Documents |-> Outcome(d)]

\* The handlers and the worker implement it, whichever calls fail: a refused
\* document may be stored, but it is never processed, and no processed one has lost
\* its content.
KeepsThePromise == Promise!Spec

\* Every request comes to its end, however often MinIO refuses.
RequestsEnd == \A d \in Documents : req[d].at \in Begun ~> req[d].at = "over"

\* Where a request is tells what it has left in the two stores and with Temporal.
RequestInv(d) ==
    /\ req[d].at \in {"idle", "connect", "put", "insert"} =>
          rows[d] = "none" /\ d \notin deleted /\ req[d].hit \subseteq {"put"}
    /\ req[d].at \in {"idle", "connect", "put"} => d \notin blobs /\ ~req[d].stored
    /\ req[d].at = "start" => (rows[d] = Form(d) \/ d \in deleted) /\ "insert" \notin req[d].hit
    /\ req[d].at # "over" => answer[d] = 0 /\ d \notin started /\ fetch[d].at = "idle"
    /\ req[d].at \in {"reconnect", "clean"} => req[d].stored
    /\ req[d].stored \/ req[d].at \in {"connect", "put"} => req[d].kind = "file"

\* A blob is missing only after the clean-up of a request that is over and was
\* not accepted, and nobody works on its document.
BlobInv(d) ==
    /\ rows[d] = "minio" => req[d].stored
    /\ d \in blobs /\ ~req[d].stored => "put" \in req[d].hit
    /\ req[d].stored /\ d \notin blobs =>
          req[d].at = "over" /\ answer[d] # 201 /\ d \notin started
    /\ fetch[d].at \in Fetching => d \in blobs

\* The row outlives its request as the request left it, until it is deleted.
RowInv(d) ==
    /\ answer[d] = 201 => rows[d] # "none" \/ d \in deleted
    /\ req[d].at \in {"reconnect", "clean"} /\ rows[d] # "none" => "insert" \in req[d].hit

\* Only what was stored and not refused is worked on; what is removed stays away.
WorkInv(d) ==
    /\ d \in started \/ fetch[d].at # "idle" => answer[d] \in {0, 201} /\ Place(d) # "absent"
    /\ d \in deleted => rows[d] = "none"

\* The inductive invariant from which the others follow.
IngestInv ==
    /\ Typed
    /\ \A d \in Documents : RequestInv(d) /\ BlobInv(d) /\ RowInv(d)
    /\ NeverMissing /\ OrphansExplained /\ RejectedExplained /\ PendingExplained
=============================================================================
