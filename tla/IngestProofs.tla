---------------------------- MODULE IngestProofs ----------------------------
(***************************************************************************)
(* Accepted documents keep their content, and what the two stores disagree *)
(* about is explained, for any number of documents and retries.            *)
(***************************************************************************)
EXTENDS Ingest, TLAPS

\* The invariants of one document.
Explained(d) ==
    /\ fetch[d].at # "missing"
    /\ d \in blobs => \/ rows[d] = "minio" \/ d \in deleted \/ req[d].at \in Begun
                      \/ req[d].hit \cap {"put", "cleanup", "crash"} # {}
    /\ answer[d] = 502 /\ rows[d] # "none" => "insert" \in req[d].hit
    /\ rows[d] # "none" /\ req[d].at = "over" /\ d \notin started =>
          req[d].hit \cap {"start", "insert", "crash"} # {}

DocumentInv(d) == RequestInv(d) /\ BlobInv(d) /\ RowInv(d) /\ Explained(d)

\* A step of another document.
Same(d) ==
    /\ req'[d] = req[d] /\ answer'[d] = answer[d] /\ rows'[d] = rows[d] /\ fetch'[d] = fetch[d]
    /\ (d \in blobs' <=> d \in blobs) /\ (d \in started' <=> d \in started)
    /\ (d \in deleted' <=> d \in deleted)

LEMMA PerDocument == IngestInv <=> Typed /\ \A d \in Documents : DocumentInv(d)
  BY DEF IngestInv, DocumentInv, Explained, NeverMissing, OrphansExplained, RejectedExplained, PendingExplained

LEMMA PerDocumentNext == IngestInv' <=> Typed' /\ \A d \in Documents : DocumentInv(d)'
  BY DEF IngestInv, DocumentInv, Explained, NeverMissing, OrphansExplained, RejectedExplained, PendingExplained,
         RequestInv, BlobInv, RowInv, Form

\* What does not touch a document keeps its invariants.
LEMMA Framed ==
    ASSUME NEW d \in Documents, DocumentInv(d), Same(d)
    PROVE  DocumentInv(d)'
<1>1. RequestInv(d)'
  BY DEF DocumentInv, Same, RequestInv, Form
<1>2. BlobInv(d)'
  BY DEF DocumentInv, Same, BlobInv
<1>3. RowInv(d)' /\ Explained(d)'
  BY DEF DocumentInv, Same, RowInv, Explained
<1> QED
  BY <1>1, <1>2, <1>3 DEF DocumentInv

LEMMA OneDocument ==
    ASSUME IngestInv, Typed', NEW d \in Documents, DocumentInv(d)',
           \A e \in Documents \ {d} : Same(e)
    PROVE  IngestInv'
<1>1. \A e \in Documents : DocumentInv(e)'
  BY PerDocument, Framed
<1> QED
  BY <1>1, PerDocumentNext

\* Nothing is submitted yet.
LEMMA IngestInit == Init => IngestInv
<1> SUFFICES ASSUME Init PROVE Typed /\ \A d \in Documents : DocumentInv(d)
  BY PerDocument
<1>1. Typed
  BY DEF Init, Typed, Requests, Fetches
<1>2. ASSUME NEW d \in Documents PROVE DocumentInv(d)
  <2>1. /\ req[d].at = "idle" /\ ~req[d].stored /\ req[d].hit = {} /\ answer[d] = 0
        /\ rows[d] = "none" /\ fetch[d].at = "idle"
        /\ d \notin blobs /\ d \notin started /\ d \notin deleted
    BY DEF Init
  <2> QED
    BY <2>1 DEF DocumentInv, RequestInv, BlobInv, RowInv, Explained, Fetching
<1> QED
  BY <1>1, <1>2

\* What a request looks like after it moved on.
Moved(d, step, hits) ==
    /\ req' \in [Documents -> Requests]
    /\ req'[d].at = step /\ req'[d].stored = req[d].stored /\ req'[d].kind = req[d].kind
    /\ req'[d].hit = req[d].hit \cup hits
    /\ \A e \in Documents \ {d} : req'[e] = req[e]

LEMMA RequestTyped ==
    ASSUME Typed, NEW d \in Documents
    PROVE  /\ req[d] \in Requests /\ req[d].tries \in Nat /\ req[d].hit \in SUBSET Faults
           /\ req[d].stored \in BOOLEAN /\ DOMAIN req = Documents
  BY DEF Typed, Requests

LEMMA GotoMoves ==
    ASSUME Typed, NEW d \in Documents, NEW step \in Begun \cup {"over"}, Goto(d, step)
    PROVE  Moved(d, step, {})
<1>1. [req[d] EXCEPT !.at = step, !.tries = 0] \in Requests
  BY RequestTyped DEF Requests
<1> QED
  BY <1>1, RequestTyped DEF Goto, Moved, Typed, Requests

LEMMA HitMoves ==
    ASSUME Typed, NEW d \in Documents, NEW step \in Begun \cup {"over"}, NEW fault \in Faults,
           Hit(d, step, fault)
    PROVE  Moved(d, step, {fault})
<1>1. [req[d] EXCEPT !.at = step, !.tries = 0, !.hit = @ \cup {fault}] \in Requests
  BY RequestTyped DEF Requests
<1> QED
  BY <1>1, RequestTyped DEF Hit, Moved, Typed, Requests

LEMMA CountMoves ==
    ASSUME Typed, NEW d \in Documents, req' = [req EXCEPT ![d].tries = @ + 1]
    PROVE  Moved(d, req[d].at, {})
<1>1. [req[d] EXCEPT !.tries = @ + 1] \in Requests
  BY RequestTyped DEF Requests
<1> QED
  BY <1>1, RequestTyped DEF Moved, Typed, Requests

\* What the clients know after one of them got its answer.
LEMMA Told ==
    ASSUME Typed, NEW d \in Documents, NEW code \in {201, 400, 502}, Respond(d, code)
    PROVE  /\ answer' \in [Documents -> {0, 201, 400, 502}] /\ answer'[d] = code
           /\ \A e \in Documents \ {d} : answer'[e] = answer[e]
  BY DEF Respond, Typed

\* What the table holds after an INSERT.
LEMMA Inserted ==
    ASSUME Typed, NEW d \in Documents, rows' = [rows EXCEPT ![d] = Form(d)]
    PROVE  /\ rows' \in [Documents -> {"none", "text", "inline", "minio"}]
           /\ rows'[d] = Form(d) /\ Form(d) # "none"
           /\ \A e \in Documents \ {d} : rows'[e] = rows[e]
  BY DEF Typed, Form

\* A request begins with nothing stored.
LEMMA SubmitKeeps ==
    ASSUME IngestInv, NEW d \in Documents, Submit(d)
    PROVE  IngestInv'
<1>1. Typed /\ DocumentInv(d)
  BY PerDocument
<1>2. req[d].at = "idle" /\ UNCHANGED <<rows, blobs, started, fetch, deleted>>
  BY DEF Submit
<1>3. ASSUME NEW step \in {"insert", "connect"}, NEW kind \in {"text", "file"},
             req' = [req EXCEPT ![d].at = step, ![d].kind = kind]
      PROVE  /\ req' \in [Documents -> Requests] /\ req'[d].at = step /\ req'[d].kind = kind
             /\ req'[d].stored = req[d].stored /\ req'[d].hit = req[d].hit
             /\ \A e \in Documents \ {d} : req'[e] = req[e]
  <2>1. [req[d] EXCEPT !.at = step, !.kind = kind] \in Requests
    BY <1>1, RequestTyped DEF Requests, Begun
  <2> QED
    BY <1>1, <1>3, <2>1, RequestTyped DEF Typed, Requests
<1>4. \/ /\ Moved(d, "over", {})
         /\ answer' \in [Documents -> {0, 201, 400, 502}] /\ answer'[d] = 400
         /\ \A e \in Documents \ {d} : answer'[e] = answer[e]
      \/ /\ req' \in [Documents -> Requests] /\ req'[d].at \in {"insert", "connect"}
         /\ req'[d].at = "connect" => req'[d].kind = "file"
         /\ req'[d].stored = req[d].stored /\ req'[d].hit = req[d].hit
         /\ \A e \in Documents \ {d} : req'[e] = req[e]
         /\ UNCHANGED answer
  <2>1. CASE Goto(d, "over") /\ Respond(d, 400)
    BY <1>1, <2>1, GotoMoves, Told
  <2>2. CASE req' = [req EXCEPT ![d].at = "insert", ![d].kind = "text"] /\ UNCHANGED answer
    BY <1>3, <2>2
  <2>3. CASE req' = [req EXCEPT ![d].at = "connect", ![d].kind = "file"] /\ UNCHANGED answer
    BY <1>3, <2>3
  <2> QED
    BY <2>1, <2>2, <2>3 DEF Submit
<1>5. Typed'
  BY <1>1, <1>2, <1>4 DEF Typed, Moved
<1>6. \A e \in Documents \ {d} : Same(e)
  BY <1>1, <1>2, <1>4 DEF Same, Moved
<1>7. RequestInv(d)'
  BY <1>1, <1>2, <1>4 DEF DocumentInv, RequestInv, BlobInv, Moved, Form
<1>8. BlobInv(d)'
  BY <1>1, <1>2, <1>4 DEF DocumentInv, RequestInv, BlobInv, Moved, Fetching
<1>9. RowInv(d)'
  BY <1>1, <1>2, <1>4 DEF DocumentInv, RequestInv, RowInv, Moved
<1>10. Explained(d)'
  BY <1>1, <1>2, <1>4 DEF DocumentInv, RequestInv, Explained, Moved
<1> QED
  BY <1>5, <1>6, <1>7, <1>8, <1>9, <1>10, OneDocument DEF DocumentInv

\* MinIO is found, or not, or the content goes into the row.
LEMMA ConnectKeeps ==
    ASSUME IngestInv, NEW d \in Documents, Connect(d)
    PROVE  IngestInv'
<1>1. Typed /\ DocumentInv(d)
  BY PerDocument
<1>2. req[d].at = "connect" /\ UNCHANGED <<answer, rows, blobs, started, fetch, deleted>>
  BY DEF Connect
<1>3. \/ Moved(d, "put", {})
      \/ Moved(d, "connect", {})
      \/ Moved(d, "insert", {})
  BY <1>1, GotoMoves, CountMoves DEF Connect, Begun
<1>4. Typed'
  BY <1>1, <1>2, <1>3 DEF Typed, Moved
<1>5. \A e \in Documents \ {d} : Same(e)
  BY <1>1, <1>2, <1>3 DEF Same, Moved
<1>6. RequestInv(d)'
  BY <1>1, <1>2, <1>3 DEF DocumentInv, RequestInv, BlobInv, Moved, Form, Begun
<1>7. BlobInv(d)'
  BY <1>1, <1>2, <1>3 DEF DocumentInv, RequestInv, BlobInv, RowInv, Moved, Form, Fetching
<1>8. RowInv(d)'
  BY <1>1, <1>2, <1>3 DEF DocumentInv, RequestInv, BlobInv, RowInv, Moved, Form
<1>9. Explained(d)'
  BY <1>1, <1>2, <1>3 DEF DocumentInv, RequestInv, BlobInv, RowInv, Explained, Moved, Form, Begun
<1> QED
  BY <1>4, <1>5, <1>6, <1>7, <1>8, <1>9, OneDocument DEF DocumentInv

\* The blob is there if the handler believes so.
LEMMA PutBlobKeeps ==
    ASSUME IngestInv, NEW d \in Documents, PutBlob(d)
    PROVE  IngestInv'
<1>1. Typed /\ DocumentInv(d)
  BY PerDocument
<1>2. req[d].at = "put" /\ UNCHANGED <<answer, rows, started, fetch, deleted>>
  BY DEF PutBlob
<1>3. \/ /\ blobs' = blobs \cup {d} /\ req'[d].stored /\ req'[d].at = "insert"
         /\ req' \in [Documents -> Requests] /\ req'[d].hit = req[d].hit
         /\ req'[d].kind = req[d].kind
         /\ \A e \in Documents \ {d} : req'[e] = req[e]
      \/ UNCHANGED blobs /\ Moved(d, "insert", {})
      \/ blobs' = blobs \cup {d} /\ Moved(d, "insert", {"put"})
  <2>1. CASE req' = [req EXCEPT ![d].at = "insert", ![d].stored = TRUE]
    <3>1. [req[d] EXCEPT !.at = "insert", !.stored = TRUE] \in Requests
      BY <1>1, RequestTyped DEF Requests, Begun
    <3>2. /\ req'[d].stored /\ req'[d].at = "insert" /\ req'[d].hit = req[d].hit
          /\ req' \in [Documents -> Requests] /\ req'[d].kind = req[d].kind
          /\ \A e \in Documents \ {d} : req'[e] = req[e]
      BY <1>1, <2>1, <3>1, RequestTyped DEF Typed, Requests
    <3>3. blobs' = blobs \cup {d} \/ Goto(d, "insert") \/ Hit(d, "insert", "put")
      BY DEF PutBlob
    <3> QED
      BY <1>1, <3>2, GotoMoves, HitMoves DEF PutBlob, Begun, Faults
  <2>2. CASE ~(req' = [req EXCEPT ![d].at = "insert", ![d].stored = TRUE])
    BY <1>1, <2>2, GotoMoves, HitMoves DEF PutBlob, Begun, Faults
  <2> QED
    BY <2>1, <2>2
<1>4. Typed'
  BY <1>1, <1>2, <1>3 DEF Typed, Moved
<1>5. \A e \in Documents \ {d} : Same(e)
  BY <1>1, <1>2, <1>3 DEF Same, Moved
<1>6. RequestInv(d)'
  BY <1>1, <1>2, <1>3 DEF DocumentInv, RequestInv, BlobInv, Moved, Form, Begun
<1>7. BlobInv(d)'
  BY <1>1, <1>2, <1>3 DEF DocumentInv, RequestInv, BlobInv, RowInv, Moved, Form, Fetching
<1>8. RowInv(d)'
  BY <1>1, <1>2, <1>3 DEF DocumentInv, RequestInv, BlobInv, RowInv, Moved, Form
<1>9. Explained(d)'
  BY <1>1, <1>2, <1>3 DEF DocumentInv, RequestInv, BlobInv, RowInv, Explained, Moved, Form, Begun
<1> QED
  BY <1>4, <1>5, <1>6, <1>7, <1>8, <1>9, OneDocument DEF DocumentInv

\* A row that names a blob is written only while the blob is there.
LEMMA InsertRowKeeps ==
    ASSUME IngestInv, NEW d \in Documents, InsertRow(d)
    PROVE  IngestInv'
<1>1. Typed /\ DocumentInv(d)
  BY PerDocument
<1>2. req[d].at = "insert" /\ UNCHANGED <<blobs, started, fetch, deleted>>
  BY DEF InsertRow
<1>3. \/ /\ Moved(d, "start", {}) /\ UNCHANGED answer
         /\ rows' \in [Documents -> {"none", "text", "inline", "minio"}]
         /\ rows'[d] = Form(d) /\ Form(d) # "none" /\ \A e \in Documents \ {d} : rows'[e] = rows[e]
      \/ /\ \/ UNCHANGED rows /\ Moved(d, IF req[d].stored THEN "reconnect" ELSE "over", {})
            \/ /\ Moved(d, IF req[d].stored THEN "reconnect" ELSE "over", {"insert"})
               /\ rows' \in [Documents -> {"none", "text", "inline", "minio"}]
               /\ rows'[d] = Form(d) /\ \A e \in Documents \ {d} : rows'[e] = rows[e]
         /\ IF req[d].stored THEN UNCHANGED answer
            ELSE /\ answer' \in [Documents -> {0, 201, 400, 502}] /\ answer'[d] = 502
                 /\ \A e \in Documents \ {d} : answer'[e] = answer[e]
  BY <1>1, GotoMoves, HitMoves, Told, Inserted DEF InsertRow, Begun, Faults
<1>4. Typed'
  BY <1>1, <1>2, <1>3 DEF Typed, Moved
<1>5. \A e \in Documents \ {d} : Same(e)
  BY <1>1, <1>2, <1>3 DEF Same, Moved
<1>6. RequestInv(d)'
  BY <1>1, <1>2, <1>3 DEF DocumentInv, RequestInv, BlobInv, Moved, Form, Begun
<1>7. BlobInv(d)'
  BY <1>1, <1>2, <1>3 DEF DocumentInv, RequestInv, BlobInv, RowInv, Moved, Form, Fetching
<1>8. RowInv(d)'
  BY <1>1, <1>2, <1>3 DEF DocumentInv, RequestInv, BlobInv, RowInv, Moved, Form
<1>9. Explained(d)'
  BY <1>1, <1>2, <1>3 DEF DocumentInv, RequestInv, BlobInv, RowInv, Explained, Moved, Form, Begun
<1> QED
  BY <1>4, <1>5, <1>6, <1>7, <1>8, <1>9, OneDocument DEF DocumentInv

\* A clean-up that is given up is the reason of the blob it leaves.
LEMMA ReconnectKeeps ==
    ASSUME IngestInv, NEW d \in Documents, Reconnect(d)
    PROVE  IngestInv'
<1>1. Typed /\ DocumentInv(d)
  BY PerDocument
<1>2. req[d].at = "reconnect" /\ UNCHANGED <<rows, blobs, started, fetch, deleted>>
  BY DEF Reconnect
<1>3. \/ Moved(d, "clean", {}) /\ UNCHANGED answer
      \/ Moved(d, "reconnect", {}) /\ UNCHANGED answer
      \/ /\ Moved(d, "over", {"cleanup"})
         /\ answer' \in [Documents -> {0, 201, 400, 502}] /\ answer'[d] = 502
         /\ \A e \in Documents \ {d} : answer'[e] = answer[e]
  BY <1>1, GotoMoves, CountMoves, HitMoves, Told DEF Reconnect, Begun, Faults
<1>4. Typed'
  BY <1>1, <1>2, <1>3 DEF Typed, Moved
<1>5. \A e \in Documents \ {d} : Same(e)
  BY <1>1, <1>2, <1>3 DEF Same, Moved
<1>6. RequestInv(d)'
  BY <1>1, <1>2, <1>3 DEF DocumentInv, RequestInv, BlobInv, Moved, Form, Begun
<1>7. BlobInv(d)'
  BY <1>1, <1>2, <1>3 DEF DocumentInv, RequestInv, BlobInv, RowInv, Moved, Form, Fetching
<1>8. RowInv(d)'
  BY <1>1, <1>2, <1>3 DEF DocumentInv, RequestInv, BlobInv, RowInv, Moved, Form
<1>9. Explained(d)'
  BY <1>1, <1>2, <1>3 DEF DocumentInv, RequestInv, BlobInv, RowInv, Explained, Moved, Form, Begun
<1> QED
  BY <1>4, <1>5, <1>6, <1>7, <1>8, <1>9, OneDocument DEF DocumentInv

\* The blob that is removed belongs to a request that is refused.
LEMMA RemoveBlobKeeps ==
    ASSUME IngestInv, NEW d \in Documents, RemoveBlob(d)
    PROVE  IngestInv'
<1>1. Typed /\ DocumentInv(d)
  BY PerDocument
<1>2. req[d].at = "clean" /\ UNCHANGED <<rows, started, fetch, deleted>>
  BY DEF RemoveBlob
<1>3. \/ /\ blobs' = blobs \ {d} /\ Moved(d, "over", {})
         /\ answer' \in [Documents -> {0, 201, 400, 502}] /\ answer'[d] = 502
         /\ \A e \in Documents \ {d} : answer'[e] = answer[e]
      \/ /\ UNCHANGED blobs /\ Moved(d, "over", {"cleanup"})
         /\ answer' \in [Documents -> {0, 201, 400, 502}] /\ answer'[d] = 502
         /\ \A e \in Documents \ {d} : answer'[e] = answer[e]
  BY <1>1, GotoMoves, HitMoves, Told DEF RemoveBlob, Faults
<1>4. Typed'
  BY <1>1, <1>2, <1>3 DEF Typed, Moved
<1>5. \A e \in Documents \ {d} : Same(e)
  BY <1>1, <1>2, <1>3 DEF Same, Moved
<1>6. RequestInv(d)'
  BY <1>1, <1>2, <1>3 DEF DocumentInv, RequestInv, BlobInv, Moved, Form, Begun
<1>7. BlobInv(d)'
  BY <1>1, <1>2, <1>3 DEF DocumentInv, RequestInv, BlobInv, RowInv, Moved, Form, Fetching
<1>8. RowInv(d)'
  BY <1>1, <1>2, <1>3 DEF DocumentInv, RequestInv, BlobInv, RowInv, Moved, Form
<1>9. Explained(d)'
  BY <1>1, <1>2, <1>3 DEF DocumentInv, RequestInv, BlobInv, RowInv, Explained, Moved, Form, Begun
<1> QED
  BY <1>4, <1>5, <1>6, <1>7, <1>8, <1>9, OneDocument DEF DocumentInv

\* A request that comes this far leaves a row with its content.
LEMMA StartWorkflowKeeps ==
    ASSUME IngestInv, NEW d \in Documents, StartWorkflow(d)
    PROVE  IngestInv'
<1>1. Typed /\ DocumentInv(d)
  BY PerDocument
<1>2. req[d].at = "start" /\ UNCHANGED <<rows, blobs, fetch, deleted>>
  BY DEF StartWorkflow
<1>3. /\ \/ Moved(d, "over", {}) /\ started' = started \cup {d}
         \/ Moved(d, "over", {"start"}) /\ started' \in {started, started \cup {d}}
      /\ answer' \in [Documents -> {0, 201, 400, 502}] /\ answer'[d] = 201
      /\ \A e \in Documents \ {d} : answer'[e] = answer[e]
  BY <1>1, GotoMoves, HitMoves, Told DEF StartWorkflow, Faults
<1>4. Typed'
  BY <1>1, <1>2, <1>3 DEF Typed, Moved
<1>5. \A e \in Documents \ {d} : Same(e)
  BY <1>1, <1>2, <1>3 DEF Same, Moved
<1>6. RequestInv(d)'
  BY <1>1, <1>2, <1>3 DEF DocumentInv, RequestInv, BlobInv, Moved, Form, Begun
<1>7. BlobInv(d)'
  BY <1>1, <1>2, <1>3 DEF DocumentInv, RequestInv, BlobInv, RowInv, Moved, Form, Fetching
<1>8. RowInv(d)'
  BY <1>1, <1>2, <1>3 DEF DocumentInv, RequestInv, BlobInv, RowInv, Moved, Form
<1>9. Explained(d)'
  BY <1>1, <1>2, <1>3 DEF DocumentInv, RequestInv, BlobInv, RowInv, Explained, Moved, Form, Begun
<1> QED
  BY <1>4, <1>5, <1>6, <1>7, <1>8, <1>9, OneDocument DEF DocumentInv

\* How far extract_text is after a step.
Reached(d, steps) ==
    /\ fetch' \in [Documents -> Fetches] /\ fetch'[d].at \in steps
    /\ \A e \in Documents \ {d} : fetch'[e] = fetch[e]

LEMMA ReachReaches ==
    ASSUME Typed, NEW d \in Documents,
           NEW step \in Fetching \cup {"idle", "gone", "text", "failed", "missing"}, Reach(d, step)
    PROVE  Reached(d, {step})
<1>1. [at |-> step, tries |-> 0] \in Fetches
  BY DEF Fetches
<1> QED
  BY <1>1 DEF Reach, Reached, Typed

\* A step of the worker on a blob that is there, if it is needed.
LEMMA WorkerKeeps ==
    ASSUME IngestInv, NEW d \in Documents,
           req[d].at # "over" => fetch'[d].at = "idle",
           Reached(d, Fetching \cup {"idle", "gone", "text", "failed"}),
           fetch'[d].at \in Fetching => d \in blobs,
           UNCHANGED <<req, answer, rows, blobs, started, deleted>>
    PROVE  IngestInv'
<1>1. Typed /\ DocumentInv(d)
  BY PerDocument
<1>2. Typed' /\ \A e \in Documents \ {d} : Same(e)
  BY <1>1 DEF Typed, Same, Reached
<1>3. RequestInv(d)' /\ RowInv(d)'
  BY <1>1 DEF DocumentInv, RequestInv, RowInv, Form
<1>4. BlobInv(d)'
  BY <1>1 DEF DocumentInv, BlobInv
<1>5. Explained(d)'
  BY <1>1 DEF DocumentInv, Explained, Reached, Fetching
<1> QED
  BY <1>2, <1>3, <1>4, <1>5, OneDocument DEF DocumentInv

\* Work starts on a row whose blob is there.
LEMMA ReadRowKeeps ==
    ASSUME IngestInv, NEW d \in Documents, ReadRow(d)
    PROVE  IngestInv'
<1>1. Typed /\ DocumentInv(d)
  BY PerDocument
<1>2. d \in started /\ UNCHANGED <<req, answer, rows, blobs, started, deleted>>
  BY DEF ReadRow
<1>3. req[d].at = "over"
  BY <1>1, <1>2 DEF DocumentInv, RequestInv
<1>4. Reached(d, {"gone", "text", "failed"}) \/ (rows[d] = "minio" /\ Reached(d, {"connect"}))
  BY <1>1, ReachReaches DEF ReadRow, Reached, Fetching
<1>5. rows[d] = "minio" => d \in blobs
  BY <1>1, <1>2 DEF DocumentInv, BlobInv
<1> QED
  BY <1>2, <1>3, <1>4, <1>5, WorkerKeeps DEF Reached, Fetching

\* The blob stays while the worker tries to reach MinIO.
LEMMA FetchConnectKeeps ==
    ASSUME IngestInv, NEW d \in Documents, FetchConnect(d)
    PROVE  IngestInv'
<1>1. Typed /\ DocumentInv(d)
  BY PerDocument
<1>2. fetch[d].at = "connect" /\ UNCHANGED <<req, answer, rows, blobs, started, deleted>>
  BY DEF FetchConnect
<1>3. req[d].at = "over" /\ d \in blobs
  BY <1>1, <1>2 DEF DocumentInv, RequestInv, BlobInv, Fetching
<1>4. CASE fetch' = [fetch EXCEPT ![d].tries = @ + 1]
  <2>1. [fetch[d] EXCEPT !.tries = @ + 1] \in Fetches /\ fetch[d] \in Fetches
    BY <1>1 DEF Typed, Fetches
  <2>2. Reached(d, {"connect"})
    BY <1>1, <1>2, <1>4, <2>1 DEF Reached, Typed, Fetches
  <2> QED
    BY <1>2, <1>3, <2>2, WorkerKeeps DEF Reached, Fetching
<1>5. CASE Reach(d, "get") \/ Reach(d, "failed")
  <2>1. Reached(d, {"get"}) \/ Reached(d, {"failed"})
    BY <1>1, <1>5, ReachReaches DEF Fetching
  <2> QED
    BY <1>2, <1>3, <2>1, WorkerKeeps DEF Reached, Fetching
<1> QED
  BY <1>4, <1>5 DEF FetchConnect

\* The blob is found.
LEMMA GetBlobKeeps ==
    ASSUME IngestInv, NEW d \in Documents, GetBlob(d)
    PROVE  IngestInv'
<1>1. Typed /\ DocumentInv(d)
  BY PerDocument
<1>2. fetch[d].at = "get" /\ UNCHANGED <<req, answer, rows, blobs, started, deleted>>
  BY DEF GetBlob
<1>3. req[d].at = "over" /\ d \in blobs
  BY <1>1, <1>2 DEF DocumentInv, RequestInv, BlobInv, Fetching
<1>4. Reached(d, {"text"}) \/ Reached(d, {"failed"})
  BY <1>1, <1>3, ReachReaches DEF GetBlob
<1> QED
  BY <1>2, <1>3, <1>4, WorkerKeeps DEF Reached, Fetching

\* The attempt is repeated from its start.
LEMMA FetchAgainKeeps ==
    ASSUME IngestInv, NEW d \in Documents, FetchAgain(d)
    PROVE  IngestInv'
<1>1. Typed /\ UNCHANGED <<req, answer, rows, blobs, started, deleted>>
  BY PerDocument DEF FetchAgain
<1>2. Reached(d, {"idle"})
  BY <1>1, ReachReaches DEF FetchAgain
<1> QED
  BY <1>1, <1>2, WorkerKeeps DEF Reached, Fetching

\* The row is gone, the blob stays.
LEMMA DeleteDocumentKeeps ==
    ASSUME IngestInv, NEW d \in Documents, DeleteDocument(d)
    PROVE  IngestInv'
<1>1. Typed /\ DocumentInv(d)
  BY PerDocument
<1>2. /\ rows[d] # "none" /\ UNCHANGED <<req, answer, blobs, fetch>>
      /\ rows' = [rows EXCEPT ![d] = "none"]
      /\ deleted' = deleted \cup {d} /\ started' \in {started, started \ {d}}
  BY DEF DeleteDocument
<1>3. /\ rows' \in [Documents -> {"none", "text", "inline", "minio"}] /\ rows'[d] = "none"
      /\ \A e \in Documents \ {d} : rows'[e] = rows[e]
  BY <1>1, <1>2 DEF Typed
<1>4. Typed' /\ \A e \in Documents \ {d} : Same(e)
  BY <1>1, <1>2, <1>3 DEF Typed, Same
<1>5. DocumentInv(d)'
  BY <1>1, <1>2, <1>3 DEF DocumentInv, RequestInv, BlobInv, RowInv, Explained
<1> QED
  BY <1>4, <1>5, OneDocument

\* Requests that die leave what they stored, and the crash is the reason.
LEMMA CrashKeeps ==
    ASSUME IngestInv, Crash
    PROVE  IngestInv'
<1>1. Typed /\ \A d \in Documents : DocumentInv(d)
  BY PerDocument
<1>2. PICK arrived \in SUBSET {d \in Documents : temporal /\ req[d].at = "start"} :
          started' = started \cup arrived
  BY DEF Crash
<1>3. UNCHANGED <<answer, rows, fetch, deleted>>
  BY DEF Crash
<1>4. PICK gone \in SUBSET {d \in Documents : req[d].at = "clean"} : blobs' = blobs \ gone
  BY DEF Crash
<1>5. ASSUME NEW d \in Documents
      PROVE  /\ req'[d] \in Requests
             /\ req[d].at \notin Begun => req'[d] = req[d]
             /\ req[d].at \in Begun =>
                   /\ req'[d].at = "over" /\ req'[d].stored = req[d].stored /\ req'[d].kind = req[d].kind
                   /\ req'[d].hit = req[d].hit \cup {"crash"}
  <2>1. req[d] \in Requests
    BY <1>1 DEF Typed
  <2>2. req'[d] = IF req[d].at \in Begun
                  THEN [req[d] EXCEPT !.at = "over", !.tries = 0, !.hit = @ \cup {"crash"}]
                  ELSE req[d]
    BY DEF Crash
  <2>3. [req[d] EXCEPT !.at = "over", !.tries = 0, !.hit = @ \cup {"crash"}] \in Requests
    BY <2>1 DEF Requests, Faults
  <2> QED
    BY <2>1, <2>2, <2>3 DEF Requests
<1>6. DOMAIN req' = Documents /\ req' = [d \in Documents |-> req'[d]]
  BY DEF Crash
<1>7. Typed'
  BY <1>1, <1>3, <1>5, <1>6 DEF Typed
<1>8. ASSUME NEW d \in Documents PROVE DocumentInv(d)'
  <2>1. DocumentInv(d) /\ req[d] \in Requests
    BY <1>1 DEF Typed
  <2>2. CASE req[d].at \notin Begun
    <3>1. Same(d)
      BY <1>2, <1>3, <1>5, <1>4, <2>2 DEF Same, Begun
    <3> QED
      BY <2>1, <3>1, Framed
  <2>3. CASE req[d].at \in Begun
    <3>1. /\ req'[d].at = "over" /\ req'[d].stored = req[d].stored /\ req'[d].kind = req[d].kind
          /\ req'[d].hit = req[d].hit \cup {"crash"}
      BY <1>5, <2>3
    <3>2. answer[d] = 0 /\ d \notin started /\ fetch[d].at = "idle"
      BY <2>1, <2>3 DEF DocumentInv, RequestInv, Begun
    <3>3. /\ d \in started' => req[d].at = "start"
          /\ d \in blobs' => d \in blobs
          /\ d \in blobs /\ d \notin blobs' => req[d].at = "clean"
      BY <1>2, <1>4, <3>2
    <3>4. RequestInv(d)' /\ RowInv(d)'
      BY <1>3, <2>1, <3>1, <3>2, <3>3 DEF RequestInv, RowInv, DocumentInv, Form
    <3>5. BlobInv(d)'
      BY <1>3, <2>1, <2>3, <3>1, <3>2, <3>3 DEF BlobInv, DocumentInv, Begun, Fetching
    <3>6. Explained(d)'
      BY <1>3, <2>1, <3>1, <3>2 DEF Explained, DocumentInv
    <3> QED
      BY <3>4, <3>5, <3>6 DEF DocumentInv
  <2> QED
    BY <2>2, <2>3
<1> QED
  BY <1>7, <1>8, PerDocumentNext

\* Every step keeps the invariant.
LEMMA IngestStep == IngestInv /\ [Next]_vars => IngestInv'
<1> SUFFICES ASSUME IngestInv, [Next]_vars PROVE IngestInv'
  OBVIOUS
<1>1. CASE UNCHANGED vars
  <2>1. Typed /\ \A d \in Documents : DocumentInv(d)
    BY PerDocument
  <2>2. Typed' /\ \A d \in Documents : Same(d)
    BY <1>1, <2>1 DEF vars, Typed, Same
  <2> QED
    BY <2>1, <2>2, Framed, PerDocumentNext
<1>2. CASE Next
  BY <1>2, SubmitKeeps, ConnectKeeps, PutBlobKeeps, InsertRowKeeps, ReconnectKeeps,
     RemoveBlobKeeps, StartWorkflowKeeps, ReadRowKeeps, FetchConnectKeeps, GetBlobKeeps,
     FetchAgainKeeps, DeleteDocumentKeeps, CrashKeeps DEF Next, Handle
<1> QED
  BY <1>1, <1>2

THEOREM IngestSafe == Spec => []IngestInv
<1> QED
  BY IngestInit, IngestStep, PTL DEF Spec

\* documents.py:221: a document that was created stays readable until it is deleted.
THEOREM AcceptedIsReadableTheorem == Spec => []AcceptedIsReadable
<1>1. IngestInv => AcceptedIsReadable
  BY DEF IngestInv, AcceptedIsReadable, BlobInv, RowInv
<1> QED
  BY <1>1, IngestSafe, PTL

\* documents.py:332-347: the clean-up takes no blob away that somebody looks for.
THEOREM NeverMissingTheorem == Spec => []NeverMissing
<1>1. IngestInv => NeverMissing
  BY DEF IngestInv
<1> QED
  BY <1>1, IngestSafe, PTL

\* documents.py:332-347: a blob is left behind only where a call failed or the API died.
THEOREM OrphansExplainedTheorem == Spec => []OrphansExplained
<1>1. IngestInv => OrphansExplained
  BY DEF IngestInv
<1> QED
  BY <1>1, IngestSafe, PTL

\* documents.py:109-134, lifespan.py:38-53: a document is left pending only where
\* Temporal was not reached, the API died, or the INSERT raised after its commit.
THEOREM PendingExplainedTheorem == Spec => []PendingExplained
<1>1. IngestInv => PendingExplained
  BY DEF IngestInv
<1> QED
  BY <1>1, IngestSafe, PTL

\* documents.py:332-351: a client that is refused has stored nothing, unless the
\* INSERT raised after its commit.
THEOREM RejectedExplainedTheorem == Spec => []RejectedExplained
<1>1. IngestInv => RejectedExplained
  BY DEF IngestInv
<1> QED
  BY <1>1, IngestSafe, PTL

\* storage.py:60-113, 116-156: no request and no fetch makes an attempt too many.
LEMMA TypesStep ==
    ASSUME TypeOK, [Next]_vars, Typed'
    PROVE  TypeOK'
<1>1. /\ \A d \in Documents : req[d].tries < MaxRetries /\ fetch[d].tries < MaxRetries
      /\ blobs \subseteq Documents /\ started \subseteq Documents /\ deleted \subseteq Documents
      /\ req \in [Documents -> Requests] /\ fetch \in [Documents -> Fetches]
      /\ temporal \in BOOLEAN /\ MaxRetries \in Nat \ {0}
  BY RetriesAssumption DEF TypeOK, Typed
<1> DEFINE Sets == /\ blobs' \subseteq Documents /\ started' \subseteq Documents
                   /\ deleted' \subseteq Documents /\ temporal' \in BOOLEAN
<1>2. Sets
  BY <1>1 DEF Next, vars, Submit, Handle, Connect, PutBlob, InsertRow, Reconnect, RemoveBlob,
              StartWorkflow, ReadRow, FetchConnect, GetBlob, FetchAgain, DeleteDocument, Crash
<1> DEFINE Few == \A e \in Documents : req'[e].tries < MaxRetries /\ fetch'[e].tries < MaxRetries
<1>3. ASSUME NEW d \in Documents, Submit(d) PROVE Few
  <2>1. UNCHANGED fetch
    BY <1>3 DEF Submit
  <2>2. CASE Goto(d, "over")
    BY <1>1, <2>1, <2>2 DEF Goto
  <2>3. CASE \E kind \in {"text", "file"}, step \in {"insert", "connect"} :
                req' = [req EXCEPT ![d].at = step, ![d].kind = kind]
    <3>1. req'[d].tries = req[d].tries
      BY <1>1, <2>3 DEF Requests
    <3>2. \A e \in Documents \ {d} : req'[e] = req[e]
      BY <1>1, <2>3
    <3> QED
      BY <1>1, <2>1, <3>1, <3>2
  <2> QED
    BY <1>3, <2>2, <2>3 DEF Submit
<1>4. ASSUME NEW d \in Documents, Connect(d) PROVE Few
  BY <1>1, <1>4 DEF Connect, Goto, Hit, Requests
<1>5. ASSUME NEW d \in Documents, PutBlob(d) PROVE Few
  BY <1>1, <1>5 DEF PutBlob, Goto, Hit, Requests
<1>6. ASSUME NEW d \in Documents, InsertRow(d) PROVE Few
  BY <1>1, <1>6 DEF InsertRow, Goto, Hit, Requests
<1>7. ASSUME NEW d \in Documents, Reconnect(d) PROVE Few
  BY <1>1, <1>7 DEF Reconnect, Goto, Hit, Requests
<1>8. ASSUME NEW d \in Documents, RemoveBlob(d) PROVE Few
  BY <1>1, <1>8 DEF RemoveBlob, Goto, Hit, Requests
<1>9. ASSUME NEW d \in Documents, StartWorkflow(d) PROVE Few
  BY <1>1, <1>9 DEF StartWorkflow, Goto, Hit, Requests
<1>10. ASSUME NEW d \in Documents, ReadRow(d) PROVE Few
  BY <1>1, <1>10 DEF ReadRow, Reach, Fetches
<1>11. ASSUME NEW d \in Documents, FetchConnect(d) PROVE Few
  BY <1>1, <1>11 DEF FetchConnect, Reach, Fetches
<1>12. ASSUME NEW d \in Documents, GetBlob(d) PROVE Few
  BY <1>1, <1>12 DEF GetBlob, Reach, Fetches
<1>13. ASSUME NEW d \in Documents, FetchAgain(d) PROVE Few
  BY <1>1, <1>13 DEF FetchAgain, Reach, Fetches
<1>14. ASSUME NEW d \in Documents, DeleteDocument(d) PROVE Few
  BY <1>1, <1>14 DEF DeleteDocument, Reach, Fetches
<1>15. ASSUME Crash PROVE Few
  <2>1. UNCHANGED fetch
    BY <1>15 DEF Crash
  <2>2. ASSUME NEW e \in Documents PROVE req'[e].tries \in {0, req[e].tries}
    <3>1. req[e] \in Requests
      BY <1>1
    <3>2. CASE req[e].at \in Begun
      BY <1>15, <3>1, <3>2 DEF Crash, Requests
    <3>3. CASE req[e].at \notin Begun
      BY <1>15, <3>3 DEF Crash
    <3> QED
      BY <3>2, <3>3
  <2> QED
    BY <1>1, <2>1, <2>2
<1>16. ASSUME UNCHANGED vars PROVE Few
  BY <1>1, <1>16 DEF vars
<1>17. Few
  BY <1>3, <1>4, <1>5, <1>6, <1>7, <1>8, <1>9, <1>10, <1>11,
     <1>12, <1>13, <1>14, <1>15, <1>16 DEF Next, Handle
<1> QED
  BY <1>2, <1>17 DEF TypeOK

THEOREM TypesTheorem == Spec => []TypeOK
<1>1. Init => TypeOK
  BY IngestInit, RetriesAssumption DEF Init, TypeOK, IngestInv
<1>2. IngestInv' => Typed'
  BY DEF IngestInv
<1>3. IngestInv /\ TypeOK /\ [Next]_vars => IngestInv' /\ TypeOK'
  BY <1>2, IngestStep, TypesStep
<1> QED
  BY <1>1, <1>3, IngestInit, PTL DEF Spec
-----------------------------------------------------------------------------
(* The promise of Submission.tla.                                          *)

Places == [d \in Documents |-> Place(d)]
Outcomes == [d \in Documents |-> Outcome(d)]
AllWork == \A d \in Documents : WorkInv(d)

\* A step that the promise does not see.
Unseen == UNCHANGED <<Places, answer, Outcomes>>

\* Nobody works on anything yet.
LEMMA WorkInit == Init => AllWork
<1> SUFFICES ASSUME Init, NEW d \in Documents PROVE WorkInv(d)
  BY DEF AllWork
<1>1. d \notin started /\ fetch[d].at = "idle" /\ d \notin deleted
  BY DEF Init
<1> QED
  BY <1>1 DEF WorkInv

\* A request works on a document that no worker knows of.
LEMMA HandlersKeepWork ==
    ASSUME IngestInv, AllWork, NEW d \in Documents, Submit(d) \/ Handle(d)
    PROVE  AllWork'
<1>1. Typed /\ DocumentInv(d) /\ WorkInv(d)
  BY PerDocument DEF AllWork
<1>2. /\ UNCHANGED <<fetch, deleted>>
      /\ fetch[d].at = "idle" /\ d \notin started /\ answer[d] = 0
  BY <1>1 DEF Submit, Handle, Connect, PutBlob, InsertRow, Reconnect, RemoveBlob, StartWorkflow,
              DocumentInv, RequestInv
<1>3. \A e \in Documents \ {d} : WorkInv(e)'
  <2>1. \A e \in Documents \ {d} : rows'[e] = rows[e] /\ answer'[e] = answer[e]
    BY <1>1 DEF Typed, Submit, Handle, Connect, PutBlob, InsertRow, Reconnect, RemoveBlob,
                StartWorkflow, Respond
  <2>2. \A e \in Documents \ {d} : e \in started' <=> e \in started
    BY DEF Submit, Handle, Connect, PutBlob, InsertRow, Reconnect, RemoveBlob, StartWorkflow
  <2> QED
    BY <1>2, <2>1, <2>2 DEF AllWork, WorkInv, Place
<1>4. CASE StartWorkflow(d)
  <2>1. /\ req[d].at = "start" /\ UNCHANGED rows /\ answer' = [answer EXCEPT ![d] = 201]
    BY <1>4 DEF StartWorkflow, Respond
  <2>2. rows[d] # "none" \/ d \in deleted
    BY <1>1, <2>1 DEF DocumentInv, RequestInv, Form
  <2> QED
    BY <1>1, <1>2, <1>3, <2>1, <2>2 DEF AllWork, WorkInv, Place, Typed
<1>5. CASE ~StartWorkflow(d)
  <2>1. d \notin started'
    BY <1>2, <1>5 DEF Submit, Handle, Connect, PutBlob, InsertRow, Reconnect, RemoveBlob
  <2>2. d \in deleted => rows'[d] = "none"
    BY <1>1, <1>5 DEF Submit, Handle, Connect, PutBlob, InsertRow, Reconnect, RemoveBlob,
                      DocumentInv, RequestInv, WorkInv
  <2> QED
    BY <1>2, <1>3, <2>1, <2>2 DEF AllWork, WorkInv
<1> QED
  BY <1>4, <1>5

\* The worker and delete_document work on documents that were stored.
LEMMA OthersKeepWork ==
    ASSUME IngestInv, AllWork, NEW d \in Documents,
           ReadRow(d) \/ FetchConnect(d) \/ GetBlob(d) \/ FetchAgain(d) \/ DeleteDocument(d)
    PROVE  AllWork'
<1>1. Typed /\ DocumentInv(d) /\ WorkInv(d)
  BY PerDocument DEF AllWork
<1>2. UNCHANGED answer
  BY DEF ReadRow, FetchConnect, GetBlob, FetchAgain, DeleteDocument
<1>3. CASE DeleteDocument(d)
  <2>1. /\ rows' = [rows EXCEPT ![d] = "none"] /\ deleted' = deleted \cup {d}
        /\ started' \subseteq started /\ UNCHANGED fetch
    BY <1>3 DEF DeleteDocument
  <2> QED
    BY <1>1, <1>2, <2>1 DEF AllWork, WorkInv, Place, Typed
<1>4. CASE ~DeleteDocument(d)
  <2>1. /\ UNCHANGED <<rows, deleted, started>>
        /\ d \in started \/ fetch[d].at # "idle"
        /\ \A e \in Documents \ {d} : fetch'[e] = fetch[e]
    BY <1>1, <1>4 DEF ReadRow, FetchConnect, GetBlob, FetchAgain, Reach, Typed, Fetching
  <2> QED
    BY <1>1, <1>2, <2>1 DEF AllWork, WorkInv, Place
<1> QED
  BY <1>3, <1>4

\* A crash may have started the execution of a document that is stored.
LEMMA CrashKeepsWork ==
    ASSUME IngestInv, AllWork, Crash
    PROVE  AllWork'
<1>1. PICK arrived \in SUBSET {d \in Documents : temporal /\ req[d].at = "start"} :
          started' = started \cup arrived
  BY DEF Crash
<1>2. UNCHANGED <<answer, rows, fetch, deleted>>
  BY DEF Crash
<1>3. ASSUME NEW d \in arrived
      PROVE  answer[d] = 0 /\ (rows[d] # "none" \/ d \in deleted)
  <2>1. d \in Documents /\ req[d].at = "start"
    OBVIOUS
  <2> QED
    BY <2>1, PerDocument DEF DocumentInv, RequestInv, Form
<1> QED
  BY <1>1, <1>2, <1>3 DEF AllWork, WorkInv, Place

\* Every step keeps it.
LEMMA WorkStep == IngestInv /\ AllWork /\ [Next]_vars => AllWork'
<1>1. UNCHANGED vars /\ AllWork => AllWork'
  BY DEF vars, AllWork, WorkInv, Place
<1> QED
  BY <1>1, HandlersKeepWork, OthersKeepWork, CrashKeepsWork DEF Next

\* A step of one document is seen only there.
LEMMA PlacesNext ==
    ASSUME Typed, NEW d \in Documents,
           \A e \in Documents \ {d} : rows'[e] = rows[e] /\ (e \in deleted' <=> e \in deleted)
    PROVE  Places' = [Places EXCEPT ![d] = Place(d)']
<1>1. \A e \in Documents \ {d} : Place(e)' = Place(e)
  BY DEF Place
<1> QED
  BY <1>1 DEF Places

LEMMA OutcomesNext ==
    ASSUME Typed, NEW d \in Documents, \A e \in Documents \ {d} : fetch'[e] = fetch[e]
    PROVE  Outcomes' = [Outcomes EXCEPT ![d] = Outcome(d)']
<1>1. \A e \in Documents \ {d} : Outcome(e)' = Outcome(e)
  BY DEF Outcome
<1> QED
  BY <1>1 DEF Outcomes

\* What the promise says of the documents, in the terms of the system.
LEMMA PromiseFacts ==
    ASSUME NEW d \in Documents
    PROVE  Places[d] = Place(d) /\ Outcomes[d] = Outcome(d)
BY DEF Places, Outcomes

\* The tables that the promise is read off determine it.
LEMMA UnseenSteps ==
    /\ UNCHANGED <<rows, deleted>> => UNCHANGED Places
    /\ UNCHANGED fetch => UNCHANGED Outcomes
BY DEF Places, Place, Outcomes, Outcome

\* A step of the promise, or a stutter.
PromiseStep == Promise!Next \/ Unseen

\* Nobody is refused after the worker found something.
LEMMA RefuseStep ==
    ASSUME IngestInv, NEW d \in Documents, UNCHANGED <<rows, fetch, deleted>>,
           req[d].at # "over", NEW code \in {400, 502}, Respond(d, code),
           code = 400 => req[d].at = "idle"
    PROVE  PromiseStep
<1>1. answer[d] = 0 /\ Outcomes[d] = "none"
  BY PerDocument, PromiseFacts DEF DocumentInv, RequestInv, Outcome
<1>2. code = 400 => Places[d] = "absent"
  BY PerDocument, PromiseFacts DEF DocumentInv, RequestInv, Place
<1> QED
  BY <1>1, <1>2, UnseenSteps DEF PromiseStep, Respond, Promise!Next, Promise!Refuse, Places, Outcomes

\* The row is the document; its client may be told of a failure.
LEMMA StoreStep ==
    ASSUME IngestInv, NEW d \in Documents, req[d].at = "insert", UNCHANGED <<fetch, deleted>>,
           rows' = [rows EXCEPT ![d] = Form(d)], UNCHANGED answer \/ Respond(d, 502)
    PROVE  PromiseStep
<1>1. Typed /\ rows[d] = "none" /\ d \notin deleted /\ answer[d] = 0
  BY PerDocument DEF DocumentInv, RequestInv
<1>2. /\ rows'[d] # "none" /\ \A e \in Documents \ {d} : rows'[e] = rows[e]
  BY <1>1, Inserted
<1>3. Places' = [Places EXCEPT ![d] = "stored"]
  BY <1>1, <1>2, PlacesNext DEF Place
<1>4. Places[d] = "absent"
  BY <1>1, PromiseFacts DEF Place
<1>5. Promise!Store(d)
  BY <1>1, <1>3, <1>4, UnseenSteps DEF Promise!Store, Respond, Places, Outcomes
<1> QED
  BY <1>5 DEF PromiseStep, Promise!Next

\* "Created" is answered when the row was stored, though it may be gone again.
LEMMA AcceptStep ==
    ASSUME IngestInv, NEW d \in Documents, StartWorkflow(d)
    PROVE  PromiseStep
<1>1. /\ req[d].at = "start" /\ UNCHANGED <<rows, fetch, deleted>>
      /\ answer' = [answer EXCEPT ![d] = 201]
  BY DEF StartWorkflow, Respond
<1>2. answer[d] = 0 /\ Places[d] # "absent"
  BY <1>1, PerDocument, PromiseFacts DEF DocumentInv, RequestInv, Place, Form
<1>3. Promise!Accept(d)
  BY <1>1, <1>2, UnseenSteps DEF Promise!Accept, Places, Outcomes
<1> QED
  BY <1>3 DEF PromiseStep, Promise!Next

\* A worker finds the text of a document that was stored, or that it was removed.
LEMMA ProcessStep ==
    ASSUME IngestInv, AllWork, NEW d \in Documents,
           ReadRow(d) \/ FetchConnect(d) \/ GetBlob(d) \/ FetchAgain(d)
    PROVE  PromiseStep
<1>1. Typed /\ DocumentInv(d) /\ WorkInv(d)
  BY PerDocument DEF AllWork
<1>2. /\ UNCHANGED <<answer, rows, deleted>>
      /\ d \in started \/ fetch[d].at # "idle"
      /\ \A e \in Documents \ {d} : fetch'[e] = fetch[e]
  BY <1>1 DEF ReadRow, FetchConnect, GetBlob, FetchAgain, Reach, Typed, Fetching
<1>3. answer[d] \in {0, 201} /\ Places[d] # "absent" /\ Outcomes[d] = "none"
  <2>1. fetch[d].at \in Fetching \cup {"idle", "failed"}
    BY DEF ReadRow, FetchConnect, GetBlob, FetchAgain, Fetching
  <2> QED
    BY <1>1, <1>2, <2>1, PromiseFacts DEF WorkInv, Outcome, Fetching
<1>4. \/ fetch'[d].at \notin {"text", "gone", "missing"}
      \/ fetch'[d].at = "text"
      \/ fetch'[d].at = "gone" /\ rows[d] = "none"
  <2>1. CASE FetchConnect(d)
    <3>1. fetch'[d].at \in {"get", "connect", "failed"}
      BY <1>1, <2>1 DEF FetchConnect, Reach, Typed, Fetches
    <3> QED
      BY <3>1
  <2>2. CASE GetBlob(d)
    <3>1. d \in blobs
      BY <1>1, <2>2 DEF DocumentInv, BlobInv, GetBlob, Fetching
    <3> QED
      BY <1>1, <2>2, <3>1 DEF GetBlob, Reach, Typed
  <2>3. CASE ReadRow(d) \/ FetchAgain(d)
    BY <1>1, <2>3 DEF ReadRow, FetchAgain, Reach, Typed
  <2> QED
    BY <2>1, <2>2, <2>3
<1>5. \/ Outcomes' = [Outcomes EXCEPT ![d] = "none"]
      \/ Outcomes' = [Outcomes EXCEPT ![d] = "text"]
      \/ rows[d] = "none" /\ Outcomes' = [Outcomes EXCEPT ![d] = "gone"]
  BY <1>1, <1>2, <1>4, OutcomesNext DEF Outcome
<1>6. CASE Outcomes' = [Outcomes EXCEPT ![d] = "none"]
  <2>1. UNCHANGED Outcomes
    BY <1>3, <1>6 DEF Outcomes
  <2> QED
    BY <1>2, <2>1, UnseenSteps DEF PromiseStep, Unseen
<1>7. CASE ~(Outcomes' = [Outcomes EXCEPT ![d] = "none"])
  <2>1. rows[d] = "none" => Places[d] = "gone"
    BY <1>3, PromiseFacts DEF Place
  <2>2. Promise!Process(d)
    BY <1>2, <1>3, <1>5, <1>7, <2>1, UnseenSteps DEF Promise!Process, Places, Outcomes
  <2> QED
    BY <2>2 DEF PromiseStep, Promise!Next
<1> QED
  BY <1>6, <1>7

\* A document is removed once.
LEMMA RemoveStep ==
    ASSUME IngestInv, AllWork, NEW d \in Documents, DeleteDocument(d)
    PROVE  PromiseStep
<1>1. Typed /\ WorkInv(d)
  BY PerDocument DEF AllWork
<1>2. /\ UNCHANGED <<answer, fetch>> /\ rows[d] # "none"
      /\ rows' = [rows EXCEPT ![d] = "none"] /\ deleted' = deleted \cup {d}
  BY DEF DeleteDocument
<1>3. Places[d] = "stored"
  BY <1>1, <1>2, PromiseFacts DEF WorkInv, Place
<1>4. Places' = [Places EXCEPT ![d] = "gone"]
  BY <1>1, <1>2, PlacesNext DEF Place, Typed
<1>5. Promise!Remove(d)
  BY <1>2, <1>3, <1>4, UnseenSteps DEF Promise!Remove, Places, Outcomes
<1> QED
  BY <1>5 DEF PromiseStep, Promise!Next

\* Of the handlers' steps only the INSERT and the answers are seen.
LEMMA HandlersKeepPromise ==
    ASSUME IngestInv, NEW d \in Documents, Submit(d) \/ Handle(d)
    PROVE  PromiseStep
<1>1. UNCHANGED <<fetch, deleted>>
  BY DEF Submit, Handle, Connect, PutBlob, InsertRow, Reconnect, RemoveBlob, StartWorkflow
<1>2. CASE Submit(d)
  BY <1>1, <1>2, RefuseStep, UnseenSteps DEF Submit, PromiseStep, Unseen
<1>3. CASE Connect(d) \/ PutBlob(d)
  BY <1>1, <1>3, UnseenSteps DEF Connect, PutBlob, PromiseStep, Unseen
<1>4. CASE InsertRow(d)
  <2>1. \/ UNCHANGED <<rows, answer>>
        \/ UNCHANGED rows /\ Respond(d, 502)
        \/ rows' = [rows EXCEPT ![d] = Form(d)] /\ (UNCHANGED answer \/ Respond(d, 502))
    BY <1>4 DEF InsertRow
  <2>2. req[d].at = "insert"
    BY <1>4 DEF InsertRow
  <2> QED
    BY <1>1, <2>1, <2>2, RefuseStep, StoreStep, UnseenSteps DEF PromiseStep, Unseen
<1>5. CASE Reconnect(d) \/ RemoveBlob(d)
  BY <1>1, <1>5, RefuseStep, UnseenSteps DEF Reconnect, RemoveBlob, PromiseStep, Unseen
<1>6. CASE StartWorkflow(d)
  BY <1>6, AcceptStep
<1> QED
  BY <1>2, <1>3, <1>4, <1>5, <1>6 DEF Handle

\* documents.py:109-196, 221-365: whatever fails, clients and worker find the stores
\* as Submission.tla says; a document that was refused is never processed.
THEOREM KeepsThePromiseTheorem == Spec => KeepsThePromise
<1>1. Init => Promise!Init
  <2> SUFFICES ASSUME Init, NEW d \in Documents
               PROVE  Place(d) = "absent" /\ Outcome(d) = "none"
    BY DEF Init, Promise!Init
  <2>1. rows[d] = "none" /\ d \notin deleted /\ fetch[d].at = "idle"
    BY DEF Init
  <2> QED
    BY <2>1 DEF Place, Outcome
<1>2. IngestInv /\ AllWork /\ [Next]_vars => [Promise!Next]_<<Places, answer, Outcomes>>
  <2> SUFFICES ASSUME IngestInv, AllWork, [Next]_vars PROVE PromiseStep
    BY DEF PromiseStep, Unseen
  <2>1. CASE Next
    <3>1. Crash => Unseen
      BY UnseenSteps DEF Crash, Unseen
    <3> QED
      BY <2>1, <3>1, HandlersKeepPromise, ProcessStep, RemoveStep DEF Next, PromiseStep
  <2>2. CASE UNCHANGED vars
    BY <2>2, UnseenSteps DEF vars, PromiseStep, Unseen
  <2> QED
    BY <2>1, <2>2
<1>3. [Promise!Next]_<<Places, answer, Outcomes>> =>
          [Promise!Next]_<<[d \in Documents |-> Place(d)], answer, [d \in Documents |-> Outcome(d)]>>
  BY DEF Places, Outcomes
<1>4. Spec => []AllWork
  BY WorkInit, WorkStep, IngestInit, IngestStep, PTL DEF Spec
<1> QED
  BY <1>1, <1>2, <1>3, <1>4, IngestSafe, PTL DEF Spec, KeepsThePromise, Promise!Spec
=============================================================================
