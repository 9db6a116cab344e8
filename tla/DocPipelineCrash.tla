-------------------------- MODULE DocPipelineCrash --------------------------
(***************************************************************************)
(* What the documentation promises of worker crashes: for any number of    *)
(* chunks, slots and crashes, as long as no attempt outlives its timeout   *)
(* and no statement fails, the pipeline makes no duplicates, loses no      *)
(* chunk and leaves a status that agrees with the execution.               *)
(***************************************************************************)
EXTENDS DocPipelineProofs

-----------------------------------------------------------------------------
(* Who writes what.                                                        *)

\* A statement of an activity moves its own attempt on and nobody else.
LEMMA WorkPlace ==
    ASSUME TypeOK, NEW s \in Slots, Work(s)
    PROVE  /\ UNCHANGED <<wf, task, answers, source, submit, del, erased, faults>>
           /\ slot[s].act \in Activities /\ slot[s].step # "done"
           /\ slot'[s].act = slot[s].act /\ slot'[s].i = slot[s].i
           /\ slot'[s].n = slot[s].n /\ slot'[s].live = slot[s].live
           /\ \A t \in Slots \ {s} : slot'[t] = slot[t]
<1>1. UNCHANGED <<wf, task, answers, source, submit, del, erased, faults>>
  BY DEF Work, UpdateStatus, GetMetadata, ExtractText, ChunkDelete, ChunkInsert, ChunkMark,
     GetChunks, GetPrior, ExtractEvents, StoreNothing, StoreBegin, StoreCommit,
     ResolveRead, ResolveUpdate, temporal, api
<1>2. slot[s].act \in Activities /\ slot[s].step # "done"
  BY DEF Work, UpdateStatus, GetMetadata, ExtractText, ChunkDelete, ChunkInsert, ChunkMark,
     GetChunks, GetPrior, ExtractEvents, StoreNothing, StoreBegin, StoreCommit,
     ResolveRead, ResolveUpdate, At, Activities, SetStages
<1>3. CASE \E r : Return(s, r)
  BY <1>1, <1>2, <1>3, ReturnKeeps
<1>4. CASE ~\E r : Return(s, r)
  <2>1. \/ ChunkDelete(s) \/ ChunkInsert(s) \/ GetChunks(s)
        \/ StoreBegin(s) \/ ResolveRead(s) \/ ResolveUpdate(s)
    BY <1>4 DEF Work, UpdateStatus, GetMetadata, ExtractText, ChunkMark, GetPrior,
       ExtractEvents, StoreNothing, StoreCommit
  <2>2. QED
    BY <1>1, <1>2, <1>4, <2>1 DEF ChunkDelete, ChunkInsert, GetChunks, StoreBegin,
       ResolveRead, ResolveUpdate, TypeOK, Attempt
<1>5. QED  BY <1>3, <1>4

\* A claimed attempt starts at its first statement.
LEMMA ClaimPlace ==
    ASSUME TypeOK, NEW s \in Slots, Claim(s)
    PROVE  /\ slot'[s].act = wf.stage /\ slot'[s].i = wf.i /\ slot'[s].live
           /\ slot'[s].step = "run" /\ slot'[s].k = 0
           /\ \A t \in Slots \ {s} : slot'[t] = slot[t]
<1> DEFINE new == [IdleSlot EXCEPT !.act = wf.stage, !.i = wf.i, !.n = task.n, !.live = TRUE]
<1>1. /\ new.act = wf.stage /\ new.i = wf.i /\ new.live /\ new.step = "run" /\ new.k = 0
  BY DEF IdleSlot
<1>2. slot' = [slot EXCEPT ![s] = new] /\ slot \in [Slots -> Attempt]
  BY DEF Claim, TypeOK
<1>3. QED  BY <1>1, <1>2

\* The columns of the document row that an UPDATE leaves as they are.
LEMMA UpdateDocLeaves ==
    ASSUME TypeOK, NEW st, NEW e
    PROVE  /\ UpdateDoc(st, e).present = doc.present
           /\ UpdateDoc(st, e).text = doc.text
           /\ ~doc.present => UpdateDoc(st, e) = doc
           /\ doc.present => UpdateDoc(st, e).status = st
BY DEF UpdateDoc, TypeOK, DocumentRow

\* No statement of an activity creates or removes the document row, or takes
\* its text away.
LEMMA RowStays ==
    ASSUME TypeOK, NEW s \in Slots, Work(s) \/ DbError(s)
    PROVE  /\ doc'.present = doc.present
           /\ doc.text => doc'.text
           /\ source = "unreadable" => doc'.text = doc.text
<1>1. /\ Failed.present = doc.present /\ Failed.text = doc.text
  BY UpdateDocLeaves DEF Failed
<1>2. CASE UpdateStatus(s) \/ ChunkMark(s)
  BY <1>2, UpdateDocLeaves DEF UpdateStatus, ChunkMark
<1>3. CASE ExtractText(s)
  BY <1>1, <1>3 DEF ExtractText, TypeOK, DocumentRow
<1>4. CASE ChunkDelete(s) \/ DbError(s)
  BY <1>1, <1>4 DEF ChunkDelete, DbError
<1>5. CASE UNCHANGED doc
  BY <1>5
<1>6. QED
  BY <1>2, <1>3, <1>4, <1>5 DEF Work, GetMetadata, ChunkInsert, GetChunks,
     GetPrior, ExtractEvents, StoreNothing, StoreBegin, StoreCommit, ResolveRead, ResolveUpdate,
     tables

\* store_events without events finds nothing to delete.
LEMMA StoreNothingKeeps ==
    ASSUME IInv, NEW s \in Slots, StoreNothing(s)
    PROVE  UNCHANGED tables
<1>1. \A e \in events : e[1] \in Idx /\ answers[e[1]] = "events"
  BY DEF IInv, RowInv, TypeOK, Row
<1>2. RowsOf(slot[s].i, linked) = {}
  BY <1>1 DEF StoreNothing, RowsOf, Answer, IInv, RowInv
<1>3. UNCHANGED <<doc, chunks, events, linked>> /\ resolved' = resolved \cap Quotations(events)
  BY <1>2 DEF StoreNothing, IInv, RowInv
<1>4. resolved \subseteq Quotations(events)
  BY QuotationsGrow DEF IInv, RowInv
<1>5. QED  BY <1>3, <1>4 DEF tables

\* Batches change when a store commits or a delete request is at work, chunk
\* rows when a document is cut or a delete request is at work.
LEMMA Writers ==
    ASSUME IInv, Next
    PROVE  /\ \/ UNCHANGED <<events, linked>>
              \/ \E s \in Slots : StoreCommit(s) /\ doc.present
              \/ DeleteLinks \/ DeleteEvents \/ DeleteDocument
           /\ \/ UNCHANGED chunks
              \/ \E s \in Slots : ChunkDelete(s) \/ ChunkInsert(s)
              \/ DeleteChunks \/ DeleteDocument
           /\ \/ UNCHANGED doc
              \/ \E s \in Slots : Work(s) \/ DbError(s)
              \/ Submit \/ DeleteDocument
<1>1. ASSUME NEW s \in Slots, StoreNothing(s)
      PROVE  UNCHANGED tables
  BY <1>1, StoreNothingKeeps
<1>2. CASE UNCHANGED tables
  BY <1>2 DEF tables
<1>3. CASE Submit \/ Deletion
  BY <1>3 DEF Submit, Deletion, DeleteFind, DeleteChunks, DeleteLinks, DeleteEvents,
     DeleteDocument, Terminate, DeleteFails, tables
<1>4. ASSUME NEW s \in Slots, Work(s) \/ DbError(s)
      PROVE  \/ UNCHANGED tables
             \/ UNCHANGED <<events, linked>> /\ (ChunkDelete(s) \/ ChunkInsert(s) \/ UNCHANGED chunks)
             \/ StoreCommit(s) /\ doc.present /\ UNCHANGED chunks
  BY <1>1, <1>4 DEF Work, DbError, UpdateStatus, GetMetadata, ExtractText, ChunkDelete,
     ChunkInsert, ChunkMark, GetChunks, GetPrior, ExtractEvents, StoreBegin, StoreCommit,
     ResolveRead, ResolveUpdate, tables
<1>5. CASE \E s \in Slots : Work(s) \/ DbError(s)
  BY <1>2, <1>4, <1>5
<1>6. CASE \/ \E s \in Slots : Claim(s) \/ Report(s) \/ Discard(s) \/ CancelLate(s) \/ TimeoutLate(s)
           \/ StartWorkflow \/ LoseStart \/ Timeout \/ Crash
  BY <1>2, <1>6 DEF Claim, Report, Discard, CancelLate, TimeoutLate, StartWorkflow, LoseStart,
     Timeout, Crash, tables
<1>7. QED  BY <1>3, <1>5, <1>6 DEF Next
-----------------------------------------------------------------------------
(* What holds under any fault: presence, links, the loop, unreadable files. *)

\* The handlers' progress moves in the handlers only.
LEMMA PresenceStep == IInv /\ PresenceInv /\ [Next]_vars => PresenceInv'
<1> SUFFICES ASSUME IInv, PresenceInv, [Next]_vars PROVE PresenceInv'
  OBVIOUS
<1>1. CASE Submit
  BY <1>1 DEF Submit, PresenceInv
<1>2. CASE Deletion
  BY <1>2 DEF Deletion, DeleteFind, DeleteChunks, DeleteLinks, DeleteEvents, DeleteDocument,
     Terminate, DeleteFails, tables, Absent, IInv, DeleteInv, PresenceInv
<1>3. ASSUME NEW s \in Slots, Work(s) \/ DbError(s) PROVE PresenceInv'
  <2>1. doc'.present = doc.present
    BY <1>3, RowStays DEF IInv
  <2>2. UNCHANGED <<submit, del, erased>>
    BY <1>3, WorkPlace DEF DbError, api, IInv
  <2>3. QED  BY <2>1, <2>2 DEF PresenceInv
<1>4. CASE StartWorkflow \/ LoseStart
  BY <1>4 DEF StartWorkflow, LoseStart, tables, PresenceInv
<1>5. CASE UNCHANGED <<doc, submit, del, erased>>
  BY <1>5 DEF PresenceInv
<1>6. QED
  BY <1>1, <1>2, <1>3, <1>4, <1>5 DEF Next, Claim, Report, Discard, CancelLate, TimeoutLate,
     Timeout, Crash, tables, api, vars

\* Rows that a delete request has begun to remove do not come back whole.
LEMMA ErasedStays == [Next]_vars /\ erased => erased'
BY DEF Next, Work, Submit, StartWorkflow, LoseStart, Claim, DbError, Report, Discard, CancelLate,
   TimeoutLate, Timeout, Crash, Deletion, DeleteFind, DeleteChunks, DeleteLinks, DeleteEvents,
   DeleteDocument, Terminate, DeleteFails, UpdateStatus, GetMetadata, ExtractText, ChunkDelete,
   ChunkInsert, ChunkMark, GetChunks, GetPrior, ExtractEvents, StoreNothing, StoreBegin,
   StoreCommit, ResolveRead, ResolveUpdate, api, vars

\* One transaction writes a batch and its links, or takes both away.
LEMMA LinkStep == IInv /\ LinkInv /\ [Next]_vars => LinkInv'
<1> SUFFICES ASSUME IInv, LinkInv, [Next]_vars, ~erased' PROVE linked' = events'
  BY DEF LinkInv
<1>1. ~erased
  BY ErasedStays
<1>2. CASE UNCHANGED <<events, linked>>
  BY <1>1, <1>2 DEF LinkInv
<1>3. ASSUME NEW s \in Slots, StoreCommit(s), doc.present PROVE linked' = events'
  BY <1>1, <1>3 DEF LinkInv, StoreCommit
<1>4. CASE DeleteLinks \/ DeleteEvents \/ DeleteDocument
  BY <1>1, <1>4 DEF DeleteLinks, DeleteEvents, DeleteDocument, IInv, DeleteInv
<1>5. QED  BY <1>2, <1>3, <1>4, Writers DEF vars

\* The workflow moves on with an answer, and leaves the loop at its end.
LEMMA LoopStep == IInv /\ LoopInv /\ [Next]_vars => LoopInv'
<1> SUFFICES ASSUME IInv, LoopInv, [Next]_vars PROVE LoopInv'
  OBVIOUS
<1>1. /\ wf \in Execution /\ wf.i \in Nat /\ wf.n \in Nat /\ wf.stage \in Stages
      /\ answers \in [Idx -> {"unknown", "events", "none"}]
      /\ \A s \in Slots : slot[s] \in Attempt
  BY DEF IInv, TypeOK, Execution
<1> DEFINE Same == UNCHANGED answers /\ wf'.i = wf.i /\ wf'.n = wf.n
<1>2. ASSUME Same, wf'.stage \notin {"store_events", "set_extracting_text"} \cup Closing
               \/ wf'.stage = wf.stage
      PROVE  LoopInv'
  BY <1>2 DEF LoopInv, Answer
<1>3. CASE StartWorkflow \/ Timeout \/ Terminate \/ \E s \in Slots : TimeoutLate(s)
  <2>1. CASE StartWorkflow
    <3>1. Same /\ wf'.stage = "set_processing"
      BY <1>1, <2>1 DEF StartWorkflow, Goto, Execution
    <3>2. QED  BY <1>2, <3>1 DEF Closing
  <2>2. CASE Terminate
    <3>1. Same /\ wf'.stage \in {wf.stage, "terminated"}
      BY <1>1, <2>2 DEF Terminate, Execution
    <3>2. QED  BY <1>2, <3>1 DEF Closing
  <2>3. CASE Timeout \/ \E s \in Slots : TimeoutLate(s)
    <3>1. RetryOrRaise /\ UNCHANGED answers
      BY <2>3 DEF Timeout, TimeoutLate
    <3>2. Same /\ wf'.stage \in {wf.stage, "set_failed"}
      BY <1>1, <3>1 DEF RetryOrRaise, Raise, Goto, Execution
    <3>3. QED  BY <1>2, <3>2 DEF Closing
  <2>4. QED  BY <1>3, <2>1, <2>2, <2>3
<1>4. ASSUME NEW s \in Slots, Report(s) PROVE LoopInv'
  <2> DEFINE a == slot[s]
  <2>1. a.act = wf.stage /\ a.i = wf.i /\ a.step = "done" /\ Outcome(a) /\ a.k \in Nat
    BY <1>1, <1>4 DEF Report, IInv, LiveInv, OutcomeInv, Attempt
  <2>2. CASE AfterExtract(a)
    <3>1. /\ wf'.i = wf.i /\ wf'.stage = "store_events"
      BY <1>1, <2>2 DEF AfterExtract, Continue, Goto, Execution
    <3>2. /\ answers' = IF a.i \in Idx THEN [answers EXCEPT ![a.i] = a.res] ELSE answers
          /\ a.res \in {"events", "none"}
      BY <1>4, <2>1, <2>2 DEF AfterExtract, Report, Outcome
    <3>3. Answer(wf.i)' # "unknown"
      BY <1>1, <2>1, <3>1, <3>2 DEF Answer
    <3>4. \A c \in Idx : c < wf.i => answers'[c] # "unknown"
      BY <1>1, <2>1, <3>2 DEF LoopInv
    <3>5. QED  BY <3>1, <3>3, <3>4 DEF LoopInv, Closing
  <2>3. ASSUME ~AfterExtract(a) PROVE UNCHANGED answers
    <3>1. CASE a.act = "extract_events" /\ a.res # "raise"
      BY <1>4, <2>3, <3>1 DEF Report, Onward, AfterMetadata, AfterGetChunks, AfterStore,
         AfterChunkDone, AfterFailed
    <3>2. QED  BY <1>4, <3>1 DEF Report
  <2>4. CASE AfterChunkDone(a)
    <3>1. /\ UNCHANGED answers /\ wf'.i = wf.i + 1 /\ wf'.n = wf.n
          /\ wf'.stage = IF wf.i + 1 < wf.n THEN "get_prior" ELSE "resolve_refs"
          /\ wf.stage = "set_extracting_text"
      BY <1>1, <2>1, <2>3, <2>4 DEF AfterChunkDone, AfterExtract, LoopAt, Goto, Execution
    <3>2. \A c \in Idx : c < wf.i + 1 => answers[c] # "unknown"
      BY <1>1, <3>1, NumChunksAssumption DEF LoopInv, Answer, Idx
    <3>3. QED  BY <1>1, <3>1, <3>2 DEF LoopInv, Closing
  <2>5. CASE AfterGetChunks(a)
    <3>1. CASE a.res = "error"
      <4>1. Same /\ wf'.stage = "set_failed"
        BY <1>1, <2>3, <2>5, <3>1 DEF AfterGetChunks, AfterExtract, Raise, Goto, Execution
      <4>2. QED  BY <1>2, <4>1 DEF Closing
    <3>2. CASE a.res # "error"
      <4>1. /\ UNCHANGED answers /\ wf'.i = 0 /\ wf'.n = a.k
            /\ wf'.stage = IF 0 < a.k THEN "get_prior" ELSE "resolve_refs"
        BY <1>1, <2>3, <2>5, <3>2 DEF AfterGetChunks, AfterExtract, LoopAt, Goto, Execution
      <4>2. QED  BY <2>1, <4>1, NumChunksAssumption DEF LoopInv, Closing, Idx
    <3>3. QED  BY <3>1, <3>2
  <2>6. CASE AfterStore(a)
    <3>1. Same /\ wf'.stage \in {"set_failed", "set_extracting_text"} /\ wf.stage = "store_events"
      BY <1>1, <2>1, <2>3, <2>6 DEF AfterStore, AfterExtract, Raise, Continue, Goto, Execution
    <3>2. QED  BY <3>1 DEF LoopInv, Answer, Closing
  <2>7. CASE AfterMetadata(a) \/ AfterFailed(a)
    <3>1. Same /\ wf'.stage \in {"set_extracting_blob", "chunk", "failed", "wedged"}
      BY <1>1, <2>3, <2>7 DEF AfterMetadata, AfterFailed, AfterExtract, Continue, Goto, Execution
    <3>2. QED  BY <1>2, <3>1 DEF Closing
  <2>8. CASE a.act \in DOMAIN Onward /\ Continue(Onward[a.act])
    <3>1. Same /\ wf'.stage = Onward[wf.stage] /\ wf.stage \in DOMAIN Onward
      BY <1>1, <2>1, <2>3, <2>8 DEF AfterExtract, Continue, Goto, Execution, Onward
    <3>2. QED  BY <1>2, <3>1 DEF Onward, LoopInv, Closing, Answer
  <2>9. CASE a.res = "raise" /\ RetryOrRaise
    <3>1. Same /\ wf'.stage \in {wf.stage, "set_failed"}
      BY <1>1, <2>3, <2>9 DEF AfterExtract, RetryOrRaise, Raise, Goto, Execution
    <3>2. QED  BY <1>2, <3>1 DEF Closing
  <2>10. QED
    BY <1>4, <2>2, <2>4, <2>5, <2>6, <2>7, <2>8, <2>9 DEF Report
<1>5. CASE UNCHANGED <<wf, answers>>
  BY <1>2, <1>5
<1>6. ASSUME NEW s \in Slots, Work(s) PROVE UNCHANGED <<wf, answers>>
  BY <1>6, WorkPlace DEF IInv
<1>7. QED
  BY <1>3, <1>4, <1>5, <1>6 DEF Next, Submit, LoseStart, Claim, DbError, Discard, CancelLate, Crash,
     Deletion, DeleteFind, DeleteChunks, DeleteLinks, DeleteEvents, DeleteDocument, DeleteFails,
     temporal, vars

\* Nobody writes a text into the row of a file that cannot be read, so that it
\* is not cut, its chunks are not found and the LLM is not asked.
LEMMA UnreadableStep == IInv /\ UnreadableInv /\ [Next]_vars => UnreadableInv'
<1> SUFFICES ASSUME IInv, UnreadableInv, [Next]_vars, source' = "unreadable" PROVE UnreadableInv'
  BY DEF UnreadableInv
<1>1. source = "unreadable"
  BY WorkPlace DEF Next, Submit, StartWorkflow, LoseStart, Claim, DbError, Report, Discard,
     CancelLate, TimeoutLate, Timeout, Crash, Deletion, DeleteFind, DeleteChunks, DeleteLinks,
     DeleteEvents, DeleteDocument, Terminate, DeleteFails, api, vars, IInv
<1>2. /\ ~doc.text /\ chunks = {}
      /\ \A c \in Idx : answers[c] # "events"
      /\ \A s \in Slots :
            /\ ~At(s, "chunk", "work")
            /\ At(s, "extract_events", "done") => slot[s].res # "events"
      /\ \A s \in Slots : slot[s] \in Attempt
      /\ TypeOK
  BY <1>1 DEF UnreadableInv, IInv, TypeOK
<1>3. ~doc'.text
  <2>1. CASE Submit \/ DeleteDocument
    <3>1. doc'.text = (source = "text") \/ doc'.text = FALSE
      BY <2>1 DEF Submit, DeleteDocument, Absent
    <3>2. QED  BY <1>1, <3>1
  <2>2. QED  BY <1>1, <1>2, <2>1, RowStays, Writers DEF vars
<1>4. chunks' = {}
  <2>1. ASSUME NEW s \in Slots, ChunkDelete(s) \/ ChunkInsert(s) PROVE chunks' = {}
    BY <1>2, <2>1 DEF ChunkDelete, ChunkInsert
  <2>2. CASE DeleteChunks \/ DeleteDocument
    BY <2>2 DEF DeleteChunks, DeleteDocument
  <2>3. QED  BY <1>2, <2>1, <2>2, Writers DEF vars
<1>5. \A c \in Idx : answers'[c] # "events"
  <2>1. ASSUME NEW s \in Slots, Report(s) PROVE \A c \in Idx : answers'[c] # "events"
    BY <1>2, <2>1 DEF Report, At, TypeOK
  <2>2. ASSUME NEW s \in Slots, Work(s) PROVE UNCHANGED answers
    BY <1>2, <2>2, WorkPlace
  <2>3. QED
    BY <1>2, <2>1, <2>2 DEF Next, Submit, StartWorkflow, LoseStart, Claim, DbError, Discard,
       CancelLate, TimeoutLate, Timeout, Crash, Deletion, DeleteFind, DeleteChunks, DeleteLinks,
       DeleteEvents, DeleteDocument, Terminate, DeleteFails, temporal, vars
<1>6. ASSUME NEW t \in Slots
      PROVE  ~At(t, "chunk", "work")' /\ (At(t, "extract_events", "done")' => slot'[t].res # "events")
  <2>1. CASE slot'[t] = slot[t]
    BY <1>2, <2>1 DEF At
  <2>2. ASSUME NEW s \in Slots, Claim(s) \/ Report(s) \/ Discard(s) \/ CancelLate(s)
        PROVE  slot'[t] = slot[t] \/ slot'[t].step = "run"
    <3>1. slot \in [Slots -> Attempt]
      BY <1>2 DEF TypeOK
    <3>2. CASE Claim(s)
      BY <1>2, <3>2, ClaimPlace
    <3>3. CASE Report(s) \/ Discard(s) \/ CancelLate(s)
      BY <3>1, <3>3 DEF Report, Discard, CancelLate, IdleSlot
    <3>4. QED  BY <2>2, <3>2, <3>3
  <2>3. CASE Crash
    BY <2>3 DEF Crash, IdleSlot, At
  <2>4. ASSUME NEW s \in Slots, TimeoutLate(s) \/ Terminate
        PROVE  /\ slot'[t].act = slot[t].act /\ slot'[t].step = slot[t].step
               /\ slot'[t].res = slot[t].res
    BY <1>2, <2>4 DEF TimeoutLate, Terminate, TypeOK, Attempt
  <2>5. ASSUME NEW s \in Slots, DbError(s), t = s
        PROVE  slot'[t].step = "done" /\ slot'[t].res # "events"
    BY <1>2, <2>5, ReturnKeeps DEF DbError
  <2>6. ASSUME NEW s \in Slots, DbError(s), t # s PROVE slot'[t] = slot[t]
    BY <1>2, <2>6, ReturnKeeps DEF DbError
  <2>7. ASSUME NEW s \in Slots, Work(s), t = s
        PROVE  ~At(t, "chunk", "work")' /\ (At(t, "extract_events", "done")' => slot'[t].res # "events")
    <3>1. slot'[s].act = slot[s].act /\ slot[s].step # "done"
      BY <1>2, <2>7, WorkPlace
    <3>2. CASE slot[s].act = "chunk"
      <4>1. ChunkDelete(s)
        BY <1>2, <2>7, <3>2 DEF Work, UpdateStatus, GetMetadata, ExtractText, ChunkInsert, ChunkMark,
           GetChunks, GetPrior, ExtractEvents, StoreNothing, StoreBegin, StoreCommit,
           ResolveRead, ResolveUpdate, At, SetStages
      <4>2. slot'[s].step = "done"
        BY <1>2, <4>1, ReturnKeeps DEF ChunkDelete
      <4>3. QED  BY <2>7, <3>1, <3>2, <4>2 DEF At
    <3>3. CASE slot[s].act = "extract_events"
      <4>1. ExtractEvents(s)
        BY <2>7, <3>3 DEF Work, UpdateStatus, GetMetadata, ExtractText, ChunkDelete, ChunkInsert,
           ChunkMark, GetChunks, GetPrior, StoreNothing, StoreBegin, StoreCommit,
           ResolveRead, ResolveUpdate, At, SetStages
      <4>2. RowsOf(slot[s].i, chunks) = {}
        BY <1>2 DEF RowsOf
      <4>3. slot'[s].res # "events"
        BY <1>2, <4>1, <4>2, ReturnKeeps DEF ExtractEvents
      <4>4. QED  BY <2>7, <3>1, <3>3, <4>3 DEF At
    <3>4. QED  BY <2>7, <3>1, <3>2, <3>3 DEF At
  <2>8. ASSUME NEW s \in Slots, Work(s), t # s PROVE slot'[t] = slot[t]
    BY <1>2, <2>8, WorkPlace
  <2>9. QED
    BY <1>2, <2>1, <2>2, <2>3, <2>4, <2>5, <2>6, <2>7, <2>8 DEF Next, Submit, StartWorkflow,
       LoseStart, Timeout, Deletion, DeleteFind, DeleteChunks, DeleteLinks, DeleteEvents,
       DeleteDocument, DeleteFails, vars, At
<1>7. QED  BY <1>3, <1>4, <1>5, <1>6 DEF UnreadableInv

\* These four hold in every reachable state.
LEMMA BaseInvariance == Spec => []BaseInv
<1>1. Init => BaseInv
  BY NumChunksAssumption DEF Init, BaseInv, PresenceInv, LinkInv, LoopInv, UnreadableInv, Absent,
     IdleSlot, At, Idx, Closing
<1>2. IInv /\ BaseInv /\ [Next]_vars => BaseInv'
  BY PresenceStep, LinkStep, LoopStep, UnreadableStep DEF BaseInv
<1>3. QED  BY <1>1, <1>2, Invariance, PTL DEF Spec
-----------------------------------------------------------------------------
(* Worker crashes only: one attempt works at a time.                       *)

\* No attempt outlives its timeout and no statement fails.
LEMMA CrashOnlySteps ==
    ASSUME CrashOnly
    PROVE  ~DeleteFails /\ \A s \in Slots : ~DbError(s) /\ ~TimeoutLate(s)
BY DEF CrashOnly, DeleteFails, DbError, TimeoutLate, Spend

\* The attempt that works while the document exists is the one the workflow
\* awaits, and no other slot is busy.
LEMMA Alone ==
    ASSUME IInv, LoneWorker, NEW s \in Slots, slot[s].act # "idle", doc.present
    PROVE  /\ slot[s].live /\ slot[s].act = wf.stage /\ slot[s].i = wf.i
           /\ wf.stage \in Activities /\ task.state = "started"
           /\ \A t \in Slots \ {s} : slot[t].act = "idle"
BY DEF LoneWorker, IInv, LiveInv

\* Work is done on a document that exists, unless a delete request is ahead.
LEMMA WorkersPresent ==
    ASSUME IInv, PresenceInv, LoneWorker, NEW s \in Slots, slot[s].act # "idle", ~erased
    PROVE  doc.present
BY DEF LoneWorker, IInv, LiveInv, DeleteInv, PresenceInv, Activities, SetStages

\* An attempt that is neither live nor on a removed document does not exist.
LEMMA LoneStep ==
    ASSUME IInv, PresenceInv, LoneWorker, CrashOnly, [Next]_vars
    PROVE  LoneWorker'
<1>1. TypeOK /\ slot \in [Slots -> Attempt]
  BY DEF IInv, TypeOK
<1>2. ASSUME NEW s \in Slots, Work(s) PROVE LoneWorker'
  BY <1>1, <1>2, WorkPlace, RowStays DEF LoneWorker
<1>3. ASSUME NEW s \in Slots, Claim(s) PROVE LoneWorker'
  <2>1. UNCHANGED <<doc, erased>>
    BY <1>3 DEF Claim, tables, api
  <2>2. QED  BY <1>1, <1>3, <2>1, ClaimPlace DEF LoneWorker
<1>4. ASSUME NEW s \in Slots, Report(s) \/ Discard(s) \/ CancelLate(s) \/ Crash PROVE LoneWorker'
  BY <1>1, <1>4 DEF Report, Discard, CancelLate, Crash, IdleSlot, tables, api, LoneWorker
<1>5. CASE Terminate
  <2>1. erased /\ ~doc.present /\ UNCHANGED <<erased, doc>>
    BY <1>5 DEF Terminate, PresenceInv, tables
  <2>2. \A t \in Slots : slot'[t].act = slot[t].act
    BY <1>1, <1>5 DEF Terminate, Attempt
  <2>3. QED  BY <2>1, <2>2 DEF LoneWorker
<1>6. CASE Submit
  BY <1>6 DEF Submit, IInv, DeleteInv, LoneWorker
<1>7. CASE DeleteFind \/ DeleteChunks \/ DeleteLinks \/ DeleteEvents \/ DeleteDocument
  <2>1. UNCHANGED slot
    BY <1>7 DEF DeleteFind, DeleteChunks, DeleteLinks, DeleteEvents, DeleteDocument
  <2>2. doc.present
    BY <1>7 DEF DeleteFind, DeleteChunks, DeleteLinks, DeleteEvents, DeleteDocument, IInv, DeleteInv
  <2>3. QED  BY <2>1, <2>2 DEF LoneWorker
<1>8. CASE StartWorkflow \/ LoseStart \/ Timeout \/ UNCHANGED vars
  BY <1>8 DEF StartWorkflow, LoseStart, Timeout, tables, api, vars, LoneWorker
<1>9. QED
  BY <1>2, <1>3, <1>4, <1>5, <1>6, <1>7, <1>8, CrashOnlySteps,
     SlotsAssumption DEF Next, Deletion

\* Where a retry and where a result sends the workflow.
LEMMA RetryTo ==
    ASSUME TypeOK, RetryOrRaise
    PROVE  wf' = wf \/ (wf.stage \in Limited /\ wf'.stage = "set_failed")
BY DEF RetryOrRaise, Raise, Goto, Exhausted, TypeOK, Execution

LEMMA ReportTo ==
    ASSUME IInv, NEW s \in Slots, Report(s)
    PROVE  /\ wf'.stage \in Cutting =>
                 \/ wf.stage \in Cutting \cup {"extract_text"}
                 \/ wf.stage = "get_metadata" /\ slot[s].res # "no_text"
           /\ wf'.stage \in Cutting \ {"chunk"} => wf.stage \in Cutting
           /\ wf'.stage \in LoopStages \cup Closing =>
                 \/ wf'.n = wf.n /\ wf.stage \in LoopStages \cup Closing
                 \/ wf'.n = slot[s].k /\ wf.stage = "get_chunks"
           /\ wf'.stage \in {"set_processed", "completed"} =>
                 wf.stage \in {"resolve_refs", "set_processed"}
           /\ wf'.stage = "completed" => wf.stage = "set_processed"
           /\ wf'.stage \in {"failed", "wedged"} => wf.stage = "set_failed"
           /\ wf.stage = "set_processed" => wf'.stage \in {"set_processed", "completed"}
<1> DEFINE a == slot[s]
<1>1. /\ a.act = wf.stage /\ wf.stage \in Activities
      /\ wf \in Execution
  BY DEF Report, IInv, LiveInv, TypeOK
<1> USE <1>1 DEF Cutting, LoopStages, Closing, Goto, Execution, Activities, SetStages
<1>2. CASE a.act \in DOMAIN Onward /\ Continue(Onward[a.act])
  BY <1>2 DEF Onward, Continue
<1>3. CASE AfterMetadata(a)
  BY <1>3 DEF AfterMetadata, Continue
<1>4. CASE AfterGetChunks(a)
  BY <1>4 DEF AfterGetChunks, Raise, LoopAt
<1>5. CASE AfterExtract(a)
  BY <1>5 DEF AfterExtract, Continue
<1>6. CASE AfterStore(a)
  BY <1>6 DEF AfterStore, Raise, Continue
<1>7. CASE AfterChunkDone(a)
  BY <1>7 DEF AfterChunkDone, LoopAt
<1>8. CASE AfterFailed(a)
  BY <1>8 DEF AfterFailed, Continue
<1>9. CASE a.res = "raise" /\ RetryOrRaise
  <2>1. wf' = wf \/ (wf.stage \in Limited /\ wf'.stage = "set_failed")
    BY <1>9, RetryTo DEF IInv
  <2>2. QED  BY <2>1 DEF Limited
<1>10. QED
  BY <1>2, <1>3, <1>4, <1>5, <1>6, <1>7, <1>8, <1>9 DEF Report
-----------------------------------------------------------------------------
(* Worker crashes only: the status the workflow wrote last is still there. *)

\* An activity that writes the status is the one the workflow awaits.
LEMMA StatusWork ==
    ASSUME IInv, LoneWorker, StatusInv, NEW s \in Slots, Work(s)
    PROVE  StatusInv'
<1> SUFFICES ASSUME doc.present PROVE StatusInv'
  BY RowStays DEF IInv, StatusInv
<1> DEFINE a == slot[s]
<1>1. TypeOK /\ doc \in DocumentRow
  BY DEF IInv, TypeOK
<1>2. /\ UNCHANGED wf /\ slot'[s].act = a.act
      /\ \A t \in Slots \ {s} : slot'[t].act = "idle"
      /\ a.act = wf.stage /\ wf.stage \in Activities
  <2>1. a.act \in Activities /\ a.act # "idle"
    BY <1>1, WorkPlace DEF Activities, SetStages
  <2>2. QED  BY <1>1, <2>1, WorkPlace, Alone
<1>3. wf.stage \notin {"completed", "failed", "wedged"}
  BY <1>2 DEF Activities, SetStages
<1>4. CASE UpdateStatus(s)
  <2>1. doc' = UpdateDoc(WrittenStatus(wf.stage), wf.stage = "set_failed") /\ wf.stage \in SetStages
    BY <1>2, <1>4 DEF UpdateStatus
  <2>2. doc'.status = WrittenStatus(wf.stage)
    BY <1>1, <2>1, UpdateDocLeaves
  <2>3. QED  BY <1>2, <1>3, <2>1, <2>2 DEF StatusInv, WrittenStatus, SetStages, At
<1>5. ASSUME wf.stage \notin SetStages,
             doc'.status = doc.status \/ doc'.status # "processed"
      PROVE  StatusInv'
  BY <1>2, <1>3, <1>5 DEF StatusInv, SetStages, At
<1>6. Failed.status = "failed"
  BY <1>1, UpdateDocLeaves DEF Failed
<1>7. CASE ExtractText(s) \/ ChunkDelete(s) \/ ChunkMark(s)
  <2>1. wf.stage \notin SetStages
    BY <1>2, <1>7 DEF ExtractText, ChunkDelete, ChunkMark, At, SetStages
  <2>2. doc'.status = doc.status \/ doc'.status # "processed"
    <3>1. CASE ExtractText(s)
      BY <1>1, <1>6, <3>1 DEF ExtractText, DocumentRow
    <3>2. CASE ChunkDelete(s)
      BY <1>6, <3>2 DEF ChunkDelete
    <3>3. CASE ChunkMark(s)
      BY <1>1, <3>3, UpdateDocLeaves DEF ChunkMark
    <3>4. QED  BY <1>7, <3>1, <3>2, <3>3
  <2>3. QED  BY <1>5, <2>1, <2>2
<1>8. CASE ~UpdateStatus(s) /\ UNCHANGED doc
  <2>1. wf.stage \notin SetStages
    BY <1>2, <1>8 DEF Work, GetMetadata, ExtractText, ChunkDelete, ChunkInsert, ChunkMark,
       GetChunks, GetPrior, ExtractEvents, StoreNothing, StoreBegin, StoreCommit,
       ResolveRead, ResolveUpdate, At, SetStages
  <2>2. QED  BY <1>5, <1>8, <2>1
<1>9. QED
  BY <1>4, <1>7, <1>8 DEF Work, GetMetadata, ChunkInsert, GetChunks, GetPrior, ExtractEvents,
     StoreNothing, StoreBegin, StoreCommit, ResolveRead, ResolveUpdate, tables

\* Nothing else writes the status, and the execution closes right after it.
LEMMA StatusStep ==
    ASSUME IInv, PresenceInv, LoneWorker, StatusInv, CrashOnly, [Next]_vars
    PROVE  StatusInv'
<1> SUFFICES ASSUME doc'.present PROVE StatusInv'
  BY DEF StatusInv
<1>1. TypeOK /\ slot \in [Slots -> Attempt] /\ wf \in Execution
  BY DEF IInv, TypeOK
<1>2. ASSUME UNCHANGED doc,
             \A t \in Slots : slot'[t] = slot[t] \/ slot'[t].act = "idle" \/ slot'[t].step = "run",
             wf'.stage = "completed" => doc.status = "processed",
             wf'.stage \in {"failed", "wedged"} => doc.status = "failed",
             doc.status = "processed" => wf'.stage \in {"set_processed", "completed"}
      PROVE  StatusInv'
  BY <1>2 DEF StatusInv, At
<1>3. CASE Submit
  <2>1. wf.stage = "unstarted" /\ ~erased /\ UNCHANGED <<wf, slot>>
    BY <1>3 DEF Submit, IInv, DeleteInv, temporal
  <2>2. \A t \in Slots : slot[t].act = "idle"
    BY <1>1, <2>1 DEF LoneWorker, IInv, LiveInv, Activities, SetStages
  <2>3. doc'.status = "pending"
    BY <1>3 DEF Submit
  <2>4. QED  BY <2>1, <2>2, <2>3 DEF StatusInv, At
<1>4. ASSUME NEW s \in Slots, Report(s) PROVE StatusInv'
  <2>1. UNCHANGED <<doc, chunks>> /\ slot[s].act # "idle" /\ slot[s].step = "done"
        /\ slot[s].act = wf.stage /\ wf.stage \in Activities
    BY <1>4 DEF Report, tables, IInv, LiveInv
  <2>2. \A t \in Slots : slot'[t] = slot[t] \/ slot'[t].act = "idle"
    BY <1>1, <1>4 DEF Report, IdleSlot
  <2>3. wf'.stage = "completed" => doc.status = "processed"
    BY <1>4, <2>1, ReportTo DEF StatusInv, At
  <2>4. wf'.stage \in {"failed", "wedged"} => doc.status = "failed"
    BY <1>4, <2>1, ReportTo DEF StatusInv, At
  <2>5. doc.status = "processed" => wf'.stage \in {"set_processed", "completed"}
    BY <1>4, <2>1, ReportTo DEF StatusInv, Activities, SetStages
  <2>6. QED  BY <1>2, <2>1, <2>2, <2>3, <2>4, <2>5
<1>5. CASE Timeout
  <2>1. UNCHANGED <<doc, slot>> /\ wf.stage \in Activities
    BY <1>5 DEF Timeout, tables, IInv, LiveInv
  <2>2. wf' = wf \/ (wf.stage \in Limited /\ wf'.stage = "set_failed")
    BY <1>1, <1>5, RetryTo DEF Timeout
  <2>3. QED  BY <1>2, <2>1, <2>2 DEF StatusInv, Limited
<1>6. ASSUME NEW s \in Slots, Claim(s) PROVE StatusInv'
  <2>1. UNCHANGED <<doc, wf>>
    BY <1>6 DEF Claim, tables
  <2>2. \A t \in Slots : slot'[t] = slot[t] \/ slot'[t].step = "run"
    BY <1>1, <1>6, ClaimPlace
  <2>3. QED  BY <1>2, <2>1, <2>2 DEF StatusInv
<1>7. ASSUME NEW s \in Slots, Discard(s) \/ CancelLate(s) \/ Crash PROVE StatusInv'
  <2>1. UNCHANGED <<doc, wf>>
    BY <1>7 DEF Discard, CancelLate, Crash, tables, temporal
  <2>2. \A t \in Slots : slot'[t] = slot[t] \/ slot'[t].act = "idle"
    BY <1>1, <1>7 DEF Discard, CancelLate, Crash, IdleSlot
  <2>3. QED  BY <1>2, <2>1, <2>2 DEF StatusInv
<1>8. CASE StartWorkflow
  <2>1. UNCHANGED <<doc, slot>> /\ wf.stage = "unstarted" /\ wf'.stage = "set_processing"
    BY <1>1, <1>8 DEF StartWorkflow, Goto, tables, IInv, DeleteInv, Execution
  <2>2. QED  BY <1>2, <2>1 DEF StatusInv
<1>9. CASE Terminate \/ DeleteDocument
  BY <1>9 DEF Terminate, DeleteDocument, PresenceInv, tables, Absent
<1>10. CASE UNCHANGED <<doc, wf, slot>>
  BY <1>2, <1>10 DEF StatusInv
<1>11. QED
  BY <1>3, <1>4, <1>5, <1>6, <1>7, <1>8, <1>9, <1>10, StatusWork, CrashOnlySteps, SlotsAssumption
     DEF Next, Deletion, LoseStart, DeleteFind, DeleteChunks, DeleteLinks, DeleteEvents,
         tables, temporal, vars
-----------------------------------------------------------------------------
(* Worker crashes only: the chunks of one attempt, all of them or none.    *)

\* A complete set of chunk rows has as many rows as there are chunks, and one
\* for each.
LEMMA ChunkedCount ==
    ASSUME Chunked
    PROVE  /\ Cardinality(chunks) = NumChunks
           /\ \A c \in Idx : RowsOf(c, chunks) # {}
<1>1. PICK n : chunks = (0 .. NumChunks - 1) \X {n}
  BY DEF Chunked, ChunkedUpTo
<1>2. /\ IsFiniteSet(0 .. NumChunks - 1) /\ Cardinality(0 .. NumChunks - 1) = NumChunks
  <2>1. NumChunks \in Int /\ NumChunks - 1 \in Int /\ 0 \in Int /\ ~(0 > NumChunks - 1)
        /\ NumChunks - 1 - 0 + 1 = NumChunks
    BY NumChunksAssumption
  <2>2. QED  BY <2>1, FS_Interval
<1>3. IsFiniteSet({n}) /\ Cardinality({n}) = 1
  BY FS_Singleton
<1>4. Cardinality(chunks) = NumChunks * 1
  <2>1. Cardinality((0 .. NumChunks - 1) \X {n}) = Cardinality(0 .. NumChunks - 1) * Cardinality({n})
    BY <1>2, <1>3, FS_Product, Zenon
  <2>2. QED  BY <1>1, <1>2, <1>3, <2>1, Zenon
<1>5. ASSUME NEW c \in Idx PROVE RowsOf(c, chunks) # {}
  <2>1. <<c, n>> \in chunks /\ <<c, n>>[1] = c
    BY <1>1 DEF Idx
  <2>2. QED  BY <2>1 DEF RowsOf
<1>6. QED  BY <1>4, <1>5, NumChunksAssumption

\* One INSERT after the other extends the rows of the attempt by one chunk.
LEMMA ChunkedNext ==
    ASSUME NEW k \in Nat, NEW n, ChunkedUpTo(k, n), chunks' = chunks \cup {<<k, n>>}
    PROVE  ChunkedUpTo(k + 1, n)'
<1>1. 0 .. (k + 1) - 1 = (0 .. k - 1) \cup {k}
  OBVIOUS
<1>2. ((0 .. k - 1) \cup {k}) \X {n} = ((0 .. k - 1) \X {n}) \cup {<<k, n>>}
  OBVIOUS
<1>3. QED  BY <1>1, <1>2 DEF ChunkedUpTo

\* The statements of the activities, while nobody works beside them.
LEMMA ChunksWork ==
    ASSUME IInv, PresenceInv, LoneWorker, ChunksInv, NEW s \in Slots, Work(s)
    PROVE  ChunksInv'
<1> SUFFICES ASSUME Readable PROVE ChunksInv'
  BY WorkPlace DEF ChunksInv, Readable, IInv
<1> DEFINE a == slot[s]
<1>1. /\ TypeOK /\ a \in Attempt /\ a.k \in Nat /\ doc \in DocumentRow /\ slot \in [Slots -> Attempt]
      /\ a.act \in Activities /\ a.act # "idle"
  BY WorkPlace DEF IInv, TypeOK, Attempt, Activities, SetStages
<1>2. doc.present /\ source # "unreadable"
  BY <1>1, WorkersPresent DEF Readable
<1>3. /\ UNCHANGED wf /\ slot'[s].act = a.act /\ slot'[s].n = a.n
      /\ \A t \in Slots \ {s} : slot'[t].act = "idle"
      /\ a.act = wf.stage
  BY <1>1, <1>2, WorkPlace, Alone
<1>4. doc.text => doc'.text
  BY <1>1, RowStays
<1> DEFINE Own ==
      /\ At(s, "get_metadata", "done") /\ slot[s].res # "no_text" => doc.text
      /\ At(s, "extract_text", "done") => doc.text
      /\ At(s, "chunk", "run") => slot[s].k = 0
      /\ At(s, "chunk", "work") =>
            slot[s].k <= NumChunks /\ ChunkedUpTo(slot[s].k, slot[s].n)
      /\ At(s, "chunk", "done") => Chunked
      /\ At(s, "get_chunks", "done") => slot[s].k = NumChunks
<1>5. ASSUME Own', wf.stage = "chunk" \/ UNCHANGED chunks
      PROVE  ChunksInv'
  <2>1. \A t \in Slots \ {s} : \A act \in Activities : \A step : ~At(t, act, step)'
    BY <1>3 DEF At, Activities, SetStages
  <2>2. wf.stage \in Cutting => doc'.text
    BY <1>4 DEF ChunksInv
  <2>3. wf.stage \in Cutting \ {"chunk"} => Chunked'
    BY <1>5 DEF ChunksInv, Chunked, ChunkedUpTo
  <2>4. wf.stage \in LoopStages \cup Closing => wf.n = NumChunks
    BY DEF ChunksInv
  <2>5. QED
    BY <1>3, <1>5, <2>1, <2>2, <2>3, <2>4 DEF ChunksInv, At
<1>6. CASE ChunkDelete(s)
  <2>1. a.act = "chunk" /\ a.k = 0 /\ doc.text
    BY <1>3, <1>6 DEF ChunkDelete, At, ChunksInv, Cutting
  <2>2. chunks' = {} /\ slot' = [slot EXCEPT ![s].step = "work"]
    BY <1>2, <1>6, <2>1 DEF ChunkDelete
  <2>3. slot'[s].step = "work" /\ slot'[s].k = 0
    BY <1>1, <2>1, <2>2 DEF Attempt
  <2>4. ChunkedUpTo(slot[s].k, slot[s].n)'
    <3>1. 0 .. 0 - 1 = {}
      OBVIOUS
    <3>2. QED  BY <2>2, <2>3, <3>1 DEF ChunkedUpTo
  <2>5. Own'
    BY <1>3, <2>1, <2>3, <2>4, NumChunksAssumption DEF At
  <2>6. QED  BY <1>3, <1>5, <2>1, <2>5
<1>7. CASE ChunkInsert(s)
  <2>1. a.act = "chunk" /\ a.step = "work" /\ a.k < NumChunks /\ ChunkedUpTo(a.k, a.n)
    BY <1>7 DEF ChunkInsert, At, ChunksInv
  <2>2. chunks' = chunks \cup {<<a.k, a.n>>} /\ slot' = [slot EXCEPT ![s].k = a.k + 1]
    BY <1>2, <1>7 DEF ChunkInsert
  <2>3. slot'[s].step = "work" /\ slot'[s].k = a.k + 1
    BY <1>1, <2>1, <2>2 DEF Attempt
  <2>4. ChunkedUpTo(slot[s].k, slot[s].n)'
    BY <1>1, <1>3, <2>1, <2>2, <2>3, ChunkedNext DEF ChunkedUpTo
  <2>5. Own'
    BY <1>1, <1>3, <2>1, <2>3, <2>4, NumChunksAssumption DEF At
  <2>6. QED  BY <1>3, <1>5, <2>1, <2>5
<1>8. CASE ChunkMark(s)
  <2>1. a.act = "chunk" /\ ChunkedUpTo(NumChunks, a.n)
    BY <1>8 DEF ChunkMark, At, ChunksInv
  <2>2. <<0, a.n>> \in chunks /\ <<0, a.n>>[2] = a.n
    BY <2>1, NumChunksAssumption DEF ChunkedUpTo
  <2>3. UNCHANGED chunks /\ slot'[s].step = "done"
    BY <1>1, <1>8, ReturnKeeps DEF ChunkMark
  <2>4. Chunked'
    BY <2>1, <2>2, <2>3 DEF Chunked, ChunkedUpTo
  <2>5. QED  BY <1>3, <1>5, <2>1, <2>3, <2>4 DEF At
<1>9. CASE GetMetadata(s)
  <2>1. UNCHANGED <<doc, chunks>> /\ a.act = "get_metadata"
        /\ Return(s, IF ~doc.present THEN "error" ELSE IF doc.text THEN "ok" ELSE "no_text")
    BY <1>9 DEF GetMetadata, At, tables
  <2>2. slot'[s].res # "no_text" => doc.text
    BY <1>1, <1>2, <2>1, ReturnKeeps
  <2>3. QED  BY <1>3, <1>5, <2>1, <2>2 DEF At
<1>10. CASE ExtractText(s)
  <2>1. UNCHANGED chunks /\ a.act = "extract_text"
        /\ doc' = [doc EXCEPT !.text = TRUE, !.status = "extracting_text"]
    BY <1>2, <1>10 DEF ExtractText, At
  <2>2. doc'.text
    BY <1>1, <2>1 DEF DocumentRow
  <2>3. QED  BY <1>3, <1>5, <2>1, <2>2 DEF At
<1>11. CASE GetChunks(s)
  <2>1. UNCHANGED chunks /\ a.act = "get_chunks"
        /\ slot' = [slot EXCEPT ![s].step = "done", ![s].k = Cardinality(chunks)]
    BY <1>11 DEF GetChunks, At, tables
  <2>2. Cardinality(chunks) = NumChunks
    BY <1>3, <2>1, ChunkedCount DEF ChunksInv, Cutting
  <2>3. slot'[s].k = NumChunks
    BY <1>1, <2>1, <2>2 DEF Attempt
  <2>4. QED  BY <1>3, <1>5, <2>1, <2>3 DEF At
<1>12. CASE \/ UpdateStatus(s) \/ GetPrior(s) \/ ExtractEvents(s) \/ StoreNothing(s) \/ StoreBegin(s)
            \/ StoreCommit(s) \/ ResolveRead(s) \/ ResolveUpdate(s)
  <2>1. UNCHANGED chunks /\ a.act \notin {"get_metadata", "extract_text", "chunk", "get_chunks"}
    BY <1>12 DEF UpdateStatus, GetPrior, ExtractEvents, StoreNothing, StoreBegin, StoreCommit,
       ResolveRead, ResolveUpdate, At, SetStages, tables
  <2>2. QED  BY <1>3, <1>5, <2>1 DEF At
<1>13. QED
  BY <1>6, <1>7, <1>8, <1>9, <1>10, <1>11, <1>12 DEF Work
-----------------------------------------------------------------------------
(* Worker crashes only: one batch per chunk, all its quotations resolved.  *)

\* A store replaces the batch that is there, since nobody stores beside it.
LEMMA BatchWork ==
    ASSUME IInv, LinkInv, PresenceInv, LoneWorker, BatchInv, NEW s \in Slots, Work(s)
    PROVE  BatchInv'
<1> SUFFICES ASSUME ~erased PROVE BatchInv'
  BY WorkPlace DEF BatchInv, IInv
<1> DEFINE a == slot[s]
<1>1. /\ TypeOK /\ a \in Attempt /\ slot \in [Slots -> Attempt]
      /\ a.act \in Activities /\ a.act # "idle"
  BY WorkPlace DEF IInv, TypeOK, Activities, SetStages
<1>2. doc.present /\ linked = events
  BY <1>1, WorkersPresent DEF LinkInv
<1>3. /\ slot'[s].act = a.act /\ slot'[s].i = a.i
      /\ \A t \in Slots \ {s} : slot'[t].act = "idle"
  BY <1>1, <1>2, WorkPlace, Alone
<1>4. ASSUME AtMostOneBatch', At(s, "store_events", "work")' => slot'[s].seen = RowsOf(a.i, linked')
      PROVE  BatchInv'
  BY <1>3, <1>4 DEF BatchInv, At, RowsOf
<1>5. CASE StoreCommit(s)
  <2> DEFINE new == <<a.i, a.n>>
  <2>1. a.seen = RowsOf(a.i, events) /\ AtMostOneBatch
    BY <1>2, <1>5 DEF StoreCommit, BatchInv
  <2>2. events' = (events \ a.seen) \cup {new} /\ new[1] = a.i
    BY <1>2, <1>5 DEF StoreCommit
  <2>3. ASSUME NEW c \in Idx, NEW e \in RowsOf(c, events'), NEW f \in RowsOf(c, events')
        PROVE  e = f
    <3>1. CASE c = a.i
      BY <2>1, <2>2, <3>1 DEF RowsOf
    <3>2. CASE c # a.i
      <4>1. e \in RowsOf(c, events) /\ f \in RowsOf(c, events)
        BY <2>2, <3>2 DEF RowsOf
      <4>2. QED  BY <2>1, <4>1 DEF AtMostOneBatch
    <3>3. QED  BY <3>1, <3>2
  <2>4. AtMostOneBatch'
    BY <2>3 DEF AtMostOneBatch, RowsOf
  <2>5. slot'[s].step = "done"
    BY <1>1, <1>2, <1>5, ReturnKeeps DEF StoreCommit
  <2>6. QED  BY <1>4, <2>4, <2>5 DEF At
<1>6. CASE ~StoreCommit(s)
  <2>1. UNCHANGED <<events, linked>>
    BY <1>6, StoreNothingKeeps DEF Work, UpdateStatus, GetMetadata, ExtractText, ChunkDelete,
       ChunkInsert, ChunkMark, GetChunks, GetPrior, ExtractEvents, StoreBegin,
       ResolveRead, ResolveUpdate, tables
  <2>2. AtMostOneBatch'
    BY <2>1 DEF BatchInv, AtMostOneBatch, RowsOf
  <2>3. CASE StoreBegin(s)
    <3>1. slot' = [slot EXCEPT ![s].step = "work", ![s].seen = RowsOf(a.i, linked)]
      BY <2>3 DEF StoreBegin
    <3>2. slot'[s].seen = RowsOf(a.i, linked)
      BY <1>1, <3>1 DEF Attempt
    <3>3. QED  BY <1>4, <2>1, <2>2, <3>2
  <2>4. CASE StoreNothing(s)
    <3>1. slot'[s].step = "done"
      BY <1>1, <2>4, ReturnKeeps DEF StoreNothing
    <3>2. QED  BY <1>4, <2>2, <3>1 DEF At
  <2>5. CASE ~StoreBegin(s) /\ ~StoreNothing(s)
    <3>1. a.act # "store_events"
      BY <1>6, <2>5 DEF Work, UpdateStatus, GetMetadata, ExtractText, ChunkDelete, ChunkInsert,
         ChunkMark, GetChunks, GetPrior, ExtractEvents, ResolveRead, ResolveUpdate, At, SetStages
    <3>2. QED  BY <1>3, <1>4, <2>2, <3>1 DEF At
  <2>6. QED  BY <2>3, <2>4, <2>5
<1>7. QED  BY <1>5, <1>6

\* resolve_references reads all batches, whose chunk rows are all there, and
\* updates them one by one, while nobody stores.
LEMMA ResolveWork ==
    ASSUME IInv, BaseInv, LoneWorker, ChunksInv, ResolveInv, NEW s \in Slots, Work(s)
    PROVE  ResolveInv'
<1> SUFFICES ASSUME ~erased PROVE ResolveInv'
  BY WorkPlace DEF ResolveInv, IInv
<1> DEFINE a == slot[s]
<1>1. /\ TypeOK /\ a \in Attempt /\ slot \in [Slots -> Attempt]
      /\ a.act \in Activities /\ a.act # "idle"
  BY WorkPlace DEF IInv, TypeOK, Activities, SetStages
<1>2. doc.present /\ linked = events /\ resolved \subseteq Quotations(linked) /\ linked \in SUBSET Row
  BY <1>1, WorkersPresent DEF BaseInv, LinkInv, IInv, RowInv, TypeOK
<1>3. /\ UNCHANGED wf /\ slot'[s].act = a.act
      /\ \A t \in Slots \ {s} : slot'[t].act = "idle"
      /\ a.act = wf.stage
  BY <1>1, <1>2, WorkPlace, Alone
<1>4. ASSUME a.act = "resolve_refs", UNCHANGED <<events, linked>>,
             At(s, "resolve_refs", "work")' => Quotations(linked) \ slot'[s].todo \subseteq resolved',
             At(s, "resolve_refs", "done")' => resolved' = Quotations(events)
      PROVE  ResolveInv'
  BY <1>3, <1>4 DEF ResolveInv, At
<1>5. CASE ResolveRead(s)
  <2>1. /\ UNCHANGED <<events, linked, resolved>> /\ a.act = "resolve_refs"
        /\ slot' = [slot EXCEPT ![s].step = "work",
                                ![s].todo = {t \in Quotations(linked) : RowsOf(t[1], chunks) # {}}]
    BY <1>5 DEF ResolveRead, At, tables
  <2>2. slot'[s].step = "work" /\ slot'[s].todo = {t \in Quotations(linked) : RowsOf(t[1], chunks) # {}}
    BY <1>1, <2>1 DEF Attempt
  <2>3. ASSUME NEW t \in Quotations(linked) PROVE RowsOf(t[1], chunks) # {}
    <3>1. PICK e \in linked : e[1] = t[1]
      BY <2>3 DEF Quotations
    <3>2. e \in Row /\ answers[e[1]] = "events" /\ e[1] \in Idx
      BY <1>2, <3>1 DEF IInv, RowInv, Row
    <3>3. source # "unreadable"
      BY <3>2 DEF BaseInv, UnreadableInv
    <3>4. Chunked
      BY <1>3, <2>1, <3>3 DEF ChunksInv, Readable, Cutting, Closing
    <3>5. QED  BY <3>1, <3>2, <3>4, ChunkedCount
  <2>4. Quotations(linked) \ slot'[s].todo = {}
    BY <2>2, <2>3
  <2>5. QED  BY <1>4, <2>1, <2>2, <2>4 DEF At
<1>6. CASE ResolveUpdate(s)
  <2>1. /\ UNCHANGED <<events, linked>> /\ a.act = "resolve_refs"
        /\ Quotations(linked) \ a.todo \subseteq resolved
    BY <1>6 DEF ResolveUpdate, At, ResolveInv
  <2>2. CASE a.todo = {} /\ Return(s, "ok") /\ UNCHANGED resolved
    <3>1. slot'[s].step = "done" /\ resolved' = Quotations(events)
      BY <1>1, <1>2, <2>1, <2>2, ReturnKeeps
    <3>2. QED  BY <1>4, <2>1, <3>1 DEF At
  <2>3. ASSUME NEW t \in a.todo, resolved' = resolved \cup ({t} \cap Quotations(linked)),
               slot' = [slot EXCEPT ![s].todo = @ \ {t}]
        PROVE  ResolveInv'
    <3>1. slot'[s].todo = a.todo \ {t} /\ slot'[s].step = "work"
      BY <1>1, <1>6, <2>3 DEF ResolveUpdate, At, Attempt
    <3>2. Quotations(linked) \ slot'[s].todo \subseteq resolved'
      BY <2>1, <2>3, <3>1
    <3>3. QED  BY <1>4, <2>1, <3>1, <3>2 DEF At
  <2>4. QED  BY <1>6, <2>2, <2>3 DEF ResolveUpdate
<1>7. CASE ~ResolveRead(s) /\ ~ResolveUpdate(s)
  <2>1. a.act # "resolve_refs"
    BY <1>7 DEF Work, UpdateStatus, GetMetadata, ExtractText, ChunkDelete, ChunkInsert, ChunkMark,
       GetChunks, GetPrior, ExtractEvents, StoreNothing, StoreBegin, StoreCommit, At, SetStages
  <2>2. UNCHANGED <<events, resolved>> \/ a.act = "store_events"
    BY <1>7 DEF Work, UpdateStatus, GetMetadata, ExtractText, ChunkDelete, ChunkInsert, ChunkMark,
       GetChunks, GetPrior, ExtractEvents, StoreNothing, StoreBegin, StoreCommit, At, tables
  <2>3. wf.stage \in {"set_processed", "completed"} => resolved' = Quotations(events')
    BY <1>3, <2>2 DEF ResolveInv
  <2>4. QED  BY <1>3, <2>1, <2>3 DEF ResolveInv, At
<1>8. QED  BY <1>5, <1>6, <1>7
-----------------------------------------------------------------------------
(* Worker crashes only: the server, the workflow and the two handlers.     *)

\* Slots that are as they were, idle or newly claimed carry nothing new; what
\* has to be shown is that the workflow moves on with what it relies on.
LEMMA Carried ==
    ASSUME ChunksInv, BatchInv, ResolveInv,
           UNCHANGED <<source, doc, chunks, events, linked, resolved>>,
           erased => erased',
           \A t \in Slots : \/ slot'[t] = slot[t]
                            \/ slot'[t].act = "idle"
                            \/ slot'[t].step = "run" /\ slot'[t].k = 0,
           Readable => /\ wf'.stage \in Cutting => doc.text
                       /\ wf'.stage \in Cutting \ {"chunk"} => Chunked
                       /\ wf'.stage \in LoopStages \cup Closing => wf'.n = NumChunks,
           ~erased => (wf'.stage \in {"set_processed", "completed"} => resolved = Quotations(events))
    PROVE  ChunksInv' /\ BatchInv' /\ ResolveInv'
<1>1. ASSUME NEW t \in Slots, NEW act \in Activities, NEW step \in {"work", "done"}, At(t, act, step)'
      PROVE  slot'[t] = slot[t] /\ At(t, act, step)
  BY <1>1 DEF At, Activities, SetStages
<1>2. Readable' => Readable
  BY DEF Readable
<1>3. Chunked' = Chunked /\ \A k, n : ChunkedUpTo(k, n)' = ChunkedUpTo(k, n)
  BY DEF Chunked, ChunkedUpTo
<1>4. ChunksInv'
  <2> SUFFICES ASSUME Readable' PROVE ChunksInv'
    BY DEF ChunksInv
  <2>1. ASSUME NEW t \in Slots
        PROVE  /\ At(t, "get_metadata", "done")' /\ slot'[t].res # "no_text" => doc'.text
               /\ At(t, "extract_text", "done")' => doc'.text
               /\ At(t, "chunk", "work")' =>
                     slot'[t].k <= NumChunks /\ ChunkedUpTo(slot'[t].k, slot'[t].n)
               /\ At(t, "chunk", "done")' => Chunked'
               /\ At(t, "get_chunks", "done")' => slot'[t].k = NumChunks
    BY <1>1, <1>2, <1>3 DEF ChunksInv, Activities, SetStages
  <2>2. ASSUME NEW t \in Slots, At(t, "chunk", "run")' PROVE slot'[t].k = 0
    BY <1>2, <2>2 DEF ChunksInv, At
  <2>3. QED  BY <1>2, <1>3, <2>1, <2>2 DEF ChunksInv
<1>5. BatchInv'
  BY <1>1 DEF BatchInv, AtMostOneBatch, RowsOf, Activities
<1>6. ResolveInv'
  BY <1>1 DEF ResolveInv, Activities
<1>7. QED  BY <1>4, <1>5, <1>6

\* What an attempt reports is what the next stage relies on: a text before the
\* cut, all chunks before the loop, all references resolved before "processed".
LEMMA ReportCarries ==
    ASSUME IInv, BaseInv, CrashInv, NEW s \in Slots, Report(s)
    PROVE  ChunksInv' /\ BatchInv' /\ ResolveInv'
<1> DEFINE a == slot[s]
<1>1. /\ a.act = wf.stage /\ a.step = "done" /\ slot \in [Slots -> Attempt]
      /\ wf.stage \in Activities
  BY DEF Report, IInv, LiveInv, TypeOK
<1>2. UNCHANGED <<source, chunks, events, linked, resolved, doc, erased>>
  BY DEF Report, tables, api
<1>3. \A t \in Slots : slot'[t] = slot[t] \/ slot'[t].act = "idle"
  BY <1>1 DEF Report, IdleSlot
<1>4. ASSUME Readable
      PROVE  /\ wf'.stage \in Cutting => doc.text
             /\ wf'.stage \in Cutting \ {"chunk"} => Chunked
             /\ wf'.stage \in LoopStages \cup Closing => wf'.n = NumChunks
  <2>1. wf'.stage \in Cutting => doc.text
    BY <1>1, <1>4, ReportTo DEF CrashInv, ChunksInv, At
  <2>2. wf'.stage \in Cutting \ {"chunk"} => Chunked
    BY <1>1, <1>4, ReportTo DEF CrashInv, ChunksInv, At
  <2>3. wf'.stage \in LoopStages \cup Closing => wf'.n = NumChunks
    BY <1>1, <1>4, ReportTo DEF CrashInv, ChunksInv, At
  <2>4. QED  BY <2>1, <2>2, <2>3
<1>5. ~erased => (wf'.stage \in {"set_processed", "completed"} => resolved = Quotations(events))
  BY <1>1, ReportTo DEF CrashInv, ResolveInv, At
<1>6. QED  BY <1>2, <1>3, <1>4, <1>5, Carried DEF CrashInv

\* Everybody else: the submit, a retry, a crash, a delete request.
LEMMA OthersCarry ==
    ASSUME IInv, BaseInv, CrashInv, NEW s \in Slots,
           \/ Submit \/ StartWorkflow \/ LoseStart \/ Claim(s) \/ Discard(s) \/ CancelLate(s)
           \/ Timeout \/ Crash \/ DeleteFind \/ DeleteChunks \/ DeleteLinks \/ DeleteEvents
           \/ DeleteDocument \/ Terminate \/ UNCHANGED vars
    PROVE  ChunksInv' /\ BatchInv' /\ ResolveInv'
<1>1. TypeOK /\ slot \in [Slots -> Attempt] /\ wf \in Execution
  BY DEF IInv, TypeOK
<1>2. ASSUME UNCHANGED <<tables, source, erased>>,
             wf' = wf \/ wf'.stage \notin Cutting,
             \A t \in Slots : \/ slot'[t] = slot[t]
                              \/ slot'[t].act = "idle"
                              \/ slot'[t].step = "run" /\ slot'[t].k = 0
      PROVE  ChunksInv' /\ BatchInv' /\ ResolveInv'
  <2>1. UNCHANGED <<source, chunks, events, linked, resolved, doc, erased>>
    BY <1>2 DEF tables
  <2>2. ASSUME Readable
        PROVE  /\ wf'.stage \in Cutting => doc.text
               /\ wf'.stage \in Cutting \ {"chunk"} => Chunked
               /\ wf'.stage \in LoopStages \cup Closing => wf'.n = NumChunks
    BY <1>2, <2>2 DEF CrashInv, ChunksInv, Cutting
  <2>3. ~erased => (wf'.stage \in {"set_processed", "completed"} => resolved = Quotations(events))
    BY <1>2 DEF CrashInv, ResolveInv, Cutting, Closing
  <2>4. QED  BY <1>2, <2>1, <2>2, <2>3, Carried DEF CrashInv
<1>3. ASSUME erased' PROVE ChunksInv' /\ BatchInv' /\ ResolveInv'
  BY <1>3 DEF ChunksInv, BatchInv, ResolveInv, Readable
<1>4. CASE Submit
  <2>1. wf.stage = "unstarted" /\ ~erased /\ UNCHANGED <<wf, slot, chunks, events, linked, resolved, erased>>
    BY <1>4 DEF Submit, IInv, DeleteInv, temporal
  <2>2. \A t \in Slots : slot[t].act = "idle"
    BY <1>1, <2>1 DEF CrashInv, LoneWorker, IInv, LiveInv, Activities, SetStages
  <2>3. ~doc.present /\ events = {}
    BY <1>4 DEF Submit, IInv, DeleteInv, RowInv, NoOrphans
  <2>4. ChunksInv' /\ ResolveInv'
    BY <2>1, <2>2 DEF ChunksInv, ResolveInv, Cutting, LoopStages, Closing, At
  <2>5. BatchInv'
    BY <2>1, <2>2, <2>3 DEF BatchInv, AtMostOneBatch, RowsOf, At
  <2>6. QED  BY <2>4, <2>5
<1>5. CASE StartWorkflow
  <2>1. UNCHANGED <<tables, source, erased, slot>> /\ wf'.stage = "set_processing"
    BY <1>1, <1>5 DEF StartWorkflow, Goto, Execution
  <2>2. QED  BY <1>2, <2>1 DEF Cutting, LoopStages, Closing
<1>6. CASE LoseStart \/ DeleteFind \/ UNCHANGED vars
  BY <1>2, <1>6 DEF LoseStart, DeleteFind, temporal, vars, tables
<1>7. CASE Claim(s)
  BY <1>1, <1>2, <1>7, ClaimPlace DEF Claim, api
<1>8. CASE Discard(s) \/ CancelLate(s) \/ Crash
  <2>1. \A t \in Slots : slot'[t] = slot[t] \/ slot'[t].act = "idle"
    BY <1>1, <1>8 DEF Discard, CancelLate, Crash, IdleSlot
  <2>2. QED  BY <1>2, <1>8, <2>1 DEF Discard, CancelLate, Crash, temporal, api
<1>9. CASE Timeout
  <2>1. wf' = wf \/ wf'.stage = "set_failed"
    BY <1>1, <1>9, RetryTo DEF Timeout
  <2>2. QED  BY <1>2, <1>9, <2>1 DEF Timeout, api, Cutting, LoopStages, Closing
<1>10. CASE DeleteChunks \/ DeleteLinks \/ DeleteEvents \/ DeleteDocument
  <2>1. erased'
    BY <1>10 DEF DeleteChunks, DeleteLinks, DeleteEvents, DeleteDocument, IInv, DeleteInv
  <2>2. QED  BY <1>3, <2>1
<1>11. CASE Terminate
  <2>1. erased'
    BY <1>11 DEF Terminate, BaseInv, PresenceInv
  <2>2. QED  BY <1>3, <2>1
<1>12. QED
  BY <1>4, <1>5, <1>6, <1>7, <1>8, <1>9, <1>10, <1>11

\* The invariant of executions hit by worker crashes only.
LEMMA CrashStep ==
    ASSUME IInv, BaseInv, CrashInv, CrashOnly, [Next]_vars
    PROVE  CrashInv'
<1>1. LoneWorker' /\ StatusInv'
  BY LoneStep, StatusStep DEF CrashInv, BaseInv
<1>2. ASSUME NEW s \in Slots, Work(s) PROVE ChunksInv' /\ BatchInv' /\ ResolveInv'
  BY <1>2, ChunksWork, BatchWork, ResolveWork DEF CrashInv, BaseInv
<1>3. ChunksInv' /\ BatchInv' /\ ResolveInv'
  BY <1>2, ReportCarries, OthersCarry, CrashOnlySteps, SlotsAssumption DEF Next, Deletion
<1>4. QED  BY <1>1, <1>3 DEF CrashInv

\* With worker crashes only, it holds in every reachable state.
THEOREM CrashSafe == Spec => [](IInv /\ BaseInv /\ (CrashOnly => CrashInv))
<1>1. Init => CrashInv
  BY NumChunksAssumption DEF Init, CrashInv, LoneWorker, StatusInv, ChunksInv, BatchInv, ResolveInv,
     AtMostOneBatch, RowsOf, Absent, IdleSlot, At, Cutting, LoopStages, Closing
<1>2. IInv /\ BaseInv /\ (CrashOnly => CrashInv) /\ [Next]_vars => (CrashOnly => CrashInv)'
  BY CrashStep DEF CrashOnly
<1>3. QED  BY <1>1, <1>2, Invariance, BaseInvariance, PTL DEF Spec

\* "No duplicates" (README.md:65): an attempt of store_events that commits and
\* dies before it reports is repeated, and its batch replaced.
THEOREM CrashMakesNoDuplicatesTheorem == Spec => []CrashMakesNoDuplicates
<1>1. (CrashOnly => CrashInv) => CrashMakesNoDuplicates
  BY DEF CrashInv, BatchInv, CrashMakesNoDuplicates
<1>2. QED  BY <1>1, CrashSafe, PTL

\* "Resumes from the last completed step" (README.md:65): a crash between the
\* DELETE and the last INSERT of chunk_document costs no chunk its extraction.
THEOREM CrashLosesNoChunkTheorem == Spec => []CrashLosesNoChunk
<1>1. IInv /\ BaseInv /\ (CrashOnly => CrashInv) => CrashLosesNoChunk
  <2> SUFFICES ASSUME IInv, BaseInv, CrashInv, source # "unreadable", ~erased, wf.stage \in Closing
               PROVE  wf.n = NumChunks /\ \A c \in Idx : answers[c] # "unknown"
    BY DEF CrashLosesNoChunk, Closing
  <2>1. wf.n = NumChunks
    BY DEF CrashInv, ChunksInv, Readable
  <2>2. wf.i \in Nat /\ wf.i >= NumChunks
    BY <2>1 DEF BaseInv, LoopInv, IInv, TypeOK, Execution
  <2>3. \A c \in Idx : c < wf.i
    BY <2>2, NumChunksAssumption DEF Idx
  <2>4. QED  BY <2>1, <2>3 DEF BaseInv, LoopInv
<1>2. QED  BY <1>1, CrashSafe, PTL

\* In a processed document the references whose text is in their chunk, and no
\* others, carry document offsets, although a crash may hit between any two
\* UPDATEs of resolve_references.
THEOREM CrashResolvesQuotationsTheorem == Spec => []CrashResolvesQuotations
<1>1. IInv /\ BaseInv /\ (CrashOnly => CrashInv) => CrashResolvesQuotations
  <2> SUFFICES ASSUME IInv, BaseInv, CrashInv, doc.status = "processed", ~erased
               PROVE  resolved = Quotations(events)
    BY DEF CrashResolvesQuotations
  <2>1. CASE doc.present
    BY <2>1 DEF CrashInv, StatusInv, ResolveInv
  <2>2. CASE ~doc.present
    <3>1. events = {} /\ resolved = {}
      BY <2>2 DEF IInv, RowInv, NoOrphans
    <3>2. QED  BY <3>1 DEF Quotations
  <2>3. QED  BY <2>1, <2>2
<1>2. QED  BY <1>1, CrashSafe, PTL

\* The status a client polls agrees with the way the execution closed, also
\* while a delete request is removing the rows.
THEOREM StatusAgreesTheorem == Spec => []StatusAgrees
<1>1. (CrashOnly => CrashInv) => StatusAgrees
  BY DEF CrashInv, StatusInv, StatusAgrees
<1>2. QED  BY <1>1, CrashSafe, PTL

\* A chunk's events change only while the workflow is storing that chunk or a
\* delete request is removing rows: a reader is not shown them twice.
THEOREM EventsStableTheorem == Spec => EventsStable
<1>1. ASSUME IInv, BaseInv, CrashOnly => CrashInv, [Next]_vars, CrashOnly,
             NEW c \in Idx, RowsOf(c, events') # RowsOf(c, events)
      PROVE  (wf.i = c /\ wf.stage = "store_events") \/ del # "idle"
  <2>1. CASE UNCHANGED events
    BY <1>1, <2>1
  <2>2. CASE DeleteLinks \/ DeleteEvents \/ DeleteDocument
    BY <2>2 DEF DeleteLinks, DeleteEvents, DeleteDocument
  <2>3. ASSUME NEW s \in Slots, StoreCommit(s), doc.present
        PROVE  wf.i = c /\ wf.stage = "store_events"
    <3>1. slot[s].act = "store_events"
      BY <2>3 DEF StoreCommit, At
    <3>2. wf.stage = "store_events" /\ wf.i = slot[s].i
      BY <1>1, <2>3, <3>1, Alone DEF CrashInv
    <3>3. \A e \in slot[s].seen : e[1] = slot[s].i
      BY <1>1, <2>3 DEF StoreCommit, At, IInv, StoreInv, StoreAttempt
    <3>4. events' = (events \ slot[s].seen) \cup {<<slot[s].i, slot[s].n>>}
      BY <2>3 DEF StoreCommit
    <3>5. c = slot[s].i
      BY <1>1, <3>3, <3>4 DEF RowsOf
    <3>6. QED  BY <3>2, <3>5
  <2>4. QED  BY <1>1, <2>1, <2>2, <2>3, Writers DEF vars
<1>2. IInv /\ BaseInv /\ (CrashOnly => CrashInv) /\ [Next]_vars
        => [CrashOnly => \A c \in Idx : RowsOf(c, events') # RowsOf(c, events)
               => (wf.i = c /\ wf.stage = "store_events") \/ del # "idle"]_vars
  BY <1>1
<1>3. QED  BY <1>2, CrashSafe, PTL DEF Spec, EventsStable
=============================================================================
