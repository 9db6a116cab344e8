------------------------- MODULE DocPipelineProofs -------------------------
(***************************************************************************)
(* For any number of chunks, any worker slots and any kinds and number of  *)
(* faults: every step leads from a typed state to a typed state; the       *)
(* safety invariants of DocPipeline hold, through the inductive invariant  *)
(* IInv; and DocPipeline implements Publication.                           *)
(***************************************************************************)
EXTENDS DocPipelineInv, FiniteSetTheorems, TLAPS
-----------------------------------------------------------------------------
(* Types.                                                                  *)

\* The idle slot and a freshly claimed one are attempts.
LEMMA IdleSlotType == IdleSlot \in Attempt
BY DEF IdleSlot, Attempt, Result

\* An await moves the execution to a stage and schedules at most one task.
LEMMA GotoType ==
    ASSUME NEW w \in Execution,
           Goto(w)
    PROVE  /\ wf' \in Execution
           /\ task' \in Task
BY DEF Goto, NoTask, Task

\* A retry or the exception after the last attempt keeps execution and task typed.
LEMMA RetryType ==
    ASSUME TypeOK, RetryOrRaise
    PROVE  /\ wf' \in Execution
           /\ task' \in Task
<1>1. CASE Exhausted(wf.stage, task.n)
  <2>1. [wf EXCEPT !.stage = "set_failed", !.cause = "activity"]
           \in Execution
    BY DEF TypeOK, Execution, Stages, Activities, SetStages
  <2>2. QED  BY <1>1, <2>1, GotoType DEF RetryOrRaise, Raise
<1>2. CASE ~Exhausted(wf.stage, task.n)
  BY <1>2 DEF RetryOrRaise, TypeOK, Task
<1>3. QED  BY <1>1, <1>2

\* Writing the status column of the document row keeps the row typed.
LEMMA UpdateDocType ==
    ASSUME TypeOK, NEW st \in Status, NEW e \in BOOLEAN
    PROVE  UpdateDoc(st, e) \in DocumentRow
BY DEF UpdateDoc, TypeOK, DocumentRow

\* An attempt that finishes with a result is still an attempt.
LEMMA ReturnType ==
    ASSUME TypeOK, NEW s \in Slots,
           NEW r \in Result, Return(s, r)
    PROVE  slot' \in [Slots -> Attempt]
<1>1. [slot[s] EXCEPT !.step = "done", !.res = r] \in Attempt
  BY DEF TypeOK, Attempt
<1>2. slot' = [slot EXCEPT ![s] = [slot[s] EXCEPT !.step = "done", !.res = r]]
  BY DEF TypeOK, Return, Attempt
<1>3. QED  BY <1>1, <1>2 DEF TypeOK

\* Statuses written by the workflow satisfy the CHECK constraint.
LEMMA WrittenStatusType == \A stage : WrittenStatus(stage) \in Status
BY DEF WrittenStatus, Status

\* The quotations of rows are references.
LEMMA QuotationsType ==
    ASSUME NEW batches \in SUBSET Row
    PROVE  Quotations(batches) \in SUBSET Reference
BY DEF Quotations, Row, Reference

\* More batches have more quotations.
LEMMA QuotationsGrow ==
    ASSUME NEW A, NEW B, A \subseteq B
    PROVE  Quotations(A) \subseteq Quotations(B)
BY DEF Quotations

\* A quotation of none of the replaced batches is one of a batch that stays.
LEMMA QuotationsLeft ==
    ASSUME NEW A, NEW B
    PROVE  Quotations(A) \ Quotations(B) \subseteq Quotations(A \ B)
BY DEF Quotations

\* Each step of the chunking activity keeps the tables and the attempts typed.
LEMMA ChunkType ==
    ASSUME TypeOK, IsFiniteSet(chunks), NEW s \in Slots,
           ChunkDelete(s) \/ ChunkInsert(s) \/ ChunkMark(s)
    PROVE  TypeOK' /\ IsFiniteSet(chunks')
<1> USE NumChunksAssumption
<1>1. CASE ChunkDelete(s)
  <2>1. Failed \in DocumentRow
    BY UpdateDocType DEF Failed, Status
  <2>2. [slot EXCEPT ![s].step = "work"] \in [Slots -> Attempt]
    BY DEF TypeOK, Attempt
  <2>3. slot' \in [Slots -> Attempt]
    BY <1>1, <2>2, ReturnType DEF ChunkDelete, Result
  <2>4. doc' \in DocumentRow /\ chunks' \in SUBSET Row /\ IsFiniteSet(chunks')
    BY <1>1, <2>1, FS_EmptySet DEF ChunkDelete, TypeOK
  <2>5. QED  BY <1>1, <2>3, <2>4 DEF ChunkDelete, TypeOK, temporal, api
<1>2. CASE ChunkInsert(s)
  <2>1. slot[s].k \in Nat /\ slot[s].n \in Nat /\ slot[s].k < NumChunks
    BY <1>2 DEF ChunkInsert, TypeOK, Attempt
  <2>2. <<slot[s].k, slot[s].n>> \in Row
    BY <2>1 DEF Row, Idx
  <2>3. [slot EXCEPT ![s].k = @ + 1] \in [Slots -> Attempt]
    BY <2>1 DEF TypeOK, Attempt
  <2>4. slot' \in [Slots -> Attempt]
    BY <1>2, <2>3, ReturnType DEF ChunkInsert, Result
  <2>5. IsFiniteSet(chunks \cup {<<slot[s].k, slot[s].n>>})
    BY FS_AddElement
  <2>6. chunks' \in SUBSET Row /\ IsFiniteSet(chunks')
    BY <1>2, <2>2, <2>5 DEF ChunkInsert, TypeOK
  <2>7. QED  BY <1>2, <2>4, <2>6 DEF ChunkInsert, TypeOK, temporal, api
<1>3. CASE ChunkMark(s)
  <2>1. doc' \in DocumentRow
    BY <1>3, UpdateDocType DEF ChunkMark, Status, TypeOK, DocumentRow
  <2>2. slot' \in [Slots -> Attempt]
    BY <1>3, ReturnType DEF ChunkMark, Result
  <2>3. QED  BY <1>3, <2>1, <2>2 DEF ChunkMark, TypeOK, temporal, api
<1>4. QED  BY <1>1, <1>2, <1>3

\* So does each step that writes only the document row or nothing at all.
LEMMA SimpleWorkType ==
    ASSUME TypeOK, IsFiniteSet(chunks), NEW s \in Slots,
           \/ UpdateStatus(s) \/ GetMetadata(s) \/ ExtractText(s)
           \/ GetChunks(s) \/ GetPrior(s) \/ ExtractEvents(s) \/ DbError(s)
    PROVE  TypeOK' /\ IsFiniteSet(chunks')
<1>1. Failed \in DocumentRow
  BY UpdateDocType DEF Failed, Status
<1>2. CASE UpdateStatus(s)
  <2>1. doc' \in DocumentRow
    BY <1>2, UpdateDocType, WrittenStatusType DEF UpdateStatus
  <2>2. slot' \in [Slots -> Attempt]
    BY <1>2, ReturnType DEF UpdateStatus, Result
  <2>3. QED  BY <1>2, <2>1, <2>2 DEF UpdateStatus, TypeOK, temporal, api
<1>3. CASE GetMetadata(s)
  <2>1. slot' \in [Slots -> Attempt]
    BY <1>3, ReturnType DEF GetMetadata, Result
  <2>2. QED  BY <1>3, <2>1 DEF GetMetadata, TypeOK, temporal, api, tables
<1>4. CASE ExtractText(s)
  <2>1. doc' \in DocumentRow
    BY <1>1, <1>4 DEF ExtractText, TypeOK, DocumentRow, Status
  <2>2. slot' \in [Slots -> Attempt]
    BY <1>4, ReturnType DEF ExtractText, Result
  <2>3. QED  BY <1>4, <2>1, <2>2 DEF ExtractText, TypeOK, temporal, api
<1>5. CASE GetChunks(s)
  <2>1. Cardinality(chunks) \in Nat
    BY FS_CardinalityType
  <2>2. [slot EXCEPT ![s].step = "done", ![s].k = Cardinality(chunks)] \in [Slots -> Attempt]
    <3>1. [slot[s] EXCEPT !.step = "done", !.k = Cardinality(chunks)] \in Attempt
      BY <2>1 DEF TypeOK, Attempt
    <3>2. [slot EXCEPT ![s].step = "done", ![s].k = Cardinality(chunks)]
             = [slot EXCEPT ![s] = [slot[s] EXCEPT !.step = "done", !.k = Cardinality(chunks)]]
      BY DEF TypeOK, Attempt
    <3>3. QED  BY <3>1, <3>2 DEF TypeOK
  <2>3. QED  BY <1>5, <2>2 DEF GetChunks, TypeOK, temporal, api, tables
<1>6. CASE GetPrior(s)
  <2>1. slot' \in [Slots -> Attempt]
    BY <1>6, ReturnType DEF GetPrior, Result
  <2>2. QED  BY <1>6, <2>1 DEF GetPrior, TypeOK, temporal, api, tables
<1>7. CASE ExtractEvents(s)
  <2>1. slot' \in [Slots -> Attempt]
    BY <1>7, ReturnType DEF ExtractEvents, Result
  <2>2. QED  BY <1>7, <2>1 DEF ExtractEvents, TypeOK, temporal, api, tables
<1>8. CASE DbError(s)
  <2>1. doc' \in DocumentRow
    BY <1>1, <1>8 DEF DbError, TypeOK
  <2>2. slot' \in [Slots -> Attempt]
    BY <1>8, ReturnType DEF DbError, Result
  <2>3. faults' \in Nat
    BY <1>8 DEF DbError, Spend, TypeOK
  <2>4. QED  BY <1>8, <2>1, <2>2, <2>3 DEF DbError, TypeOK, temporal, api
<1>9. QED  BY <1>2, <1>3, <1>4, <1>5, <1>6, <1>7, <1>8

\* The statements of the two activities that write events and references.
LEMMA StoreResolveType ==
    ASSUME TypeOK, IsFiniteSet(chunks), StoreInv, NEW s \in Slots,
           \/ StoreNothing(s) \/ StoreBegin(s) \/ StoreCommit(s)
           \/ ResolveRead(s) \/ ResolveUpdate(s)
    PROVE  TypeOK' /\ IsFiniteSet(chunks')
<1>1. ASSUME NEW S \in SUBSET Row
      PROVE  /\ [slot EXCEPT ![s].seen = S] \in [Slots -> Attempt]
             /\ [slot EXCEPT ![s].step = "work", ![s].seen = S] \in [Slots -> Attempt]
  <2>1. /\ [slot[s] EXCEPT !.seen = S] \in Attempt
        /\ [slot[s] EXCEPT !.step = "work", !.seen = S] \in Attempt
    BY DEF TypeOK, Attempt
  <2>2. [slot EXCEPT ![s].seen = S] = [slot EXCEPT ![s] = [slot[s] EXCEPT !.seen = S]]
    BY DEF TypeOK, Attempt
  <2>3. [slot EXCEPT ![s].step = "work", ![s].seen = S]
          = [slot EXCEPT ![s] = [slot[s] EXCEPT !.step = "work", !.seen = S]]
    BY DEF TypeOK, Attempt
  <2>4. QED  BY <2>1, <2>2, <2>3 DEF TypeOK
<1>2. CASE StoreNothing(s)
  <2>1. slot' \in [Slots -> Attempt]
    BY <1>2, ReturnType DEF StoreNothing, Result
  <2>2. QED  BY <1>2, <2>1 DEF StoreNothing, TypeOK, temporal, api
<1>3. CASE StoreBegin(s)
  <2>1. RowsOf(slot[s].i, linked) \in SUBSET Row
    BY DEF RowsOf, TypeOK
  <2>2. slot' \in [Slots -> Attempt]
    BY <1>1, <1>3, <2>1 DEF StoreBegin
  <2>3. QED  BY <1>3, <2>2 DEF StoreBegin, TypeOK, temporal, api, tables
<1>4. CASE StoreCommit(s)
  <2>1. slot[s].i \in Idx
    BY <1>4 DEF StoreCommit, At, StoreInv, StoreAttempt
  <2>2. <<slot[s].i, slot[s].n>> \in Row
    BY <2>1 DEF Row, TypeOK, Attempt
  <2>3. slot' \in [Slots -> Attempt]
    BY <1>4, ReturnType DEF StoreCommit, Result
  <2>4. events' \in SUBSET Row /\ linked' \in SUBSET Row /\ resolved' \in SUBSET Reference
    BY <1>4, <2>2 DEF StoreCommit, TypeOK
  <2>5. QED  BY <1>4, <2>3, <2>4 DEF StoreCommit, TypeOK, temporal, api
<1>5. ASSUME NEW S \in SUBSET Reference
      PROVE  /\ [slot EXCEPT ![s].todo = S] \in [Slots -> Attempt]
             /\ [slot EXCEPT ![s].step = "work", ![s].todo = S] \in [Slots -> Attempt]
  <2>1. /\ [slot[s] EXCEPT !.todo = S] \in Attempt
        /\ [slot[s] EXCEPT !.step = "work", !.todo = S] \in Attempt
    BY DEF TypeOK, Attempt
  <2>2. [slot EXCEPT ![s].todo = S] = [slot EXCEPT ![s] = [slot[s] EXCEPT !.todo = S]]
    BY DEF TypeOK, Attempt
  <2>3. [slot EXCEPT ![s].step = "work", ![s].todo = S]
          = [slot EXCEPT ![s] = [slot[s] EXCEPT !.step = "work", !.todo = S]]
    BY DEF TypeOK, Attempt
  <2>4. QED  BY <2>1, <2>2, <2>3 DEF TypeOK
<1>6. CASE ResolveRead(s)
  <2>1. {t \in Quotations(linked) : RowsOf(t[1], chunks) # {}} \in SUBSET Reference
    BY QuotationsType DEF TypeOK
  <2>2. slot' \in [Slots -> Attempt]
    BY <1>5, <1>6, <2>1 DEF ResolveRead
  <2>3. QED  BY <1>6, <2>2 DEF ResolveRead, TypeOK, temporal, api, tables
<1>7. CASE ResolveUpdate(s)
  <2>1. slot[s].todo \in SUBSET Reference
    BY DEF TypeOK, Attempt
  <2>2. \A t : slot[s].todo \ {t} \in SUBSET Reference
    BY <2>1
  <2>3. \A t : [slot EXCEPT ![s].todo = @ \ {t}] \in [Slots -> Attempt]
    BY <1>5, <2>2
  <2>4. slot' \in [Slots -> Attempt]
    BY <1>7, <2>3, ReturnType DEF ResolveUpdate, Result
  <2>5. resolved' \in SUBSET Reference
    BY <1>7, QuotationsType DEF ResolveUpdate, TypeOK
  <2>6. QED  BY <1>7, <2>4, <2>5 DEF ResolveUpdate, TypeOK, temporal, api
<1>8. QED  BY <1>2, <1>3, <1>4, <1>6, <1>7

\* Dispatching a task, dropping an answer, timeouts and crashes.
LEMMA ServerType ==
    ASSUME TypeOK, IsFiniteSet(chunks), LiveInv, NEW s \in Slots,
           Claim(s) \/ Discard(s) \/ CancelLate(s) \/ Timeout \/ TimeoutLate(s) \/ Crash
    PROVE  TypeOK' /\ IsFiniteSet(chunks')
<1>1. CASE Claim(s)
  <2>1. wf.stage \in Activities
    BY <1>1 DEF Claim, LiveInv
  <2>2. [IdleSlot EXCEPT !.act = wf.stage, !.i = wf.i, !.n = task.n, !.live = TRUE]
          \in Attempt
    BY <2>1, IdleSlotType DEF TypeOK, Execution, Task, Attempt
  <2>3. QED  BY <1>1, <2>2 DEF Claim, TypeOK, Task, tables, api
<1>2. CASE Discard(s) \/ CancelLate(s)
  BY <1>2, IdleSlotType DEF Discard, CancelLate, TypeOK, tables, temporal, api
<1>3. CASE Timeout
  BY <1>3, RetryType DEF Timeout, TypeOK, tables, api
<1>4. CASE TimeoutLate(s)
  <2>1. [slot EXCEPT ![s].live = FALSE] \in [Slots -> Attempt]
    BY DEF TypeOK, Attempt
  <2>2. QED  BY <1>4, <2>1, RetryType DEF TimeoutLate, TypeOK, Spend, tables, api
<1>5. CASE Crash
  BY <1>5, IdleSlotType DEF Crash, TypeOK, Spend, tables, temporal, api
<1>6. QED  BY <1>1, <1>2, <1>3, <1>4, <1>5

\* What run() does with a result leads to another stage and loop position.
LEMMA ReportType ==
    ASSUME TypeOK, IsFiniteSet(chunks), LiveInv, OutcomeInv, NEW s \in Slots, Report(s)
    PROVE  TypeOK' /\ IsFiniteSet(chunks')
<1> DEFINE a == slot[s]
<1>1. a \in Attempt /\ a.i \in Nat /\ a.k \in Nat /\ a.act \in Activities
  BY DEF TypeOK, Attempt, Report
<1>2. \A st \in Stages : [wf EXCEPT !.stage = st] \in Execution
  BY DEF TypeOK, Execution
<1>3. \A c \in {"activity", "runtime"} :
        [wf EXCEPT !.stage = "set_failed", !.cause = c] \in Execution
  BY DEF TypeOK, Execution, Stages, Activities, SetStages
<1>4. \A i, n \in Nat :
        [wf EXCEPT !.stage = IF i < n THEN "get_prior" ELSE "resolve_refs",
                   !.i = i, !.n = n] \in Execution
  BY DEF TypeOK, Execution, Stages, Activities
<1>5. wf' \in Execution /\ task' \in Task
  <2>1. CASE a.act \in DOMAIN Onward /\ Continue(Onward[a.act])
    <3>1. Onward[a.act] \in Stages
      BY <2>1 DEF Onward, Stages, Activities, SetStages, Ends
    <3>2. QED  BY <1>2, <2>1, <3>1, GotoType DEF Continue
  <2>2. CASE AfterMetadata(a)
    BY <1>2, <2>2, GotoType DEF AfterMetadata, Continue, Stages, Activities, SetStages
  <2>3. CASE AfterGetChunks(a)
    BY <1>1, <1>3, <1>4, <2>3, GotoType DEF AfterGetChunks, Raise, LoopAt
  <2>4. CASE AfterExtract(a)
    BY <1>2, <2>4, GotoType DEF AfterExtract, Continue, Stages, Activities
  <2>5. CASE AfterStore(a)
    BY <1>2, <1>3, <2>5, GotoType
       DEF AfterStore, Raise, Continue, Stages, Activities, SetStages
  <2>6. CASE AfterChunkDone(a)
    <3>1. wf.i + 1 \in Nat /\ wf.n \in Nat
      BY DEF TypeOK, Execution
    <3>2. QED  BY <1>4, <2>6, <3>1, GotoType DEF AfterChunkDone, LoopAt
  <2>7. CASE AfterFailed(a)
    BY <1>2, <2>7, GotoType DEF AfterFailed, Continue, Stages, Ends
  <2>8. CASE a.res = "raise" /\ RetryOrRaise
    BY <2>8, RetryType
  <2>9. QED
    BY <2>1, <2>2, <2>3, <2>4, <2>5, <2>6, <2>7, <2>8 DEF Report
<1>6. slot' \in [Slots -> Attempt]
  BY IdleSlotType DEF Report, TypeOK
<1>7. answers' \in [Idx -> {"unknown", "events", "none"}]
  BY DEF Report, TypeOK, OutcomeInv, Outcome
<1>8. QED  BY <1>5, <1>6, <1>7 DEF Report, TypeOK, tables, api

\* The two API handlers.
LEMMA ApiType ==
    ASSUME TypeOK, IsFiniteSet(chunks),
           Submit \/ StartWorkflow \/ LoseStart \/ Deletion
    PROVE  TypeOK' /\ IsFiniteSet(chunks')
<1>1. CASE Submit
  BY <1>1 DEF Submit, TypeOK, DocumentRow, Status, temporal
<1>2. CASE StartWorkflow
  <2>1. [wf EXCEPT !.stage = "set_processing"] \in Execution
    BY DEF TypeOK, Execution, Stages, Activities, SetStages
  <2>2. QED  BY <1>2, <2>1, GotoType DEF StartWorkflow, TypeOK, tables
<1>3. CASE LoseStart
  BY <1>3 DEF LoseStart, TypeOK, Spend, tables, temporal
<1>4. CASE Terminate
  <2>1. [wf EXCEPT !.stage = "terminated"] \in Execution
    BY DEF TypeOK, Execution, Stages, Ends
  <2>2. [t \in Slots |-> [slot[t] EXCEPT !.live = FALSE]] \in [Slots -> Attempt]
    BY DEF TypeOK, Attempt
  <2>3. QED
    BY <1>4, <2>1, <2>2 DEF Terminate, TypeOK, Task, NoTask, Spend, tables
<1>5. CASE Deletion /\ ~Terminate
  <2>1. Absent \in DocumentRow /\ {} \in SUBSET Row /\ IsFiniteSet({})
    BY FS_EmptySet DEF Absent, DocumentRow, Status
  <2>2. CASE DeleteFind \/ DeleteFails
    BY <2>2 DEF DeleteFind, DeleteFails, TypeOK, Spend, tables, temporal
  <2>3. CASE DeleteChunks
    BY <2>1, <2>3 DEF DeleteChunks, TypeOK, temporal
  <2>4. CASE DeleteLinks \/ DeleteEvents
    BY <2>1, <2>4 DEF DeleteLinks, DeleteEvents, TypeOK, temporal
  <2>5. CASE DeleteDocument
    BY <2>1, <2>5 DEF DeleteDocument, TypeOK, temporal
  <2>6. QED  BY <1>5, <2>2, <2>3, <2>4, <2>5 DEF Deletion
<1>6. QED  BY <1>1, <1>2, <1>3, <1>4, <1>5

-----------------------------------------------------------------------------
(* The inductive invariant, and the properties that follow from it.        *)

\* The invariant without its typing, which the lemmas above take care of.
Strengthening ==
    /\ WorkflowInv /\ LiveInv /\ OutcomeInv /\ StoreInv
    /\ RowInv /\ DeleteInv /\ NoLostEvents

\* The system starts without rows, without an execution and with idle slots.
LEMMA InitInv == Init => IInv
<1> SUFFICES ASSUME Init PROVE IInv
  OBVIOUS
<1>1. TypeOK
  BY IdleSlotType, FaultsAssumption
     DEF Init, TypeOK, Absent, NoTask, DocumentRow, Status, Execution, Stages, Task
<1>2. /\ WorkflowInv /\ LiveInv /\ OutcomeInv /\ StoreInv
  BY DEF Init, WorkflowInv, LiveInv, OutcomeInv, Outcome, StoreInv, StoreAttempt,
     BeforeLoop, NoTask, IdleSlot
<1>3. RowInv
  BY FS_EmptySet DEF Init, RowInv, NoOrphans
<1>4. DeleteInv /\ NoLostEvents
  BY NumChunksAssumption
     DEF Init, DeleteInv, NoLostEvents, Settled, Absent, Idx
<1>5. QED  BY <1>1, <1>2, <1>3, <1>4 DEF IInv

\* An attempt that returns keeps its place; the other slots do not move.
LEMMA ReturnKeeps ==
    ASSUME TypeOK, NEW s \in Slots, NEW r, Return(s, r)
    PROVE  /\ slot'[s].act = slot[s].act /\ slot'[s].i = slot[s].i
           /\ slot'[s].n = slot[s].n /\ slot'[s].k = slot[s].k
           /\ slot'[s].live = slot[s].live
           /\ slot'[s].step = "done" /\ slot'[s].res = r
           /\ \A t \in Slots \ {s} : slot'[t] = slot[t]
BY DEF TypeOK, Return, Attempt

\* A step of one attempt that leaves the events and the execution alone
\* disturbs nothing but the attempt's own place in the invariant.
LEMMA OwnStep ==
    ASSUME IInv, NEW s \in Slots,
           UNCHANGED <<wf, task, answers, events, erased>>,
           slot'[s].act = slot[s].act, slot'[s].i = slot[s].i,
           slot'[s].live = slot[s].live,
           \A t \in Slots \ {s} : slot'[t] = slot[t],
           Outcome(slot[s])', StoreAttempt(slot[s])'
    PROVE  /\ WorkflowInv' /\ LiveInv' /\ OutcomeInv' /\ StoreInv'
           /\ NoLostEvents'
<1>1. WorkflowInv'
  BY DEF IInv, WorkflowInv, Asked
<1>2. LiveInv'
  BY DEF IInv, LiveInv
<1>3. OutcomeInv'
  BY DEF IInv, OutcomeInv, Outcome
<1>4. ASSUME NEW t \in Slots \ {s} PROVE StoreAttempt(slot[t])'
  BY <1>4 DEF IInv, StoreInv, StoreAttempt, Asked, Answer, RowsOf
<1>5. StoreInv'
  BY <1>4 DEF StoreInv
<1>6. NoLostEvents'
  BY DEF IInv, NoLostEvents, Settled, RowsOf
<1>7. QED  BY <1>1, <1>2, <1>3, <1>5, <1>6

\* Neither do the rows and the delete handler, while the document row stays
\* and the events are the same.
LEMMA SameRows ==
    ASSUME IInv, UNCHANGED <<wf, answers, events, erased, submit, del>>,
           doc'.present = doc.present, IsFiniteSet(chunks'),
           linked' \subseteq events, resolved' \subseteq Quotations(linked'), ~doc.present => chunks' = {}
    PROVE  RowInv' /\ DeleteInv'
<1>1. RowInv'
  <2>1. (resolved \subseteq Quotations(linked))'
    OBVIOUS
  <2>2. /\ IsFiniteSet(chunks') /\ linked' \subseteq events' /\ NoOrphans'
        /\ \A e \in events' : Asked(e[1])' /\ answers'[e[1]] = "events"
    BY DEF IInv, RowInv, NoOrphans, Asked, Quotations
  <2>3. QED  BY <2>1, <2>2 DEF RowInv
<1>2. DeleteInv'
  BY DEF IInv, DeleteInv
<1>3. QED  BY <1>1, <1>2

\* UPDATE document creates and removes no row.
LEMMA UpdateDocKeeps ==
    ASSUME TypeOK, NEW st, NEW e
    PROVE  UpdateDoc(st, e).present = doc.present
BY DEF UpdateDoc, TypeOK, DocumentRow

\* The statements of every activity but store_events, and failing statements.
LEMMA WorkInv ==
    ASSUME IInv, IsFiniteSet(chunks)', NEW s \in Slots,
           \/ UpdateStatus(s) \/ GetMetadata(s) \/ ExtractText(s)
           \/ ChunkDelete(s) \/ ChunkInsert(s) \/ ChunkMark(s)
           \/ GetChunks(s) \/ GetPrior(s) \/ ExtractEvents(s) \/ DbError(s)
           \/ ResolveRead(s) \/ ResolveUpdate(s)
    PROVE  Strengthening'
<1>1. TypeOK
  BY DEF IInv
<1>2. UNCHANGED <<wf, task, answers, events, erased, submit, del>>
  BY DEF UpdateStatus, GetMetadata, ExtractText, ChunkDelete, ChunkInsert, ChunkMark,
     GetChunks, GetPrior, ExtractEvents, DbError, ResolveRead, ResolveUpdate,
     tables, temporal, api
<1>3. /\ slot'[s].act = slot[s].act /\ slot'[s].i = slot[s].i
      /\ slot'[s].live = slot[s].live
      /\ \A t \in Slots \ {s} : slot'[t] = slot[t]
  <2>1. CASE \E r : Return(s, r)
    BY <1>1, <2>1, ReturnKeeps
  <2>2. CASE ~\E r : Return(s, r)
    <3>1. ChunkDelete(s) \/ ChunkInsert(s) \/ GetChunks(s)
            \/ ResolveRead(s) \/ ResolveUpdate(s)
      BY <2>2 DEF UpdateStatus, GetMetadata, ExtractText, ChunkMark, GetPrior,
         ExtractEvents, DbError
    <3>2. QED
      BY <1>1, <2>2, <3>1 DEF ChunkDelete, ChunkInsert, GetChunks, ResolveRead,
         ResolveUpdate, TypeOK, Attempt
  <2>3. QED  BY <2>1, <2>2
<1>4. Outcome(slot[s])' /\ StoreAttempt(slot[s])'
  <2>1. CASE DbError(s)
    <3>1. PICK r : /\ Return(s, r)
                   /\ r \in CASE slot[s].act = "extract_events" -> {"raise"}
                        [] slot[s].act = "store_events" /\ Answer(slot[s].i) # "events"
                              -> {"raise", "ok"}
                        [] OTHER -> {"error"}
      BY <2>1 DEF DbError
    <3>2. slot'[s].step = "done" /\ slot'[s].res = r
      BY <1>1, <3>1, ReturnKeeps
    <3>3. Outcome(slot[s])'
      BY <1>3, <3>1, <3>2 DEF Outcome
    <3>4. StoreAttempt(slot[s])'
      BY <1>2, <1>3, <3>1, <3>2 DEF StoreAttempt, IInv, StoreInv, Asked, Answer
    <3>5. QED  BY <3>3, <3>4
  <2>2. CASE ExtractEvents(s)
    <3>1. slot[s].act = "extract_events" /\ slot'[s].res \in {"events", "none", "raise"}
      BY <1>1, <2>2, ReturnKeeps DEF ExtractEvents, At
    <3>2. QED  BY <1>3, <3>1 DEF Outcome, StoreAttempt
  <2>3. CASE ~DbError(s) /\ ~ExtractEvents(s)
    <3>1. slot[s].act \notin {"extract_events", "store_events"}
      BY <2>3 DEF UpdateStatus, GetMetadata, ExtractText, ChunkDelete, ChunkInsert,
         ChunkMark, GetChunks, GetPrior, ResolveRead, ResolveUpdate, At, SetStages
    <3>2. QED  BY <1>3, <3>1 DEF Outcome, StoreAttempt
  <2>4. QED  BY <2>1, <2>2, <2>3
<1>5. WorkflowInv' /\ LiveInv' /\ OutcomeInv' /\ StoreInv' /\ NoLostEvents'
  BY <1>2, <1>3, <1>4, OwnStep
<1>6. doc'.present = doc.present
  <2>1. Failed.present = doc.present
    BY <1>1, UpdateDocKeeps DEF Failed
  <2>2. CASE UpdateStatus(s) \/ ChunkMark(s)
    BY <1>1, <2>2, UpdateDocKeeps DEF UpdateStatus, ChunkMark
  <2>3. CASE ExtractText(s)
    BY <1>1, <2>1, <2>3 DEF ExtractText, TypeOK, DocumentRow
  <2>4. CASE ChunkDelete(s) \/ DbError(s)
    BY <2>1, <2>4 DEF ChunkDelete, DbError
  <2>5. CASE UNCHANGED doc
    BY <2>5
  <2>6. QED
    BY <2>2, <2>3, <2>4, <2>5 DEF GetMetadata, ChunkInsert, GetChunks, GetPrior,
       ExtractEvents, ResolveRead, ResolveUpdate, tables
<1>7. linked' \subseteq events /\ resolved' \subseteq Quotations(linked')
  <2>1. UNCHANGED <<events, linked>>
    BY DEF UpdateStatus, GetMetadata, ExtractText, ChunkDelete, ChunkInsert, ChunkMark,
       GetChunks, GetPrior, ExtractEvents, DbError, ResolveRead, ResolveUpdate, tables
  <2>2. UNCHANGED resolved \/ \E t : resolved' = resolved \cup ({t} \cap Quotations(linked))
    BY DEF UpdateStatus, GetMetadata, ExtractText, ChunkDelete, ChunkInsert, ChunkMark,
       GetChunks, GetPrior, ExtractEvents, DbError, ResolveRead, ResolveUpdate, tables
  <2>3. QED  BY <2>1, <2>2 DEF IInv, RowInv
<1>8. ~doc.present => chunks' = {}
  BY DEF UpdateStatus, GetMetadata, ExtractText, ChunkDelete, ChunkInsert, ChunkMark,
     GetChunks, GetPrior, ExtractEvents, DbError, ResolveRead, ResolveUpdate,
     tables, IInv, RowInv, NoOrphans
<1>9. QED
  BY <1>2, <1>5, <1>6, <1>7, <1>8, SameRows DEF Strengthening

\* The statements of store_events.
LEMMA StoreStepInv ==
    ASSUME IInv, TypeOK', NEW s \in Slots,
           StoreNothing(s) \/ StoreBegin(s) \/ StoreCommit(s)
    PROVE  Strengthening'
<1> DEFINE a == slot[s]
<1>1. TypeOK /\ IsFiniteSet(chunks) /\ StoreAttempt(a)
  BY DEF IInv, RowInv, StoreInv
<1>2. UNCHANGED <<wf, task, answers, chunks, doc, erased, submit, del>>
  BY DEF StoreNothing, StoreBegin, StoreCommit, tables, temporal, api
<1>3. a.act = "store_events" /\ a.i \in Nat /\ a.n \in Nat
  BY <1>1 DEF StoreNothing, StoreBegin, StoreCommit, At, TypeOK, Attempt
<1>4. /\ slot'[s].act = a.act /\ slot'[s].i = a.i /\ slot'[s].live = a.live
      /\ \A t \in Slots \ {s} : slot'[t] = slot[t]
  BY <1>1, ReturnKeeps
     DEF StoreNothing, StoreBegin, StoreCommit, TypeOK, Attempt
<1>5. CASE StoreNothing(s)
  <2>1. \A e \in events : e[1] \in Idx /\ answers[e[1]] = "events"
    BY DEF IInv, RowInv, TypeOK, Row
  <2>2. RowsOf(a.i, linked) = {}
    BY <1>5, <2>1 DEF StoreNothing, RowsOf, Answer, IInv, RowInv
  <2>3. events' = events /\ linked' = linked /\ resolved' = resolved
    <3>1. events' = events /\ linked' = linked /\ resolved' = resolved \cap Quotations(events)
      BY <1>5, <2>2 DEF StoreNothing, IInv, RowInv
    <3>2. resolved \subseteq Quotations(events)
      BY QuotationsGrow DEF IInv, RowInv
    <3>3. QED  BY <3>1, <3>2
  <2>4. slot'[s].step = "done" /\ slot'[s].res = "ok"
    BY <1>1, <1>5, ReturnKeeps DEF StoreNothing
  <2>5. Outcome(slot[s])' /\ StoreAttempt(slot[s])'
    BY <1>1, <1>2, <1>3, <1>4, <1>5, <2>4
       DEF Outcome, StoreAttempt, StoreNothing, Asked, Answer
  <2>6. WorkflowInv' /\ LiveInv' /\ OutcomeInv' /\ StoreInv' /\ NoLostEvents'
    BY <1>2, <1>4, <2>3, <2>5, OwnStep
  <2>7. RowInv' /\ DeleteInv'
    BY <1>1, <1>2, <2>3, SameRows DEF IInv, RowInv, NoOrphans
  <2>8. QED  BY <2>6, <2>7 DEF Strengthening
<1>6. CASE StoreBegin(s)
  <2>1. events' = events /\ linked' = linked /\ resolved' = resolved
    BY <1>6 DEF StoreBegin, tables
  <2>2. slot'[s].step = "work" /\ slot'[s].seen = RowsOf(a.i, linked)
    BY <1>1, <1>6 DEF StoreBegin, TypeOK, Attempt
  <2>3. a.i \in Idx /\ answers[a.i] = "events"
    BY <1>6 DEF StoreBegin, Answer
  <2>4. Outcome(slot[s])' /\ StoreAttempt(slot[s])'
    BY <1>1, <1>2, <1>3, <1>4, <2>2, <2>3 DEF Outcome, StoreAttempt, Asked, RowsOf
  <2>5. WorkflowInv' /\ LiveInv' /\ OutcomeInv' /\ StoreInv' /\ NoLostEvents'
    BY <1>2, <1>4, <2>1, <2>4, OwnStep
  <2>6. RowInv' /\ DeleteInv'
    BY <1>1, <1>2, <2>1, SameRows DEF IInv, RowInv, NoOrphans
  <2>7. QED  BY <2>5, <2>6 DEF Strengthening
<1>7. CASE StoreCommit(s) /\ ~doc.present
  <2>1. events' = events /\ linked' = linked /\ resolved' = resolved
    BY <1>7 DEF StoreCommit
  <2>2. slot'[s].step = "done" /\ slot'[s].res = "error"
    BY <1>1, <1>7, ReturnKeeps DEF StoreCommit
  <2>3. Outcome(slot[s])' /\ StoreAttempt(slot[s])'
    BY <1>1, <1>2, <1>3, <1>4, <2>2 DEF Outcome, StoreAttempt, Asked
  <2>4. WorkflowInv' /\ LiveInv' /\ OutcomeInv' /\ StoreInv' /\ NoLostEvents'
    BY <1>2, <1>4, <2>1, <2>3, OwnStep
  <2>5. RowInv' /\ DeleteInv'
    BY <1>1, <1>2, <2>1, SameRows DEF IInv, RowInv, NoOrphans
  <2>6. QED  BY <2>4, <2>5 DEF Strengthening
<1>8. CASE StoreCommit(s) /\ doc.present
  <2> DEFINE new == <<a.i, a.n>>
  <2>1. /\ events' = (events \ a.seen) \cup {new}
        /\ linked' = (linked \ a.seen) \cup {new}
        /\ resolved' = resolved \ Quotations(a.seen)
    BY <1>8 DEF StoreCommit
  <2>2. /\ Asked(a.i) /\ a.i \in Idx /\ answers[a.i] = "events"
        /\ \A e \in a.seen : e[1] = a.i
    BY <1>1, <1>3, <1>8 DEF StoreAttempt, StoreCommit, At
  <2>3. new \in events' /\ new[1] = a.i
    BY <2>1
  <2>4. \A c : RowsOf(c, events) # {} => RowsOf(c, events)' # {}
    BY <2>1, <2>2, <2>3 DEF RowsOf
  <2>5. slot'[s].step = "done" /\ slot'[s].res = "ok"
    BY <1>1, <1>8, ReturnKeeps DEF StoreCommit
  <2>6. StoreAttempt(slot[s])'
    BY <1>2, <1>4, <2>2, <2>3, <2>5 DEF StoreAttempt, Asked, RowsOf
  <2>7. ASSUME NEW t \in Slots \ {s} PROVE StoreAttempt(slot[t])'
    <3>1. StoreAttempt(slot[t]) /\ slot'[t] = slot[t]
      BY <1>4 DEF IInv, StoreInv
    <3>2. Asked(slot[t].i)' = Asked(slot[t].i) /\ Answer(slot[t].i)' = Answer(slot[t].i)
      BY <1>2, <3>1 DEF Asked, Answer
    <3>3. QED  BY <1>2, <2>4, <3>1, <3>2 DEF StoreAttempt
  <2>8. StoreInv'
    BY <2>6, <2>7 DEF StoreInv
  <2>9. OutcomeInv'
    BY <1>3, <1>4, <2>5 DEF IInv, OutcomeInv, Outcome
  <2>10. WorkflowInv' /\ LiveInv'
    BY <1>2, <1>4 DEF IInv, WorkflowInv, Asked, LiveInv
  <2>11. RowInv'
    <3>1. \A e \in events' : Asked(e[1])' /\ answers'[e[1]] = "events"
      BY <1>2, <2>1, <2>2, <2>3 DEF IInv, RowInv, Asked
    <3>2. linked' \subseteq events' /\ NoOrphans'
      BY <1>2, <1>8, <2>1 DEF IInv, RowInv, NoOrphans
    <3>3. resolved' \subseteq Quotations(linked \ a.seen)
      BY <2>1, QuotationsLeft DEF IInv, RowInv
    <3>4. resolved' \subseteq Quotations(linked')
      BY <2>1, <3>3, QuotationsGrow
    <3>5. QED  BY <1>1, <1>2, <3>1, <3>2, <3>4 DEF RowInv
  <2>12. DeleteInv'
    BY <1>2 DEF IInv, DeleteInv
  <2>13. NoLostEvents'
    BY <1>2, <2>4 DEF IInv, NoLostEvents, Settled
  <2>14. QED
    BY <2>8, <2>9, <2>10, <2>11, <2>12, <2>13 DEF Strengthening
<1>9. QED  BY <1>5, <1>6, <1>7, <1>8

\* A retry keeps the stage or moves to set_failed; the loop does not move.
LEMMA RetryMoves ==
    ASSUME TypeOK, LiveInv, task.state # "none", RetryOrRaise
    PROVE  /\ wf'.i = wf.i
           /\ wf'.stage \in {wf.stage, "set_failed"}
           /\ task'.state # "none" => wf'.stage \in Activities
BY DEF RetryOrRaise, Raise, Goto, TypeOK, Execution, LiveInv, Activities, SetStages

\* When nothing but the execution moves, and only forward, the answers, the
\* rows and the attempts keep their part of the invariant.
LEMMA Forward ==
    ASSUME IInv, wf.i \in Nat, wf'.i \in Nat,
           UNCHANGED <<doc, chunks, events, linked, resolved, answers, submit, del, erased>>,
           wf'.stage \in BeforeLoop => wf'.i = 0,
           wf'.i = wf.i,
           wf.stage \notin BeforeAnswer => wf'.stage \notin BeforeAnswer,
           wf'.stage = "set_extracting_text" => wf.stage = wf'.stage,
           submit # "done" => wf'.stage = "unstarted",
           \A t \in Slots :
              \/ /\ slot'[t].act = slot[t].act /\ slot'[t].i = slot[t].i
                 /\ slot'[t].step = slot[t].step /\ slot'[t].seen = slot[t].seen
                 /\ slot'[t].res = slot[t].res
              \/ Outcome(slot[t])' /\ StoreAttempt(slot[t])'
    PROVE  WorkflowInv' /\ OutcomeInv' /\ StoreInv' /\ RowInv' /\ DeleteInv' /\ NoLostEvents'
<1>1. \A c : Asked(c) => Asked(c)'
  BY DEF Asked
<1>2. WorkflowInv'
  BY <1>1 DEF IInv, WorkflowInv
<1>3. OutcomeInv'
  BY DEF IInv, OutcomeInv, Outcome
<1>4. ASSUME NEW t \in Slots PROVE StoreAttempt(slot[t])'
  <2>1. CASE StoreAttempt(slot[t])'
    BY <2>1
  <2>2. CASE ~StoreAttempt(slot[t])'
    <3>1. StoreAttempt(slot[t])
      BY DEF IInv, StoreInv
    <3>2. /\ slot'[t].act = slot[t].act /\ slot'[t].i = slot[t].i
          /\ slot'[t].step = slot[t].step /\ slot'[t].seen = slot[t].seen
          /\ slot'[t].res = slot[t].res
      BY <2>2
    <3>3. Answer(slot[t].i)' = Answer(slot[t].i)
      BY <3>2 DEF Answer
    <3>4. QED  BY <1>1, <2>2, <3>1, <3>2, <3>3 DEF StoreAttempt, RowsOf
  <2>3. QED  BY <2>1, <2>2
<1>5. StoreInv'
  BY <1>4 DEF StoreInv
<1>6. RowInv'
  BY <1>1 DEF IInv, RowInv, NoOrphans
<1>7. DeleteInv'
  BY DEF IInv, DeleteInv
<1>8. NoLostEvents'
  BY DEF IInv, NoLostEvents, Settled, RowsOf
<1>9. QED  BY <1>2, <1>3, <1>5, <1>6, <1>7, <1>8

\* An idle slot reports nothing and stores nothing.
LEMMA IdleInv == Outcome(IdleSlot) /\ StoreAttempt(IdleSlot)
BY DEF IdleSlot, Outcome, StoreAttempt

\* Dispatching a task, dropping an answer, timeouts and crashes.
LEMMA ServerInv ==
    ASSUME IInv, NEW s \in Slots,
           Claim(s) \/ Discard(s) \/ CancelLate(s) \/ Timeout \/ TimeoutLate(s) \/ Crash
    PROVE  Strengthening'
<1>1. TypeOK /\ LiveInv /\ wf.i \in Nat /\ \A t \in Slots : slot[t] \in Attempt
  BY DEF IInv, TypeOK, Execution
<1>2. UNCHANGED <<doc, chunks, events, linked, resolved, answers, submit, del, erased>>
  BY DEF Claim, Discard, CancelLate, Timeout, TimeoutLate, Crash, tables, temporal, api
<1>3. /\ wf'.i = wf.i
      /\ wf'.stage \in {wf.stage, "set_failed"}
      /\ wf'.stage = "set_failed" => wf.stage \in Activities
      /\ task'.state # "none" => wf'.stage \in Activities
  <2>1. CASE UNCHANGED wf
    BY <1>1, <2>1, RetryMoves
       DEF Claim, Discard, CancelLate, Timeout, TimeoutLate, Crash, temporal, LiveInv,
           TypeOK, Task, SetStages, Activities
  <2>2. CASE Timeout \/ TimeoutLate(s)
    <3>1. task.state = "started" /\ RetryOrRaise
      BY <1>1, <2>2 DEF Timeout, TimeoutLate, LiveInv
    <3>2. QED  BY <1>1, <3>1, RetryMoves DEF LiveInv
  <2>3. QED  BY <2>1, <2>2 DEF Claim, Discard, CancelLate, Crash, temporal
<1>4. /\ wf'.stage \in BeforeLoop => wf'.i = 0
      /\ wf.stage \notin BeforeAnswer => wf'.stage \notin BeforeAnswer
      /\ wf'.stage = "set_extracting_text" => wf.stage = wf'.stage
  BY <1>3 DEF IInv, WorkflowInv, BeforeLoop, BeforeAnswer
<1>5. submit # "done" => wf'.stage = "unstarted"
  BY <1>3 DEF IInv, DeleteInv, Activities, SetStages
<1>6. \A t \in Slots :
         \/ /\ slot'[t].act = slot[t].act /\ slot'[t].i = slot[t].i
            /\ slot'[t].step = slot[t].step /\ slot'[t].seen = slot[t].seen
            /\ slot'[t].res = slot[t].res
         \/ Outcome(slot[t])' /\ StoreAttempt(slot[t])'
  <2>1. CASE Claim(s)
    <3>1. slot'[s].act = wf.stage /\ slot'[s].step = "run" /\ slot'[s].i = wf.i
      BY <1>1, <2>1 DEF Claim, IdleSlot, TypeOK, Attempt
    <3>2. Outcome(slot[s])' /\ StoreAttempt(slot[s])'
      BY <2>1, <3>1 DEF Outcome, StoreAttempt, Asked, BeforeAnswer, BeforeLoop, Claim
    <3>3. \A t \in Slots \ {s} : slot'[t] = slot[t]
      BY <1>1, <2>1 DEF Claim, TypeOK
    <3>4. QED  BY <3>2, <3>3
  <2>2. CASE Discard(s) \/ CancelLate(s) \/ Crash
    <3>1. \A t \in Slots : slot'[t] = slot[t] \/ slot'[t] = IdleSlot
      BY <1>1, <2>2 DEF Discard, CancelLate, Crash, TypeOK
    <3>2. QED  BY <3>1 DEF IdleSlot, Outcome, StoreAttempt
  <2>3. CASE Timeout \/ TimeoutLate(s)
    BY <1>1, <2>3 DEF Timeout, TimeoutLate, TypeOK, Attempt
  <2>4. QED  BY <2>1, <2>2, <2>3
<1>7. WorkflowInv' /\ OutcomeInv' /\ StoreInv' /\ RowInv' /\ DeleteInv' /\ NoLostEvents'
  BY <1>1, <1>2, <1>3, <1>4, <1>5, <1>6, Forward
<1>8. LiveInv'
  <2>1. CASE Claim(s)
    <3>1. \A t \in Slots : ~slot[t].live
      BY <2>1 DEF Claim, IInv, LiveInv
    <3>2. slot'[s].act = wf.stage /\ slot'[s].i = wf.i
      BY <1>1, <2>1 DEF Claim, IdleSlot, TypeOK, Attempt
    <3>3. \A t \in Slots \ {s} : slot'[t] = slot[t]
      BY <1>1, <2>1 DEF Claim, TypeOK
    <3>4. task'.state = "started" /\ UNCHANGED wf
      BY <1>1, <2>1 DEF Claim, TypeOK, Task
    <3>5. QED  BY <1>3, <3>1, <3>2, <3>3, <3>4 DEF LiveInv
  <2>2. CASE Discard(s) \/ CancelLate(s) \/ Crash
    <3>1. \A t \in Slots : slot'[t] = slot[t] \/ slot'[t] = IdleSlot
      BY <1>1, <2>2 DEF Discard, CancelLate, Crash, TypeOK
    <3>2. UNCHANGED <<wf, task>>
      BY <2>2 DEF Discard, CancelLate, Crash, temporal
    <3>3. QED  BY <1>1, <3>1, <3>2 DEF LiveInv, IdleSlot
  <2>3. CASE Timeout \/ TimeoutLate(s)
    <3>1. \A t \in Slots : ~slot'[t].live
      BY <1>1, <2>3 DEF Timeout, TimeoutLate, TypeOK, LiveInv, Attempt
    <3>2. QED  BY <1>3, <3>1 DEF LiveInv
  <2>4. QED  BY <2>1, <2>2, <2>3
<1>9. QED  BY <1>7, <1>8 DEF Strengthening

\* How a reported result moves the workflow.
LEMMA ReportMoves ==
    ASSUME IInv, NEW s \in Slots, Report(s)
    PROVE  /\ \/ wf'.i = wf.i
              \/ /\ wf'.i = wf.i + 1 /\ wf.stage = "set_extracting_text"
                 /\ wf'.stage \in {"get_prior", "resolve_refs"}
           /\ wf'.stage \in BeforeLoop => wf'.i = 0
           /\ wf.stage \notin BeforeAnswer /\ wf'.i = wf.i => wf'.stage \notin BeforeAnswer
           /\ wf'.stage = "set_extracting_text" =>
                 /\ wf'.i = wf.i
                 /\ \/ wf.stage = "set_extracting_text"
                    \/ wf.stage = "store_events" /\ slot[s].res \notin {"error", "raise"}
           /\ wf.stage = "extract_events" /\ slot[s].res # "raise"
                 => wf'.stage = "store_events" /\ wf'.i = wf.i
           /\ wf'.stage # "unstarted"
           /\ task'.state # "none" => wf'.stage \in Activities
<1> DEFINE a == slot[s]
<1>1. a.act = wf.stage /\ a.i = wf.i /\ task.state = "started" /\ wf.stage \in Activities
  BY DEF Report, IInv, LiveInv
<1>2. wf \in Execution /\ wf.i \in Nat
  BY DEF IInv, TypeOK, Execution
<1>3. wf.stage \in BeforeLoop => wf.i = 0
  BY DEF IInv, WorkflowInv
<1> USE <1>1, <1>2, <1>3
    DEF BeforeAnswer, BeforeLoop, Goto, NoTask, Execution, Activities, SetStages, Ends
<1>4. CASE a.act \in DOMAIN Onward /\ Continue(Onward[a.act])
  BY <1>4 DEF Onward, Continue
<1>5. CASE AfterMetadata(a)
  BY <1>5 DEF AfterMetadata, Continue
<1>6. CASE AfterGetChunks(a)
  BY <1>6 DEF AfterGetChunks, Raise, LoopAt
<1>7. CASE AfterExtract(a)
  BY <1>7 DEF AfterExtract, Continue
<1>8. CASE AfterStore(a)
  BY <1>8 DEF AfterStore, Raise, Continue
<1>9. CASE AfterChunkDone(a)
  BY <1>9 DEF AfterChunkDone, LoopAt
<1>10. CASE AfterFailed(a)
  BY <1>10 DEF AfterFailed, Continue
<1>11. CASE a.res = "raise" /\ RetryOrRaise
  <2>1. /\ wf'.i = wf.i
        /\ wf'.stage \in {wf.stage, "set_failed"}
        /\ task'.state # "none" => wf'.stage \in Activities
    BY <1>11, RetryMoves DEF IInv
  <2>2. QED  BY <1>11, <2>1
<1>12. QED
  BY <1>4, <1>5, <1>6, <1>7, <1>8, <1>9, <1>10, <1>11 DEF Report

\* What run() does with a result: the loop moves on only after a batch is
\* stored, and an answer is written only for the chunk being asked about.
LEMMA ReportInv ==
    ASSUME IInv, NEW s \in Slots, Report(s)
    PROVE  Strengthening'
<1> DEFINE a == slot[s]
<1>1. /\ a.act = wf.stage /\ a.i = wf.i /\ a.live /\ a.step = "done"
      /\ \A t \in Slots \ {s} : ~slot[t].live
      /\ wf.i \in Nat /\ wf'.i \in Nat /\ slot \in [Slots -> Attempt]
      /\ answers \in [Idx -> {"unknown", "events", "none"}]
  <2>1. wf.i \in Nat /\ slot \in [Slots -> Attempt]
        /\ answers \in [Idx -> {"unknown", "events", "none"}]
    BY DEF IInv, TypeOK, Execution
  <2>2. wf'.i \in Nat
    BY <2>1, ReportMoves
  <2>3. QED  BY <2>1, <2>2 DEF Report, IInv, LiveInv
<1>2. UNCHANGED <<doc, chunks, events, linked, resolved, submit, del, erased>>
  BY DEF Report, tables, api
<1>3. \A c \in Nat : Asked(c) => Asked(c)'
  <2>1. SUFFICES ASSUME NEW c \in Nat, Asked(c) PROVE Asked(c)'
    OBVIOUS
  <2>2. CASE wf'.i = wf.i
    BY <2>1, <2>2, ReportMoves DEF Asked
  <2>3. CASE wf'.i # wf.i
    <3>1. wf'.i = wf.i + 1
      BY <2>3, ReportMoves
    <3>2. c < wf'.i
      BY <1>1, <2>1, <3>1 DEF Asked
    <3>3. QED  BY <3>2 DEF Asked
  <2>4. QED  BY <2>2, <2>3
<1>4. \A c \in Idx : answers'[c] # answers[c] =>
         c = wf.i /\ wf.stage = "extract_events" /\ wf'.stage = "store_events" /\ wf'.i = wf.i
  BY <1>1, ReportMoves DEF Report
<1>5. \A c \in Nat : Asked(c) => Answer(c)' = Answer(c)
  BY <1>1, <1>4 DEF Asked, BeforeAnswer, Answer, Idx
<1>6. WorkflowInv'
  <2>1. \A c \in Idx : ~Asked(c)' => answers'[c] = "unknown"
    BY <1>3, <1>4 DEF IInv, WorkflowInv, Asked, BeforeAnswer, BeforeLoop, Idx
  <2>2. QED  BY <2>1, ReportMoves DEF WorkflowInv
<1>7. \A t \in Slots : slot'[t] = IF t = s THEN IdleSlot ELSE slot[t]
  BY <1>1 DEF Report
<1>8. LiveInv'
  BY <1>1, <1>7, ReportMoves DEF LiveInv, IdleSlot
<1>9. OutcomeInv'
  BY <1>7 DEF IInv, OutcomeInv, Outcome, IdleSlot
<1>10. StoreInv'
  <2>1. ASSUME NEW t \in Slots, t # s PROVE StoreAttempt(slot[t])'
    <3>1. StoreAttempt(slot[t]) /\ slot'[t] = slot[t] /\ slot[t].i \in Nat
      BY <1>1, <1>7, <2>1 DEF IInv, StoreInv, Attempt
    <3>2. slot[t].act = "store_events" => Answer(slot[t].i)' = Answer(slot[t].i)
      BY <1>5, <3>1 DEF StoreAttempt
    <3>3. QED  BY <1>2, <1>3, <3>1, <3>2 DEF StoreAttempt, RowsOf, Answer
  <2>2. StoreAttempt(slot[s])'
    BY <1>7 DEF StoreAttempt, IdleSlot
  <2>3. QED  BY <2>1, <2>2 DEF StoreInv
<1>11. RowInv'
  <2>1. \A e \in events : e[1] \in Idx
    BY DEF IInv, TypeOK, Row
  <2>2. \A e \in events : Asked(e[1])' /\ answers'[e[1]] = "events"
    BY <1>3, <1>5, <2>1 DEF IInv, RowInv, Answer, Idx
  <2>3. QED  BY <1>2, <2>2 DEF IInv, RowInv, NoOrphans
<1>12. DeleteInv'
  <2>1. submit = "done"
    BY DEF Report, IInv, LiveInv, DeleteInv, Activities, SetStages
  <2>2. QED  BY <1>2, <2>1 DEF IInv, DeleteInv
<1>13. NoLostEvents'
  <2>1. SUFFICES ASSUME NEW c \in Idx, Settled(c)', answers'[c] = "events", ~erased
                 PROVE  RowsOf(c, events) # {}
    BY <1>2 DEF NoLostEvents, RowsOf
  <2>2. CASE Settled(c)
    <3>1. Asked(c)
      BY <2>2 DEF Settled, Asked, BeforeAnswer, BeforeLoop
    <3>2. answers[c] = "events"
      BY <1>5, <2>1, <3>1 DEF Answer, Idx
    <3>3. QED  BY <2>1, <2>2, <3>2 DEF IInv, NoLostEvents
  <2>3. CASE ~Settled(c)
    <3>1. /\ c = wf.i /\ a.act = "store_events" /\ a.res \notin {"error", "raise"}
      BY <1>1, <2>1, <2>3, NumChunksAssumption, ReportMoves DEF Settled, Idx
    <3>2. a.res = "ok"
      BY <1>1, <3>1 DEF IInv, OutcomeInv, Outcome
    <3>3. answers[c] = "events"
      BY <1>1, <1>4, <2>1, <3>1
    <3>4. StoreAttempt(a)
      BY DEF IInv, StoreInv
    <3>5. QED  BY <1>1, <2>1, <3>1, <3>2, <3>3, <3>4 DEF StoreAttempt, Answer
  <2>4. QED  BY <2>2, <2>3
<1>14. QED
  BY <1>6, <1>8, <1>9, <1>10, <1>11, <1>12, <1>13 DEF Strengthening

\* Removing rows under the erased flag leaves the workflow's part untouched.
LEMMA EraseKeeps ==
    ASSUME IInv, UNCHANGED <<wf, task, answers, slot>>,
           erased => erased', erased' \/ UNCHANGED events
    PROVE  WorkflowInv' /\ LiveInv' /\ OutcomeInv' /\ StoreInv' /\ NoLostEvents'
<1>1. WorkflowInv' /\ LiveInv' /\ OutcomeInv'
  BY DEF IInv, WorkflowInv, Asked, LiveInv, OutcomeInv, Outcome
<1>2. ASSUME NEW t \in Slots PROVE StoreAttempt(slot[t])'
  <2>1. StoreAttempt(slot[t])
    BY DEF IInv, StoreInv
  <2>2. QED  BY <2>1 DEF StoreAttempt, Asked, Answer, RowsOf
<1>3. NoLostEvents'
  BY DEF IInv, NoLostEvents, Settled, RowsOf
<1>4. QED  BY <1>1, <1>2, <1>3 DEF StoreInv

\* The submit and the delete handler.
LEMMA ApiInv ==
    ASSUME IInv, TypeOK', IsFiniteSet(chunks)',
           Submit \/ StartWorkflow \/ LoseStart \/ Deletion
    PROVE  Strengthening'
<1>1. CASE Submit
  <2>1. WorkflowInv' /\ LiveInv' /\ OutcomeInv' /\ StoreInv' /\ NoLostEvents'
    BY <1>1, EraseKeeps DEF Submit, temporal
  <2>2. RowInv'
    BY <1>1 DEF Submit, IInv, RowInv, NoOrphans, Asked, temporal
  <2>3. DeleteInv'
    BY <1>1 DEF Submit, IInv, DeleteInv, temporal
  <2>4. QED  BY <2>1, <2>2, <2>3 DEF Strengthening
<1>2. CASE StartWorkflow
  <2>1. wf.stage = "unstarted" /\ wf.i = 0
    BY <1>2 DEF StartWorkflow, IInv, DeleteInv, WorkflowInv, BeforeLoop
  <2>2. wf'.stage = "set_processing" /\ wf'.i = wf.i
    BY <1>2 DEF StartWorkflow, Goto, IInv, TypeOK, Execution
  <2>3. task.state = "none" /\ \A t \in Slots : ~slot[t].live
    BY <2>1 DEF IInv, LiveInv, Activities, SetStages
  <2>4. \A c : Asked(c)' = Asked(c)
    BY <2>1, <2>2 DEF Asked, BeforeAnswer, BeforeLoop
  <2>5. UNCHANGED <<doc, chunks, events, linked, resolved, answers, slot, del, erased>>
        /\ submit' = "done"
    BY <1>2 DEF StartWorkflow, tables
  <2>6. WorkflowInv'
    BY <2>1, <2>2, <2>4, <2>5 DEF IInv, WorkflowInv
  <2>7. LiveInv'
    BY <2>2, <2>3, <2>5 DEF LiveInv, Activities, SetStages
  <2>8. OutcomeInv'
    BY <2>5 DEF IInv, OutcomeInv, Outcome
  <2>9. ASSUME NEW t \in Slots PROVE StoreAttempt(slot[t])'
    <3>1. StoreAttempt(slot[t])
      BY DEF IInv, StoreInv
    <3>2. QED  BY <2>4, <2>5, <3>1 DEF StoreAttempt, Answer, RowsOf
  <2>10. RowInv' /\ DeleteInv'
    BY <2>4, <2>5 DEF IInv, RowInv, NoOrphans, DeleteInv
  <2>11. NoLostEvents'
    BY <2>1, <2>2, <2>5 DEF IInv, NoLostEvents, Settled, RowsOf
  <2>12. QED
    BY <2>6, <2>7, <2>8, <2>9, <2>10, <2>11 DEF Strengthening, StoreInv
<1>3. CASE LoseStart
  <2>1. WorkflowInv' /\ LiveInv' /\ OutcomeInv' /\ StoreInv' /\ NoLostEvents'
    BY <1>3, EraseKeeps DEF LoseStart, temporal, tables
  <2>2. RowInv' /\ DeleteInv'
    BY <1>3 DEF LoseStart, IInv, RowInv, DeleteInv, NoOrphans, Asked, temporal, tables
  <2>3. QED  BY <2>1, <2>2 DEF Strengthening
<1>4. CASE Terminate /\ wf'.stage = "terminated" /\ wf.stage \in Activities \cup {"wedged"}
            /\ wf' # wf
  <2>1. /\ wf'.i = wf.i /\ wf.i \in Nat /\ task'.state = "none"
        /\ \A t \in Slots : /\ slot'[t].act = slot[t].act /\ slot'[t].i = slot[t].i
              /\ slot'[t].step = slot[t].step /\ slot'[t].seen = slot[t].seen
              /\ slot'[t].res = slot[t].res /\ ~slot'[t].live
    BY <1>4 DEF Terminate, IInv, TypeOK, Execution, Attempt, NoTask
  <2>2. UNCHANGED <<doc, chunks, events, linked, resolved, answers, submit, erased>>
    BY <1>4 DEF Terminate, tables
  <2>3. submit = "done"
    BY <1>4 DEF IInv, DeleteInv, Activities, SetStages
  <2>4. \A c \in Nat : Asked(c) => Asked(c)'
    BY <1>4, <2>1 DEF Asked, BeforeAnswer, BeforeLoop
  <2>5. WorkflowInv'
    BY <1>4, <2>2, <2>4 DEF IInv, WorkflowInv, BeforeLoop, Idx
  <2>6. LiveInv' /\ OutcomeInv'
    BY <2>1 DEF LiveInv, IInv, OutcomeInv, Outcome
  <2>7. ASSUME NEW t \in Slots PROVE StoreAttempt(slot[t])'
    <3>1. StoreAttempt(slot[t]) /\ slot[t].i \in Nat
      BY DEF IInv, StoreInv, TypeOK, Attempt
    <3>2. Answer(slot[t].i)' = Answer(slot[t].i)
      BY <2>1, <2>2 DEF Answer
    <3>3. QED  BY <2>1, <2>2, <2>4, <3>1, <3>2 DEF StoreAttempt, RowsOf
  <2>8. RowInv'
    BY <2>2, <2>4 DEF IInv, RowInv, NoOrphans, TypeOK, Row, Idx
  <2>9. DeleteInv'
    BY <1>4, <2>2, <2>3 DEF IInv, DeleteInv, Terminate
  <2>10. NoLostEvents'
    BY <1>4, <2>1, <2>2 DEF IInv, NoLostEvents, Settled, RowsOf
  <2>11. QED
    BY <2>5, <2>6, <2>7, <2>8, <2>9, <2>10 DEF Strengthening, StoreInv
<1>5. CASE Terminate /\ UNCHANGED <<wf, task, slot>>
  <2>1. WorkflowInv' /\ LiveInv' /\ OutcomeInv' /\ StoreInv' /\ NoLostEvents'
    BY <1>5, EraseKeeps DEF Terminate, tables
  <2>2. RowInv' /\ DeleteInv'
    BY <1>5 DEF Terminate, IInv, RowInv, DeleteInv, NoOrphans, Asked, tables
  <2>3. QED  BY <2>1, <2>2 DEF Strengthening
<1>6. CASE Terminate
  <2>1. CASE wf.stage \in Activities \cup {"wedged"} /\ wf' = [wf EXCEPT !.stage = "terminated"]
    <3>1. wf'.stage = "terminated" /\ wf' # wf
      BY <2>1 DEF IInv, TypeOK, Execution, Activities, SetStages
    <3>2. QED  BY <1>4, <1>6, <2>1, <3>1
  <2>2. QED  BY <1>5, <1>6, <2>1 DEF Terminate
<1>7. CASE Deletion /\ ~Terminate
  <2>1. UNCHANGED <<wf, task, answers, slot, submit>>
    BY <1>7 DEF Deletion, DeleteFind, DeleteChunks, DeleteLinks, DeleteEvents, DeleteDocument,
       DeleteFails, temporal
  <2>2. (erased => erased') /\ (erased' \/ UNCHANGED events)
    BY <1>7 DEF Deletion, DeleteFind, DeleteChunks, DeleteLinks, DeleteEvents, DeleteDocument,
       DeleteFails, tables, IInv, DeleteInv
  <2>3. WorkflowInv' /\ LiveInv' /\ OutcomeInv' /\ StoreInv' /\ NoLostEvents'
    BY <2>1, <2>2, EraseKeeps
  <2>4. RowInv'
    <3>1. events' \subseteq events /\ linked' \subseteq events' /\ resolved' \subseteq Quotations(linked')
      BY <1>7 DEF Deletion, DeleteFind, DeleteChunks, DeleteLinks, DeleteEvents, DeleteDocument,
         DeleteFails, tables, IInv, RowInv
    <3>2. NoOrphans'
      BY <1>7 DEF Deletion, DeleteFind, DeleteChunks, DeleteLinks, DeleteEvents, DeleteDocument,
         DeleteFails, tables, IInv, RowInv, NoOrphans
    <3>3. QED  BY <2>1, <3>1, <3>2 DEF IInv, RowInv, Asked
  <2>5. DeleteInv'
    BY <1>7, <2>1 DEF Deletion, DeleteFind, DeleteChunks, DeleteLinks, DeleteEvents, DeleteDocument,
       DeleteFails, tables, IInv, DeleteInv, Absent
  <2>6. QED  BY <2>3, <2>4, <2>5 DEF Strengthening
<1>8. QED  BY <1>1, <1>2, <1>3, <1>6, <1>7

\* Every step, of whatever actor, leads from the invariant to the invariant.
LEMMA StepInv == IInv /\ [Next]_vars => IInv'
<1> SUFFICES ASSUME IInv, [Next]_vars PROVE IInv'
  OBVIOUS
<1>1. TypeOK /\ LiveInv /\ OutcomeInv /\ StoreInv /\ IsFiniteSet(chunks)
  BY DEF IInv, RowInv
<1>2. ASSUME TypeOK', Strengthening' PROVE IInv'
  BY <1>2 DEF Strengthening, IInv
<1>3. CASE Submit \/ StartWorkflow \/ LoseStart \/ Deletion
  BY <1>1, <1>2, <1>3, ApiType, ApiInv
<1>4. ASSUME NEW s \in Slots,
             \/ StoreNothing(s) \/ StoreBegin(s) \/ StoreCommit(s)
      PROVE  IInv'
  BY <1>1, <1>2, <1>4, StoreResolveType, StoreStepInv
<1>5. ASSUME NEW s \in Slots, ResolveRead(s) \/ ResolveUpdate(s)
      PROVE  IInv'
  BY <1>1, <1>2, <1>5, StoreResolveType, WorkInv
<1>6. ASSUME NEW s \in Slots, ChunkDelete(s) \/ ChunkInsert(s) \/ ChunkMark(s)
      PROVE  IInv'
  BY <1>1, <1>2, <1>6, ChunkType, WorkInv
<1>7. ASSUME NEW s \in Slots,
             \/ UpdateStatus(s) \/ GetMetadata(s) \/ ExtractText(s)
             \/ GetChunks(s) \/ GetPrior(s) \/ ExtractEvents(s) \/ DbError(s)
      PROVE  IInv'
  BY <1>1, <1>2, <1>7, SimpleWorkType, WorkInv
<1>8. ASSUME NEW s \in Slots,
             Claim(s) \/ Discard(s) \/ CancelLate(s) \/ Timeout \/ TimeoutLate(s) \/ Crash
      PROVE  IInv'
  BY <1>1, <1>2, <1>8, ServerType, ServerInv
<1>9. ASSUME NEW s \in Slots, Report(s) PROVE IInv'
  BY <1>1, <1>2, <1>9, ReportType, ReportInv
<1>10. CASE UNCHANGED vars
  <2>1. TypeOK' /\ OutcomeInv' /\ DeleteInv'
    BY <1>10 DEF vars, IInv, TypeOK, OutcomeInv, Outcome, DeleteInv
  <2>2. WorkflowInv' /\ LiveInv' /\ RowInv'
    BY <1>10 DEF vars, IInv, WorkflowInv, LiveInv, RowInv, NoOrphans, Asked
  <2>3. StoreInv' /\ NoLostEvents'
    BY <1>10, EraseKeeps DEF vars
  <2>4. QED  BY <2>1, <2>2, <2>3 DEF IInv
<1>11. QED
  BY <1>3, <1>4, <1>5, <1>6, <1>7, <1>8, <1>9, <1>10, SlotsAssumption DEF Next, Work

\* IInv holds in every reachable state.
LEMMA Invariance == Spec => []IInv
BY InitInv, StepInv, PTL DEF Spec

\* Types: the workflow, the server, the workers and the two handlers only ever
\* write what the columns, the execution and the attempts can hold.
THEOREM TypeCorrect == Spec => []TypeOK
BY Invariance, PTL DEF IInv

\* Whatever attempts are running when a delete request finishes, no row of the
\* document survives it.
THEOREM NoOrphansTheorem == Spec => []NoOrphans
<1>1. IInv => NoOrphans
  BY DEF IInv, RowInv
<1>2. QED  BY <1>1, Invariance, PTL

\* Events the workflow saw stored stay visible under retries, late attempts,
\* crashes and failing statements, until a delete request removes them.
THEOREM NoLostEventsTheorem == Spec => []NoLostEvents
<1>1. IInv => NoLostEvents
  BY DEF IInv
<1>2. QED  BY <1>1, Invariance, PTL

\* No abandoned extraction and no late store publishes events of its own.
THEOREM OnlyAnsweredTheorem == Spec => []OnlyAnswered
<1>1. IInv => OnlyAnswered
  BY DEF IInv, RowInv, OnlyAnswered, Asked, TypeOK, Row, Idx, Execution
<1>2. QED  BY <1>1, Invariance, PTL

\* UPDATE document sets both columns, or finds no row.
LEMMA UpdateDocWrites ==
    ASSUME TypeOK, NEW st \in Status, NEW e \in BOOLEAN
    PROVE  \/ UpdateDoc(st, e) = doc
           \/ UpdateDoc(st, e).status = st /\ UpdateDoc(st, e).err = e
<1>1. CASE doc.present
  <2>1. UpdateDoc(st, e) = [doc EXCEPT !.status = st, !.err = e]
    BY <1>1 DEF UpdateDoc
  <2>2. [doc EXCEPT !.status = st, !.err = e].status = st
    BY DEF TypeOK, DocumentRow
  <2>3. [doc EXCEPT !.status = st, !.err = e].err = e
    BY DEF TypeOK, DocumentRow
  <2>4. QED  BY <2>1, <2>2, <2>3
<1>2. CASE ~doc.present
  BY <1>2 DEF UpdateDoc
<1>3. QED  BY <1>1, <1>2

\* The four writers of the status column agree on error_message.
LEMMA ErrorColumnStep ==
    ASSUME TypeOK, ErrorColumn, [Next]_vars
    PROVE  ErrorColumn'
<1>1. doc \in DocumentRow /\ slot \in [Slots -> Attempt]
  BY DEF TypeOK
<1>2. Failed = doc \/ (Failed.status = "failed" /\ Failed.err)
  BY <1>1 DEF Failed, UpdateDoc, DocumentRow
<1>3. CASE UNCHANGED doc
  BY <1>3 DEF ErrorColumn
<1>4. CASE Submit \/ DeleteDocument
  BY <1>4 DEF Submit, DeleteDocument, Absent, ErrorColumn
<1>5. ASSUME NEW s \in Slots, UpdateStatus(s) PROVE ErrorColumn'
  <2>1. slot[s].act \in SetStages
    BY <1>5 DEF UpdateStatus
  <2>2. WrittenStatus(slot[s].act) = "failed" <=> slot[s].act = "set_failed"
    BY <2>1 DEF WrittenStatus, SetStages
  <2>3. \/ doc' = doc
        \/ /\ doc'.status = WrittenStatus(slot[s].act)
           /\ doc'.err = (slot[s].act = "set_failed")
    <3>1. (slot[s].act = "set_failed") \in BOOLEAN
      OBVIOUS
    <3>2. doc' = UpdateDoc(WrittenStatus(slot[s].act), slot[s].act = "set_failed")
      BY <1>5 DEF UpdateStatus
    <3>3. QED  BY <3>1, <3>2, WrittenStatusType, UpdateDocWrites
  <2>4. QED  BY <2>2, <2>3 DEF ErrorColumn
<1>6. ASSUME NEW s \in Slots, ExtractText(s) \/ ChunkMark(s) PROVE ErrorColumn'
  BY <1>1, <1>2, <1>6 DEF ExtractText, ChunkMark, UpdateDoc, DocumentRow, ErrorColumn
<1>7. ASSUME NEW s \in Slots, ChunkDelete(s) \/ DbError(s) PROVE ErrorColumn'
  BY <1>2, <1>3, <1>7 DEF ChunkDelete, DbError, ErrorColumn
<1>8. QED
  BY <1>3, <1>4, <1>5, <1>6, <1>7
     DEF Next, Work, Deletion, StartWorkflow, LoseStart, Claim, GetMetadata, ChunkInsert,
         GetChunks, GetPrior, ExtractEvents, StoreNothing, StoreBegin, StoreCommit,
         ResolveRead, ResolveUpdate, Report, Discard, CancelLate, TimeoutLate, Timeout, Crash,
         DeleteFind, DeleteChunks, DeleteLinks, DeleteEvents, Terminate, DeleteFails,
         tables, vars

\* error_message is set exactly when the status says failed, whichever of the
\* workflow and the activities wrote it last.
THEOREM ErrorColumnTheorem == Spec => []ErrorColumn
<1>1. Init => ErrorColumn
  BY DEF Init, Absent, ErrorColumn
<1>2. QED  BY <1>1, TypeCorrect, ErrorColumnStep, PTL DEF Spec

-----------------------------------------------------------------------------
(* Refinement: every step of the pipeline is, for the readers of the event *)
(* tables, a step of Publication or no step at all.                        *)

Visible == {e[1] : e \in events}

\* What an unchanged reader's view needs: the same row, flag and events.
LEMMA Stutter ==
    ASSUME doc'.present = doc.present, UNCHANGED <<erased, events>>,
           (submit = "none") = (submit' = "none")
    PROVE  UNCHANGED <<Phase, Visible>>
BY DEF Phase, Visible

\* Nothing is visible before the submit.
LEMMA InitMaps == Init => Readers!Init
BY DEF Init, Absent, Phase, Readers!Init

\* The commit of store_events either repeats a chunk that is visible already,
\* or shows the chunk the workflow is at, or runs against a delete request.
LEMMA CommitMaps ==
    ASSUME IInv, NEW s \in Slots, StoreCommit(s), doc.present,
           NEW i, i = slot[s].i
    PROVE  Readers!Next \/ UNCHANGED <<Phase, Visible>>
<1>1. /\ Asked(i) /\ i \in Idx /\ answers[i] = "events" /\ i \in Nat /\ wf.i \in Nat
      /\ \A e \in slot[s].seen : e[1] = i
  BY DEF StoreCommit, At, IInv, StoreInv, StoreAttempt, Idx, TypeOK, Execution
<1>2. Visible' = Visible \cup {i}
  <2>1. events' = (events \ slot[s].seen) \cup {<<i, slot[s].n>>}
    BY DEF StoreCommit
  <2>2. \A e \in events : e \in slot[s].seen => e[1] = i
    BY <1>1
  <2>3. <<i, slot[s].n>> \in events' /\ <<i, slot[s].n>>[1] = i
    BY <2>1
  <2>4. \A c : c \in Visible' => c \in Visible \cup {i}
    BY <2>1 DEF Visible
  <2>5. \A c : c \in Visible \cup {i} => c \in Visible'
    BY <2>1, <2>2, <2>3 DEF Visible
  <2>6. QED  BY <2>4, <2>5
<1>3. UNCHANGED <<doc, erased, submit>>
  BY DEF StoreCommit, temporal, api
<1>4. UNCHANGED Phase
  BY <1>3 DEF Phase
<1>5. CASE i \in Visible
  BY <1>2, <1>4, <1>5
<1>6. CASE i \notin Visible /\ erased
  <2>1. Readers!PublishLate(i)
    BY <1>2, <1>4, <1>6 DEF Phase, Visible, Readers!PublishLate
  <2>2. QED  BY <1>1, <2>1 DEF Readers!Next, Readers!Idx, Idx
<1>7. CASE i \notin Visible /\ ~erased
  <2>1. ~(i < wf.i)
    BY <1>1, <1>7 DEF IInv, NoLostEvents, Settled, RowsOf, Visible
  <2>2. i = wf.i
    BY <1>1, <2>1 DEF Asked
  <2>3. \A d \in Visible : d < i
    <3>1. \A e \in events : e[1] \in Nat /\ Asked(e[1])
      BY DEF IInv, TypeOK, RowInv, Row, Idx
    <3>2. QED  BY <1>1, <1>7, <2>2, <3>1 DEF Visible, Asked
  <2>4. Readers!Publish(i)
    BY <1>2, <1>4, <1>7, <2>3 DEF Phase, Visible, Readers!Publish
  <2>5. QED  BY <1>1, <2>4 DEF Readers!Next, Readers!Idx, Idx
<1>8. QED  BY <1>5, <1>6, <1>7

\* The submit and the delete handler.
LEMMA ApiMaps ==
    ASSUME IInv, Submit \/ Deletion
    PROVE  Readers!Next \/ UNCHANGED <<Phase, Visible>>
<1>1. CASE Submit
  BY <1>1 DEF Submit, IInv, DeleteInv, Phase, Visible, Readers!Next, Readers!Submit
<1>2. CASE DeleteChunks
  <2>1. doc.present /\ erased' = TRUE /\ UNCHANGED <<doc, events, submit>>
    BY <1>2 DEF DeleteChunks, IInv, DeleteInv
  <2>2. CASE erased
    BY <2>1, <2>2 DEF Phase, Visible
  <2>3. CASE ~erased
    BY <2>1, <2>3 DEF Phase, Readers!Next, Readers!StartErasing
  <2>4. QED  BY <2>2, <2>3
<1>3. CASE DeleteEvents
  <2>1. doc.present /\ erased /\ events' = {} /\ UNCHANGED <<doc, erased, submit>>
    BY <1>3 DEF DeleteEvents, IInv, DeleteInv
  <2>2. QED  BY <2>1 DEF Phase, Readers!Next, Readers!Erase
<1>4. CASE DeleteDocument
  <2>1. doc.present /\ erased /\ submit # "none" /\ events' = {}
        /\ ~doc'.present /\ UNCHANGED <<erased, submit>>
    BY <1>4 DEF DeleteDocument, IInv, DeleteInv, Absent
  <2>2. QED  BY <2>1 DEF Phase, Readers!Next, Readers!Vanish
<1>5. CASE DeleteFind \/ DeleteLinks \/ Terminate \/ DeleteFails
  <2>1. UNCHANGED <<doc, erased, events, submit>>
    BY <1>5 DEF DeleteFind, DeleteLinks, Terminate, DeleteFails, tables
  <2>2. QED  BY <2>1, Stutter
<1>6. QED  BY <1>1, <1>2, <1>3, <1>4, <1>5 DEF Deletion

\* Every other step leaves the readers' view as it is.
LEMMA WorkerMaps ==
    ASSUME IInv, NEW s \in Slots,
           \/ Work(s) \/ Claim(s) \/ DbError(s) \/ Report(s) \/ Discard(s) \/ CancelLate(s)
           \/ TimeoutLate(s) \/ Timeout \/ Crash \/ StartWorkflow \/ LoseStart
    PROVE  Readers!Next \/ UNCHANGED <<Phase, Visible>>
<1>1. TypeOK
  BY DEF IInv
<1>2. CASE StoreCommit(s) /\ doc.present
  BY <1>2, CommitMaps
<1>3. CASE StoreNothing(s)
  <2>1. \A e \in events : e[1] \in Idx /\ answers[e[1]] = "events"
    BY DEF IInv, RowInv, TypeOK, Row
  <2>2. RowsOf(slot[s].i, linked) = {}
    BY <1>3, <2>1 DEF StoreNothing, RowsOf, Answer, IInv, RowInv
  <2>3. UNCHANGED <<doc, erased, events, submit>>
    BY <1>3, <2>2 DEF StoreNothing, api
  <2>4. QED  BY <2>3, Stutter
<1>4. CASE ~(StoreCommit(s) /\ doc.present) /\ ~StoreNothing(s)
  <2>1. UNCHANGED <<erased, events>> /\ (submit = "none") = (submit' = "none")
    BY <1>4 DEF Work, UpdateStatus, GetMetadata, ExtractText, ChunkDelete, ChunkInsert,
       ChunkMark, GetChunks, GetPrior, ExtractEvents, StoreBegin, StoreCommit,
       ResolveRead, ResolveUpdate, Claim, DbError, Report, Discard, CancelLate, TimeoutLate, Timeout,
       Crash, StartWorkflow, LoseStart, tables, api
  <2>2. doc'.present = doc.present
    <3>1. Failed.present = doc.present
      BY <1>1, UpdateDocKeeps DEF Failed
    <3>2. CASE UpdateStatus(s) \/ ChunkMark(s)
      BY <1>1, <3>2, UpdateDocKeeps DEF UpdateStatus, ChunkMark
    <3>3. CASE ExtractText(s)
      BY <1>1, <3>1, <3>3 DEF ExtractText, TypeOK, DocumentRow
    <3>4. CASE ChunkDelete(s) \/ DbError(s)
      BY <3>1, <3>4 DEF ChunkDelete, DbError
    <3>5. CASE UNCHANGED doc
      BY <3>5
    <3>6. QED
      BY <1>4, <3>2, <3>3, <3>4, <3>5 DEF Work, GetMetadata, ChunkInsert, GetChunks,
         GetPrior, ExtractEvents, StoreBegin, StoreCommit, ResolveRead, ResolveUpdate,
         Claim, Report, Discard, CancelLate, TimeoutLate, Timeout, Crash, StartWorkflow, LoseStart,
         tables
  <2>3. QED  BY <2>1, <2>2, Stutter
<1>5. QED  BY <1>2, <1>3, <1>4

\* The pipeline keeps its promise to the readers: while a document lives, its
\* chunks' events appear in text order and never disappear; a document that is
\* gone shows no events and never comes back.
THEOREM Refinement == Spec => PublishesInOrder
<1>1. IInv /\ [Next]_vars => [Readers!Next]_<<Phase, Visible>>
  <2> SUFFICES ASSUME IInv, [Next]_vars
               PROVE  Readers!Next \/ UNCHANGED <<Phase, Visible>>
    OBVIOUS
  <2>1. CASE Submit \/ Deletion
    BY <2>1, ApiMaps
  <2>2. CASE ~Submit /\ ~Deletion /\ Next
    BY <2>2, WorkerMaps, SlotsAssumption DEF Next
  <2>3. CASE UNCHANGED vars
    BY <2>3, Stutter DEF vars
  <2>4. QED  BY <2>1, <2>2, <2>3
<1>2. QED
  BY <1>1, InitMaps, Invariance, PTL
     DEF Spec, PublishesInOrder, Readers!Spec, Visible
=============================================================================
