----------------------------- MODULE Extraction -----------------------------
(***************************************************************************)
(* The loop over extract_events of one document: which provider an attempt *)
(* asks, and what the attempts leave in document_event_log, llm_usage and  *)
(* llm_call_log, whose rows have ids made of document, step and position,  *)
(* so that attempts and, in the log, chunks write over each other.  Every  *)
(* write of a record may fail and is then left out; the worker may die     *)
(* between any two; an attempt may outlive its timeout.                    *)
(***************************************************************************)
EXTENDS Integers, FiniteSets

CONSTANTS
    NumChunks,     \* chunks of the document
    MaxAttempts,   \* maximum_attempts of the activity, 3
    MaxDisturbed   \* bound: attempts that outlive their timeout or miss a record

ASSUME ExtractionAssumption ==
    NumChunks \in Nat \ {0} /\ MaxAttempts \in Nat \ {0} /\ MaxDisturbed \in Nat

Chunks == 1..NumChunks
Attempts == Chunks \X (1..MaxAttempts)
Nobody == <<0, 0>>

VARIABLES
    run,        \* per attempt: the call it is at (lost, torn: it died, torn between its two
                \* records), the configuration it uses, its outcome, whether the answer came
                \* with usage; whether it outlived its timeout or missed a record (history)
    live,       \* the attempt whose result the workflow takes
    wf,         \* running, failed or done
    taken,      \* per chunk, the attempt number whose events were taken; 0: none
    keyed,      \* the environment of the workers has OPENROUTER_API_KEY
    provider,   \* the document's row of llm_provider; gone: deleted, provider_id is NULL
    log,        \* row of document_event_log per sequence number: who wrote it
    usage,      \* row of llm_usage per chunk: attempts its tokens and its cost are from
    calls       \* row of llm_call_log per chunk, in the same form

vars == <<run, live, wf, taken, keyed, provider, log, usage, calls>>
records == <<log, usage, calls>>
flow == <<live, wf, taken>>
-----------------------------------------------------------------------------
NoRow == [text |-> 0, cost |-> 0]

Init ==
    /\ run = [a \in Attempts |-> [at |-> "queued", cfg |-> "none", out |-> "none",
                 metered |-> FALSE, late |-> FALSE, missed |-> FALSE]]
    /\ live = <<1, 1>> /\ wf = "running"
    /\ taken = [c \in Chunks |-> 0]
    /\ keyed \in BOOLEAN /\ provider = "there"
    /\ log = [s \in 0..3 |-> Nobody]
    /\ usage = [c \in Chunks |-> NoRow] /\ calls = [c \in Chunks |-> NoRow]

Running(a) == run[a].at \notin {"queued", "over", "lost", "torn"}

\* What is left of an attempt that dies.
Dead(a) == [run[a] EXCEPT !.at = IF @ = "record" THEN "torn" ELSE "lost",
                          !.out = "none", !.metered = FALSE]

Disturbed(a) == run[a].late \/ run[a].missed
MayDisturb(a) == Disturbed(a) \/ Cardinality({b \in Attempts : Disturbed(b)}) < MaxDisturbed

Goto(a, step) == run' = [run EXCEPT ![a].at = step]
Miss(a, step) == MayDisturb(a) /\ run' = [run EXCEPT ![a].at = step, ![a].missed = TRUE]

\* log(): the sequence numbers start at 0 in every attempt.
Write(a, s, next) ==
    /\ \/ log' = [log EXCEPT ![s] = a] /\ Goto(a, next)
       \/ UNCHANGED log /\ Miss(a, next)
    /\ UNCHANGED <<flow, keyed, provider, usage, calls>>

\* ON CONFLICT DO UPDATE leaves cost, cached tokens and the time as they are.
Upsert(row, n) == [text |-> n, cost |-> IF row.cost = 0 THEN n ELSE row.cost]
-----------------------------------------------------------------------------
(* The attempts.                                                           *)

\* A worker polls the attempt that is scheduled; without a key it is degraded.
Claim(a) ==
    /\ a = live /\ wf = "running" /\ run[a].at = "queued"
    /\ run' = IF keyed THEN [run EXCEPT ![a].at = "read"]
              ELSE [run EXCEPT ![a].at = "degraded", ![a].out = "degraded"]
    /\ UNCHANGED <<flow, keyed, provider, records>>

\* An attempt without a key succeeds with no events.
Degraded(a) ==
    /\ run[a].at = "degraded"
    /\ Write(a, 0, "done")

\* The chunk and the document's provider_id.
ReadDocument(a) ==
    /\ run[a].at = "read"
    /\ run' = IF provider = "there" THEN [run EXCEPT ![a].at = "resolve"]
              ELSE [run EXCEPT ![a].at = "start", ![a].cfg = "env"]
    /\ UNCHANGED <<flow, keyed, provider, records>>

\* Mutant: a lookup that fails counts as one that finds nothing.
ResolveProviderForgiving(a) ==
    /\ run[a].at = "resolve"
    /\ \E cfg \in {"env"} \cup (IF provider = "there" THEN {"own"} ELSE {}) :
          run' = [run EXCEPT ![a].at = "start", ![a].cfg = cfg]
    /\ UNCHANGED <<flow, keyed, provider, records>>

\* resolve_provider on another connection: the row may be gone by now, and then the
\* environment's key and URL are used; if the lookup fails, so does the attempt (Raise).
ResolveProvider(a) ==
    /\ run[a].at = "resolve"
    /\ run' = [run EXCEPT ![a].at = "start", ![a].cfg = IF provider = "there" THEN "own" ELSE "env"]
    /\ UNCHANGED <<flow, keyed, provider, records>>

LogStart(a) == run[a].at = "start" /\ Write(a, 0, "send")
LogSend(a) == run[a].at = "send" /\ Write(a, 1, "call")

\* The LLM answers, with usage or without, or refuses.
CallLlm(a) ==
    /\ run[a].at = "call"
    /\ \/ \E metered \in BOOLEAN :
             run' = [run EXCEPT ![a].at = "answered", ![a].out = "events", ![a].metered = metered]
       \/ run' = [run EXCEPT ![a].at = "refused", ![a].out = "refused"]
    /\ UNCHANGED <<flow, keyed, provider, records>>

\* Mutant: the outcome always has the last row, whichever it is.
LogRefusedLast(a) == run[a].at = "refused" /\ Write(a, 3, "done")

LogRefused(a) == run[a].at = "refused" /\ Write(a, 2, "done")
LogAnswered(a) ==
    run[a].at = "answered" /\ Write(a, 2, IF run[a].metered THEN "usage" ELSE "completed")

\* Mutant: ON CONFLICT DO NOTHING.
RecordUsageOnce(a) ==
    /\ run[a].at = "usage"
    /\ \/ /\ usage' = [usage EXCEPT ![a[1]] = IF @ = NoRow THEN Upsert(@, a[2]) ELSE @]
          /\ Goto(a, "record")
       \/ UNCHANGED usage /\ Miss(a, "record")
    /\ UNCHANGED <<flow, keyed, provider, log, calls>>

RecordUsage(a) ==
    /\ run[a].at = "usage"
    /\ \/ usage' = [usage EXCEPT ![a[1]] = Upsert(@, a[2])] /\ Goto(a, "record")
       \/ UNCHANGED usage /\ Miss(a, "record")
    /\ UNCHANGED <<flow, keyed, provider, log, calls>>

\* Mutant: the row is replaced as a whole, in this table only.
RecordCallWhole(a) ==
    /\ run[a].at = "record"
    /\ \/ calls' = [calls EXCEPT ![a[1]] = Upsert(NoRow, a[2])] /\ Goto(a, "completed")
       \/ UNCHANGED calls /\ Miss(a, "completed")
    /\ UNCHANGED <<flow, keyed, provider, log, usage>>

RecordCall(a) ==
    /\ run[a].at = "record"
    /\ \/ calls' = [calls EXCEPT ![a[1]] = Upsert(@, a[2])] /\ Goto(a, "completed")
       \/ UNCHANGED calls /\ Miss(a, "completed")
    /\ UNCHANGED <<flow, keyed, provider, log, usage>>

LogCompleted(a) == run[a].at = "completed" /\ Write(a, 3, "done")
-----------------------------------------------------------------------------
(* The workflow and Temporal.                                              *)

\* The next attempt, or run() fails after the last one; a late attempt changes nothing.
Reschedule(a) ==
    IF a # live \/ wf # "running" THEN UNCHANGED flow
    ELSE IF a[2] < MaxAttempts THEN live' = <<a[1], a[2] + 1>> /\ UNCHANGED <<wf, taken>>
    ELSE wf' = "failed" /\ UNCHANGED <<live, taken>>

\* The database, the chunk or the LLM fails, and the activity with it.
Raise(a) ==
    /\ run[a].at \in {"read", "resolve", "call"}
    /\ Goto(a, "over") /\ Reschedule(a)
    /\ UNCHANGED <<keyed, provider, records>>

\* The result of the attempt the workflow awaits sends it to the next chunk.
Report(a) ==
    /\ run[a].at = "done"
    /\ Goto(a, "over")
    /\ IF a = live /\ wf = "running"
       THEN /\ taken' = [taken EXCEPT ![a[1]] = a[2]]
            /\ IF a[1] < NumChunks THEN live' = <<a[1] + 1, 1>> /\ UNCHANGED wf
               ELSE wf' = "done" /\ UNCHANGED live
       ELSE UNCHANGED flow
    /\ UNCHANGED <<keyed, provider, records>>

\* start_to_close_timeout of an attempt that died, or that still runs.
Timeout(a) ==
    /\ a = live /\ wf = "running" /\ run[a].at \in {"lost", "torn"}
    /\ Reschedule(a)
    /\ UNCHANGED <<run, keyed, provider, records>>

TimeoutLate(a) ==
    /\ a = live /\ wf = "running" /\ Running(a) /\ MayDisturb(a)
    /\ run' = [run EXCEPT ![a].late = TRUE] /\ Reschedule(a)
    /\ UNCHANGED <<keyed, provider, records>>

CancelLate(a) ==
    /\ Running(a) /\ run[a].late
    /\ run' = [run EXCEPT ![a] = Dead(a)]
    /\ UNCHANGED <<flow, keyed, provider, records>>

\* The worker dies with all its attempts.
Crash ==
    /\ \E a \in Attempts : Running(a)
    /\ run' = [a \in Attempts |-> IF Running(a) THEN Dead(a) ELSE run[a]]
    /\ UNCHANGED <<flow, keyed, provider, records>>

\* DELETE FROM llm_provider; the foreign key sets provider_id to NULL.
DeleteProvider ==
    /\ provider = "there" /\ provider' = "gone"
    /\ UNCHANGED <<run, flow, keyed, records>>
-----------------------------------------------------------------------------
Work(a) ==
    \/ Claim(a) \/ Degraded(a) \/ ReadDocument(a) \/ ResolveProvider(a)
    \/ LogStart(a) \/ LogSend(a) \/ CallLlm(a) \/ LogRefused(a) \/ LogAnswered(a)
    \/ RecordUsage(a) \/ RecordCall(a) \/ LogCompleted(a) \/ Raise(a) \/ Report(a)

Next ==
    \/ \E a \in Attempts : Work(a) \/ Timeout(a) \/ TimeoutLate(a) \/ CancelLate(a)
    \/ Crash \/ DeleteProvider

Spec == Init /\ [][Next]_vars
-----------------------------------------------------------------------------
Before(a, b) == a[1] < b[1] \/ (a[1] = b[1] /\ a[2] < b[2])

\* No attempt outlived its timeout or failed to write what it had to.
Undisturbed(c) == \A n \in 1..MaxAttempts : ~Disturbed(<<c, n>>)

\* The events the workflow took on are those of the recorded response, and the
\* tokens counted are theirs, however many attempts died or were repeated before.
AnswerIsRecorded ==
    \A c \in Chunks :
        LET a == <<c, taken[c]>>
        IN  taken[c] # 0 /\ Undisturbed(c) /\ run[a].out = "events" /\ run[a].metered
                => calls[c].text = taken[c] /\ usage[c].text = taken[c]

\* The two tables tell of the same attempts, in tokens and in cost, unless one died
\* between its two writes.
TablesAgree ==
    \A c \in Chunks :
        Undisturbed(c) /\ (\A n \in 1..MaxAttempts : run[<<c, n>>].at \notin {"record", "torn"})
            => usage[c] = calls[c]

\* The log is layered: a row is never older than the one after it.  What the last
\* attempt did is a prefix of the log; the rest tells of earlier attempts and chunks.
LogIsLayered ==
    (\A c \in Chunks : Undisturbed(c)) =>
        \A s \in 0..2 : ~Before(log[s], log[s + 1])

\* The events of one document may come from two models, those of its provider and of
\* the environment, but only in this order, parted by the deletion of the provider: once
\* events of the environment's were taken, no attempt of a later chunk asks the provider.
\* A lookup that fails, or an attempt that is repeated, never changes over.
SwitchesOnce ==
    \A c \in Chunks, a \in Attempts :
        taken[c] # 0 /\ run[<<c, taken[c]>>].cfg = "env" /\ c < a[1] => run[a].cfg # "own"
=============================================================================
