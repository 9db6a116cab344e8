-------------------------- MODULE ExtractionProofs ---------------------------
(***************************************************************************)
(* For any number of chunks, attempts and disturbances: what the attempts  *)
(* of extract_events leave behind in log, usage and call records tells of  *)
(* the answer the workflow took, and the events of one document are those  *)
(* of its provider's model first and of the environment's afterwards.      *)
(***************************************************************************)
EXTENDS Extraction, TLAPS

Steps == {"queued", "degraded", "read", "resolve", "start", "send", "call", "answered", "refused",
          "usage", "record", "completed", "done", "over", "lost", "torn"}
Run == [at : Steps, cfg : {"none", "env", "own"}, out : {"none", "degraded", "events", "refused"},
        metered : BOOLEAN, late : BOOLEAN, missed : BOOLEAN]
Record == [text : 0..MaxAttempts, cost : 0..MaxAttempts]

\* Type invariant of the attempts, of the workflow's position and of the records.
TypeOK ==
    /\ run \in [Attempts -> Run]
    /\ live \in Attempts /\ wf \in {"running", "failed", "done"}
    /\ taken \in [Chunks -> 0..MaxAttempts]
    /\ keyed \in BOOLEAN /\ provider \in {"there", "gone"}
    /\ log \in [0..3 -> Attempts \cup {Nobody}]
    /\ usage \in [Chunks -> Record] /\ calls \in [Chunks -> Record]

\* Attempts come in order: those behind the live one have not begun, those
\* before it have ended or are late, and no record is from the future.
OrderInv ==
    /\ \A a \in Attempts : Before(live, a) => run[a].at = "queued"
    /\ \A a \in Attempts : Running(a) => run[a].late \/ (a = live /\ wf = "running")
    /\ \A c \in Chunks : taken[c] # 0 => c < live[1] \/ wf # "running"
    /\ \A s \in 0..3 : ~Before(live, log[s])

\* Only an attempt that got its answer has usage to record.
MeteredInv ==
    \A a \in Attempts : run[a].metered =>
        run[a].at \in {"answered", "usage", "record", "completed", "done", "over"}

\* The rows of the log that an attempt has written when it is at a step.
Written(at) ==
    CASE at = "send" -> 1
      [] at \in {"call", "answered", "refused"} -> 2
      [] at \in {"usage", "record", "completed"} -> 3
      [] OTHER -> 0

\* Without disturbances the running attempt owns the first rows of the log and
\* the others are from before, newest first.
LogInv ==
    (\A c \in Chunks : Undisturbed(c)) =>
        /\ \A s \in 0..2 : ~Before(log[s], log[s + 1])
        /\ \A a \in Attempts : Running(a) =>
              \A s \in 0..3 : s < Written(run[a].at) => log[s] = a

\* Attempt n of chunk c has written the records before the steps that come after them.
Recorded(c, n) ==
    /\ run[<<c, n>>].at = "record" => usage[c].text = n
    /\ run[<<c, n>>].metered /\ (run[<<c, n>>].at \in {"completed", "done"} \/ taken[c] = n)
          => usage[c].text = n /\ calls[c].text = n

RecordInv == \A c \in Chunks : Undisturbed(c) => \A n \in 1..MaxAttempts : Recorded(c, n)

\* Between the two writes the usage row is one upsert ahead of the call row.
Level(c) ==
    /\ \A n \in 1..MaxAttempts :
          run[<<c, n>>].at = "record" => usage[c] = Upsert(calls[c], n)
    /\ (\A n \in 1..MaxAttempts : run[<<c, n>>].at # "record") => usage[c] = calls[c]

TablesInv ==
    \A c \in Chunks :
        Undisturbed(c) /\ (\A n \in 1..MaxAttempts : run[<<c, n>>].at # "torn") => Level(c)

\* The environment is used when the provider is gone, the choice is made once in an
\* attempt, and attempts whose events were taken have made it.
SwitchInv ==
    /\ \A a \in Attempts : run[a].cfg = "env" => provider = "gone"
    /\ \A a \in Attempts : run[a].at \in {"queued", "read", "resolve"} => run[a].cfg = "none"
    /\ \A c \in Chunks : taken[c] # 0 => run[<<c, taken[c]>>].at = "over"
    /\ SwitchesOnce

ExtractionInv ==
    /\ TypeOK /\ OrderInv /\ MeteredInv /\ LogInv /\ RecordInv /\ TablesInv /\ SwitchInv
-----------------------------------------------------------------------------
(* What the steps do to the attempts.                                      *)

\* The attempt a alone goes to a step; what disturbed it is not forgotten.
Moved(a, step) ==
    /\ run' \in [Attempts -> Run]
    /\ \A b \in Attempts : b # a => run'[b] = run[b]
    /\ run'[a].at = step /\ run'[a].late = run[a].late
    /\ run[a].missed => run'[a].missed

\* Going on, an attempt keeps its configuration and its outcome.
Kept(a) ==
    /\ run'[a].cfg = run[a].cfg /\ run'[a].out = run[a].out
    /\ run'[a].metered = run[a].metered

LEMMA GotoMoves ==
    ASSUME TypeOK, NEW a \in Attempts, NEW step \in Steps, Goto(a, step)
    PROVE  Moved(a, step) /\ Kept(a) /\ run'[a].missed = run[a].missed
BY DEF TypeOK, Run, Goto, Moved, Kept

LEMMA MissMoves ==
    ASSUME TypeOK, NEW a \in Attempts, NEW step \in Steps, Miss(a, step)
    PROVE  Moved(a, step) /\ Kept(a) /\ run'[a].missed
BY DEF TypeOK, Run, Miss, Moved, Kept

\* Either the row is written or it is noted that it was not.
LEMMA WriteMoves ==
    ASSUME TypeOK, NEW a \in Attempts, NEW s \in 0..3, NEW step \in Steps, Write(a, s, step)
    PROVE  /\ Moved(a, step) /\ Kept(a)
           /\ log' = [log EXCEPT ![s] = a] \/ (log' = log /\ run'[a].missed)
           /\ UNCHANGED <<flow, keyed, provider, usage, calls>>
BY GotoMoves, MissMoves DEF Write

\* The steps an attempt can go to from the one it is at.
Follows(at, step) ==
    \/ at = "queued" /\ step \in {"read", "degraded"}
    \/ at = "read" /\ step \in {"resolve", "start", "over"}
    \/ at = "resolve" /\ step \in {"start", "over"}
    \/ at = "start" /\ step = "send"
    \/ at = "send" /\ step = "call"
    \/ at = "call" /\ step \in {"answered", "refused", "over"}
    \/ at = "answered" /\ step \in {"usage", "completed"}
    \/ at = "usage" /\ step = "record"
    \/ at = "record" /\ step = "completed"
    \/ at \in {"degraded", "refused", "completed"} /\ step = "done"
    \/ at = "done" /\ step = "over"

\* The steps that write no record.
Thinking(a) ==
    Claim(a) \/ ReadDocument(a) \/ ResolveProvider(a) \/ CallLlm(a) \/ Raise(a) \/ Report(a)

\* The steps that write a row of the log.
Logging(a) ==
    \/ Degraded(a) \/ LogStart(a) \/ LogSend(a)
    \/ LogRefused(a) \/ LogAnswered(a) \/ LogCompleted(a)

\* An attempt goes on with a configuration, or with an outcome.
LEMMA ConfigMoves ==
    ASSUME TypeOK, NEW a \in Attempts, NEW step \in Steps, NEW c \in {"none", "env", "own"},
           run' = [run EXCEPT ![a].at = step, ![a].cfg = c]
    PROVE  /\ Moved(a, step) /\ run'[a].cfg = c
           /\ run'[a].missed = run[a].missed /\ run'[a].metered = run[a].metered
BY DEF TypeOK, Run, Moved

LEMMA OutcomeMoves ==
    ASSUME TypeOK, NEW a \in Attempts, NEW step \in Steps,
           NEW o \in {"none", "degraded", "events", "refused"},
           run' = [run EXCEPT ![a].at = step, ![a].out = o]
    PROVE  /\ Moved(a, step) /\ run'[a].cfg = run[a].cfg
           /\ run'[a].missed = run[a].missed /\ run'[a].metered = run[a].metered
BY DEF TypeOK, Run, Moved

LEMMA ThinkingMoves ==
    ASSUME TypeOK, NEW a \in Attempts, Thinking(a)
    PROVE  /\ Moved(a, run'[a].at) /\ Follows(run[a].at, run'[a].at)
           /\ run'[a].missed = run[a].missed
           /\ run'[a].metered = run[a].metered \/ run[a].at = "call"
           /\ Running(a) \/ Claim(a)
           /\ UNCHANGED records
<1>1. CASE Claim(a)
  <2>1. CASE keyed
    <3>1. Goto(a, "read")
      BY <1>1, <2>1 DEF Claim, Goto
    <3> QED
      BY <1>1, <3>1, GotoMoves DEF Claim, Kept, Moved, Steps, Follows, records
  <2>2. CASE ~keyed
    <3>1. run' = [run EXCEPT ![a].at = "degraded", ![a].out = "degraded"]
      BY <1>1, <2>2 DEF Claim
    <3> QED
      BY <1>1, <3>1, OutcomeMoves DEF Claim, Moved, Steps, Follows, records
  <2> QED
    BY <2>1, <2>2
<1>2. CASE ReadDocument(a)
  <2>1. CASE provider = "there"
    <3>1. Goto(a, "resolve")
      BY <1>2, <2>1 DEF ReadDocument, Goto
    <3> QED
      BY <1>2, <3>1, GotoMoves DEF ReadDocument, Kept, Moved, Steps, Follows, Running, records
  <2>2. CASE provider # "there"
    <3>1. run' = [run EXCEPT ![a].at = "start", ![a].cfg = "env"]
      BY <1>2, <2>2 DEF ReadDocument
    <3> QED
      BY <1>2, <3>1, ConfigMoves DEF ReadDocument, Moved, Steps, Follows, Running, records
  <2> QED
    BY <2>1, <2>2
<1>3. CASE ResolveProvider(a)
  <2>1. PICK c \in {"own", "env"} : run' = [run EXCEPT ![a].at = "start", ![a].cfg = c]
    BY <1>3 DEF ResolveProvider
  <2>2. c \in {"none", "env", "own"} /\ "start" \in Steps
    BY DEF Steps
  <2>3. /\ Moved(a, "start")
        /\ run'[a].missed = run[a].missed /\ run'[a].metered = run[a].metered
    BY <2>1, <2>2, ConfigMoves
  <2> QED
    BY <1>3, <2>3 DEF ResolveProvider, Moved, Follows, Running, records
<1>4. CASE CallLlm(a)
  BY <1>4 DEF TypeOK, Run, Steps, CallLlm, Moved, Follows, Running, records
<1>5. CASE Raise(a)
  BY <1>5, GotoMoves DEF Raise, Kept, Moved, Steps, Follows, Running, records
<1>6. CASE Report(a)
  BY <1>6, GotoMoves DEF Report, Kept, Moved, Steps, Follows, Running, records
<1> QED
  BY <1>1, <1>2, <1>3, <1>4, <1>5, <1>6 DEF Thinking

\* A row is written where the rows before it are, and then counts as written.
LEMMA LoggingMoves ==
    ASSUME TypeOK, NEW a \in Attempts, Logging(a)
    PROVE  /\ Moved(a, run'[a].at) /\ Follows(run[a].at, run'[a].at) /\ Kept(a)
           /\ run'[a].at = "completed" => ~run[a].metered
           /\ \E s \in 0..3 :
                 /\ log' = [log EXCEPT ![s] = a] \/ (log' = log /\ run'[a].missed)
                 /\ s = Written(run[a].at)
                 /\ Written(run'[a].at) = IF run'[a].at = "done" THEN 0 ELSE s + 1
           /\ Running(a)
           /\ UNCHANGED <<flow, keyed, provider, usage, calls>>
<1> DEFINE Goal == /\ Moved(a, run'[a].at) /\ Follows(run[a].at, run'[a].at) /\ Kept(a)
                   /\ run'[a].at = "completed" => ~run[a].metered
                   /\ \E s \in 0..3 :
                         /\ log' = [log EXCEPT ![s] = a] \/ (log' = log /\ run'[a].missed)
                         /\ s = Written(run[a].at)
                         /\ Written(run'[a].at) = IF run'[a].at = "done" THEN 0 ELSE s + 1
                   /\ Running(a)
                   /\ UNCHANGED <<flow, keyed, provider, usage, calls>>
<1> SUFFICES Goal
  OBVIOUS
<1>0. ASSUME NEW at \in Steps, NEW step \in Steps, NEW s \in 0..3,
             run[a].at = at, Write(a, s, step),
             Follows(at, step), step = "completed" => ~run[a].metered,
             s = Written(at), Written(step) = IF step = "done" THEN 0 ELSE s + 1,
             at \notin {"queued", "over", "lost", "torn"}
      PROVE  Goal
  <2>2. /\ Moved(a, step) /\ Kept(a)
        /\ log' = [log EXCEPT ![s] = a] \/ (log' = log /\ run'[a].missed)
        /\ UNCHANGED <<flow, keyed, provider, usage, calls>>
    BY <1>0, WriteMoves
  <2>3. run'[a].at = step
    BY <2>2 DEF Moved
  <2> QED
    BY <1>0, <2>2, <2>3 DEF Running
<1>1. CASE Degraded(a)
  BY <1>1, <1>0 DEF Degraded, Steps, Follows, Written
<1>2. CASE LogStart(a)
  BY <1>2, <1>0 DEF LogStart, Steps, Follows, Written
<1>3. CASE LogSend(a)
  BY <1>3, <1>0 DEF LogSend, Steps, Follows, Written
<1>4. CASE LogRefused(a)
  BY <1>4, <1>0 DEF LogRefused, Steps, Follows, Written
<1>5. CASE LogAnswered(a)
  <2>1. CASE run[a].metered
    BY <1>5, <2>1, <1>0 DEF LogAnswered, Steps, Follows, Written
  <2>2. CASE ~run[a].metered
    BY <1>5, <2>2, <1>0 DEF LogAnswered, Steps, Follows, Written
  <2> QED
    BY <2>1, <2>2
<1>6. CASE LogCompleted(a)
  BY <1>6, <1>0 DEF LogCompleted, Steps, Follows, Written
<1> QED
  BY <1>1, <1>2, <1>3, <1>4, <1>5, <1>6 DEF Logging

LEMMA UsageMoves ==
    ASSUME TypeOK, NEW a \in Attempts, RecordUsage(a)
    PROVE  /\ Moved(a, "record") /\ run[a].at = "usage" /\ Kept(a) /\ Running(a)
           /\ \/ usage' = [usage EXCEPT ![a[1]] = Upsert(@, a[2])]
              \/ usage' = usage /\ run'[a].missed
           /\ UNCHANGED <<flow, keyed, provider, log, calls>>
BY GotoMoves, MissMoves DEF RecordUsage, Steps, Running

LEMMA CallMoves ==
    ASSUME TypeOK, NEW a \in Attempts, RecordCall(a)
    PROVE  /\ Moved(a, "completed") /\ run[a].at = "record" /\ Kept(a) /\ Running(a)
           /\ \/ calls' = [calls EXCEPT ![a[1]] = Upsert(@, a[2])]
              \/ calls' = calls /\ run'[a].missed
           /\ UNCHANGED <<flow, keyed, provider, log, usage>>
BY GotoMoves, MissMoves DEF RecordCall, Steps, Running

LEMMA WorkKinds ==
    ASSUME NEW a \in Attempts
    PROVE  Work(a) <=> Thinking(a) \/ Logging(a) \/ RecordUsage(a) \/ RecordCall(a)
BY DEF Work, Thinking, Logging

\* An attempt that works is running, or is the one that a worker now polls.
LEMMA WorkMoves ==
    ASSUME TypeOK, NEW a \in Attempts, Work(a)
    PROVE  /\ Moved(a, run'[a].at) /\ Follows(run[a].at, run'[a].at)
           /\ Running(a) \/ Claim(a)
<1>1. CASE Thinking(a)
  BY <1>1, ThinkingMoves
<1>2. CASE Logging(a)
  BY <1>2, LoggingMoves
<1>3. CASE RecordUsage(a)
  BY <1>3, UsageMoves DEF Moved, Follows
<1>4. CASE RecordCall(a)
  BY <1>4, CallMoves DEF Moved, Follows
<1> QED
  BY <1>1, <1>2, <1>3, <1>4, WorkKinds

\* The steps of workflow and workers that end attempts or give up on them.
Ended(b) ==
    /\ Running(b)
    /\ run'[b].at = IF run[b].at = "record" THEN "torn" ELSE "lost"
    /\ ~run'[b].metered /\ run'[b].late = run[b].late /\ run'[b].missed = run[b].missed

LEMMA DeadFields ==
    ASSUME TypeOK, NEW a \in Attempts
    PROVE  /\ Dead(a) \in Run /\ ~Dead(a).metered
           /\ Dead(a).at = IF run[a].at = "record" THEN "torn" ELSE "lost"
           /\ Dead(a).late = run[a].late /\ Dead(a).missed = run[a].missed
<1>1. run[a] \in Run
  BY DEF TypeOK
<1>2. Dead(a) \in Run
  BY <1>1 DEF Run, Dead, Steps
<1>3. Dead(a).metered = FALSE
  BY <1>1 DEF Run, Dead
<1>4. Dead(a).at = IF run[a].at = "record" THEN "torn" ELSE "lost"
  BY <1>1 DEF Run, Dead
<1>5. Dead(a).late = run[a].late
  BY <1>1 DEF Run, Dead
<1>6. Dead(a).missed = run[a].missed
  BY <1>1 DEF Run, Dead
<1> QED
  BY <1>2, <1>3, <1>4, <1>5, <1>6

LEMMA CancelMoves ==
    ASSUME TypeOK, NEW a \in Attempts, CancelLate(a)
    PROVE  /\ run' \in [Attempts -> Run] /\ run[a].late /\ Ended(a)
           /\ \A b \in Attempts : b # a => run'[b] = run[b]
<1>1. Dead(a) \in Run
  BY DeadFields
<1>2. run' = [run EXCEPT ![a] = Dead(a)] /\ Running(a) /\ run[a].late
  BY DEF CancelLate
<1>3. run'[a] = Dead(a)
  BY <1>2 DEF TypeOK
<1>4. Ended(a)
  BY <1>2, <1>3, DeadFields DEF Ended
<1> QED
  BY <1>1, <1>2, <1>4 DEF TypeOK

LEMMA CrashMoves ==
    ASSUME TypeOK, Crash
    PROVE  /\ run' \in [Attempts -> Run]
           /\ \A b \in Attempts : IF Running(b) THEN Ended(b) ELSE run'[b] = run[b]
<1>1. \A b \in Attempts : run[b] \in Run /\ Dead(b) \in Run
  BY DeadFields DEF TypeOK
<1>2. run' = [b \in Attempts |-> IF Running(b) THEN Dead(b) ELSE run[b]]
  BY DEF Crash
<1>3. ASSUME NEW b \in Attempts, Running(b)
      PROVE  Ended(b)
  <2>1. run'[b] = Dead(b)
    BY <1>2, <1>3
  <2> QED
    BY <1>3, <2>1, DeadFields DEF Ended
<1> QED
  BY <1>1, <1>2, <1>3

LEMMA LateMoves ==
    ASSUME TypeOK, NEW a \in Attempts, TimeoutLate(a)
    PROVE  /\ run' \in [Attempts -> Run]
           /\ \A b \in Attempts : b # a => run'[b] = run[b]
           /\ run'[a].at = run[a].at /\ run'[a].late /\ Kept(a)
           /\ run'[a].missed = run[a].missed
BY DEF TypeOK, Run, TimeoutLate, Kept

\* The position of the workflow moves on, by an attempt or to its failure.
LEMMA RescheduleForward ==
    ASSUME TypeOK, NEW a \in Attempts, Reschedule(a)
    PROVE  /\ live' \in Attempts /\ taken' = taken
           /\ wf' = wf \/ (wf = "running" /\ wf' = "failed")
           /\ a # live => UNCHANGED flow
           /\ live' = live \/ (live'[1] = live[1] /\ live'[2] = live[2] + 1)
BY ExtractionAssumption DEF TypeOK, Reschedule, flow, Attempts

LEMMA ReportForward ==
    ASSUME TypeOK, NEW a \in Attempts, Report(a)
    PROVE  /\ live' \in Attempts
           /\ \/ UNCHANGED flow
              \/ /\ a = live /\ wf = "running" /\ taken' = [taken EXCEPT ![a[1]] = a[2]]
                 /\ \/ live' = <<live[1] + 1, 1>> /\ wf' = wf
                    \/ live' = live /\ wf' = "done"
           /\ a # live => UNCHANGED flow
<1>1. CASE a = live /\ wf = "running" /\ a[1] < NumChunks
  <2>1. <<a[1] + 1, 1>> \in Attempts
    BY <1>1, ExtractionAssumption DEF Attempts, Chunks
  <2> QED
    BY <1>1, <2>1 DEF Report
<1>2. CASE a = live /\ wf = "running" /\ ~(a[1] < NumChunks)
  BY <1>2 DEF Report
<1>3. CASE ~(a = live /\ wf = "running")
  BY <1>3 DEF Report, TypeOK, flow
<1> QED
  BY <1>1, <1>2, <1>3

\* Who works leaves the workflow's position alone, until it raises or reports.
LEMMA FlowStays ==
    ASSUME TypeOK, NEW a \in Attempts, Work(a), ~Raise(a), ~Report(a)
    PROVE  UNCHANGED flow
<1>1. CASE Thinking(a)
  BY <1>1 DEF Thinking, Claim, ReadDocument, ResolveProvider, CallLlm, Raise, Report
<1>2. CASE Logging(a)
  BY <1>2, LoggingMoves
<1>3. CASE RecordUsage(a) \/ RecordCall(a)
  BY <1>3 DEF RecordUsage, RecordCall
<1> QED
  BY <1>1, <1>2, <1>3, WorkKinds
-----------------------------------------------------------------------------
(* Types and the order of the attempts.                                    *)

LEMMA UpsertType ==
    ASSUME NEW row \in Record, NEW n \in 0..MaxAttempts
    PROVE  Upsert(row, n) \in Record
BY DEF Upsert, Record

LEMMA TypesInit == Init => TypeOK
<1>1. <<1, 1>> \in Attempts
  BY ExtractionAssumption DEF Attempts, Chunks
<1>2. NoRow \in Record
  BY ExtractionAssumption DEF NoRow, Record
<1> QED
  BY <1>1, <1>2, ExtractionAssumption DEF Init, TypeOK, Run, Steps

LEMMA TypesWork == ASSUME TypeOK, NEW a \in Attempts, Work(a) PROVE TypeOK'
<1>0. run' \in [Attempts -> Run] /\ a[1] \in Chunks /\ a[2] \in 1..MaxAttempts
  BY WorkMoves DEF Moved, Attempts
<1>1. /\ live' \in Attempts /\ wf' \in {"running", "failed", "done"}
      /\ taken' \in [Chunks -> 0..MaxAttempts]
  <2>1. CASE Raise(a)
    BY <2>1, RescheduleForward DEF Raise, TypeOK
  <2>2. CASE Report(a)
    BY <1>0, <2>2, ReportForward DEF TypeOK, flow
  <2>3. CASE ~Raise(a) /\ ~Report(a)
    BY <2>3, FlowStays DEF TypeOK, flow
  <2> QED
    BY <2>1, <2>2, <2>3
<1>2. CASE Thinking(a)
  <2>1. UNCHANGED <<keyed, provider, log, usage, calls>>
    BY <1>2 DEF Thinking, Claim, ReadDocument, ResolveProvider, CallLlm, Raise, Report, records
  <2> QED
    BY <1>0, <1>1, <2>1 DEF TypeOK
<1>3. CASE Logging(a)
  <2>1. log' \in [0..3 -> Attempts \cup {Nobody}]
    BY <1>3, LoggingMoves DEF TypeOK
  <2>2. UNCHANGED <<keyed, provider, usage, calls>>
    BY <1>3, LoggingMoves
  <2> QED
    BY <1>0, <1>1, <2>1, <2>2 DEF TypeOK
<1>4. CASE RecordUsage(a)
  <2>1. Upsert(usage[a[1]], a[2]) \in Record
    BY <1>0, UpsertType DEF TypeOK
  <2>2. usage' \in [Chunks -> Record]
    BY <1>4, <2>1, UsageMoves DEF TypeOK
  <2> QED
    BY <1>0, <1>1, <1>4, <2>2, UsageMoves DEF TypeOK
<1>5. CASE RecordCall(a)
  <2>1. Upsert(calls[a[1]], a[2]) \in Record
    BY <1>0, UpsertType DEF TypeOK
  <2>2. calls' \in [Chunks -> Record]
    BY <1>5, <2>1, CallMoves DEF TypeOK
  <2> QED
    BY <1>0, <1>1, <1>5, <2>2, CallMoves DEF TypeOK
<1> QED
  BY <1>2, <1>3, <1>4, <1>5, WorkKinds

LEMMA TypesStep == TypeOK /\ [Next]_vars => TypeOK'
<1> SUFFICES ASSUME TypeOK, [Next]_vars PROVE TypeOK'
  OBVIOUS
<1>1. ASSUME NEW a \in Attempts, Work(a) PROVE TypeOK'
  BY <1>1, TypesWork
<1>2. ASSUME NEW a \in Attempts, Timeout(a) PROVE TypeOK'
  BY <1>2, RescheduleForward DEF Timeout, TypeOK, records
<1>3. ASSUME NEW a \in Attempts, TimeoutLate(a) PROVE TypeOK'
  BY <1>3, RescheduleForward, LateMoves DEF TimeoutLate, TypeOK, records
<1>4. ASSUME NEW a \in Attempts, CancelLate(a) PROVE TypeOK'
  BY <1>4, CancelMoves DEF CancelLate, TypeOK, records, flow
<1>5. CASE Crash
  BY <1>5, CrashMoves DEF Crash, TypeOK, records, flow
<1>6. CASE DeleteProvider
  BY <1>6 DEF DeleteProvider, TypeOK, records, flow
<1>7. CASE UNCHANGED vars
  BY <1>7 DEF vars, TypeOK
<1> QED
  BY <1>1, <1>2, <1>3, <1>4, <1>5, <1>6, <1>7 DEF Next

\* The order of the attempts, with what moves on behind.
LEMMA BeforeAdvances ==
    ASSUME NEW a \in Attempts, NEW b \in Attempts, NEW x \in Attempts \cup {Nobody},
           b = a \/ (b[1] = a[1] /\ b[2] = a[2] + 1) \/ b = <<a[1] + 1, 1>>,
           Before(b, x)
    PROVE  Before(a, x) /\ x # a
BY ExtractionAssumption DEF Before, Attempts, Chunks, Nobody

LEMMA BeforeSelf == ASSUME NEW a \in Attempts PROVE ~Before(a, a)
BY DEF Before, Attempts, Chunks

\* An attempt that runs undisturbed is the one the workflow waits for, and is
\* the first of its chunk to bring events.
LEMMA UndisturbedIsLive ==
    ASSUME TypeOK, OrderInv, NEW a \in Attempts, Running(a), Undisturbed(a[1])
    PROVE  a = live /\ wf = "running" /\ taken[a[1]] = 0
<1>1. a[1] \in Chunks /\ a[2] \in 1..MaxAttempts /\ a = <<a[1], a[2]>>
  BY DEF Attempts
<1>2. ~Disturbed(a)
  BY <1>1 DEF Undisturbed
<1>3. a = live /\ wf = "running"
  BY <1>2 DEF OrderInv, Disturbed
<1> QED
  BY <1>1, <1>3 DEF OrderInv, Chunks

LEMMA OrderInit == Init => OrderInv
BY ExtractionAssumption DEF Init, OrderInv, Running, Before, Attempts, Chunks, Nobody

\* What carries the invariant over a step on which the workflow stays.
LEMMA OrderStays ==
    ASSUME TypeOK, OrderInv, UNCHANGED flow,
           \A b \in Attempts : Running(b)' => \/ Running(b) /\ (run[b].late => run'[b].late)
                                              \/ b = live /\ wf = "running",
           \A b \in Attempts : Before(live, b) => run'[b].at = "queued",
           \A s \in 0..3 : log'[s] = log[s] \/ ~Before(live, log'[s])
    PROVE  OrderInv'
BY DEF OrderInv, flow, Before

LEMMA OrderWork ==
    ASSUME TypeOK, OrderInv, NEW a \in Attempts, Work(a)
    PROVE  OrderInv'
<1>1. /\ \A b \in Attempts : b # a => run'[b] = run[b]
      /\ run'[a].late = run[a].late
      /\ Running(a) \/ Claim(a)
  BY WorkMoves DEF Moved
<1>2. ~Before(live, a)
  BY <1>1, BeforeSelf DEF OrderInv, Running, Claim
<1>3. \A s \in 0..3 : log'[s] = log[s] \/ ~Before(live, log'[s])
  <2>1. CASE Thinking(a) \/ RecordUsage(a) \/ RecordCall(a)
    BY <2>1, ThinkingMoves, UsageMoves, CallMoves DEF records
  <2>2. CASE Logging(a)
    <3>1. PICK s \in 0..3 : log' = [log EXCEPT ![s] = a] \/ log' = log
      BY <2>2, LoggingMoves
    <3> QED
      BY <1>2, <3>1 DEF TypeOK
  <2> QED
    BY <2>1, <2>2, WorkKinds
<1>4. CASE ~Raise(a) /\ ~Report(a)
  <2>1. UNCHANGED flow
    BY <1>4, FlowStays
  <2>2. \A b \in Attempts : Running(b)' => \/ Running(b) /\ (run[b].late => run'[b].late)
                                           \/ b = live /\ wf = "running"
    BY <1>1 DEF Running, Claim
  <2>3. \A b \in Attempts : Before(live, b) => run'[b].at = "queued"
    BY <1>1, <1>2 DEF OrderInv
  <2> QED
    BY <1>3, <2>1, <2>2, <2>3, OrderStays
<1>5. CASE Raise(a) \/ Report(a)
  <2>1. log' = log /\ ~Running(a)'
    BY <1>5, GotoMoves DEF Raise, Report, records, Moved, Running, Steps
  <2>2. /\ live' \in Attempts
        /\ live' = live \/ (live'[1] = live[1] /\ live'[2] = live[2] + 1) \/ live' = <<live[1] + 1, 1>>
        /\ a # live => UNCHANGED flow
        /\ wf' # "running" \/ wf' = wf
    BY <1>5, RescheduleForward, ReportForward DEF Raise, flow
  <2>3. \A x \in Attempts \cup {Nobody} : Before(live', x) => Before(live, x)
    BY <2>2, BeforeAdvances DEF TypeOK
  <2>4. \A b \in Attempts : Before(live', b) => run'[b].at = "queued"
    BY <1>1, <1>2, <2>3 DEF OrderInv
  <2>5. \A b \in Attempts : Running(b)' => run'[b].late \/ (b = live' /\ wf' = "running")
    <3> SUFFICES ASSUME NEW b \in Attempts, Running(b)', ~run'[b].late
                 PROVE  b = live' /\ wf' = "running"
      OBVIOUS
    <3>1. b # a /\ Running(b) /\ ~run[b].late
      BY <1>1, <2>1 DEF Running
    <3>2. b = live /\ wf = "running"
      BY <3>1 DEF OrderInv
    <3> QED
      BY <2>2, <3>1, <3>2 DEF flow
  <2>6. \A c \in Chunks : taken'[c] # 0 => c < live'[1] \/ wf' # "running"
    <3>1. CASE taken' = taken
      <4>1. live[1] \in Nat /\ live'[1] \in Nat /\ live[1] <= live'[1]
        BY <2>2 DEF TypeOK, Attempts, Chunks
      <4> QED
        BY <2>2, <3>1, <4>1 DEF OrderInv, Chunks
    <3>2. CASE taken' # taken
      <4>1. ~Raise(a)
        BY <3>2, RescheduleForward DEF Raise
      <4>2. /\ a = live /\ taken' = [taken EXCEPT ![a[1]] = a[2]]
            /\ live' = <<live[1] + 1, 1>> \/ wf' = "done"
        BY <1>5, <3>2, <4>1, ReportForward DEF flow
      <4> SUFFICES ASSUME NEW c \in Chunks, taken'[c] # 0, wf' = "running"
                   PROVE  c < live'[1]
        OBVIOUS
      <4>3. live'[1] = live[1] + 1 /\ live[1] \in Nat
        BY <4>2 DEF TypeOK, Attempts, Chunks
      <4>4. CASE c = live[1]
        BY <4>3, <4>4
      <4>5. CASE c # live[1]
        <5>1. taken[c] # 0
          BY <4>2, <4>5 DEF TypeOK
        <5>2. c < live[1]
          BY <2>2, <5>1 DEF OrderInv
        <5> QED
          BY <4>3, <5>2 DEF Chunks
      <4> QED
        BY <4>4, <4>5
    <3> QED
      BY <3>1, <3>2
  <2>7. \A s \in 0..3 : ~Before(live', log'[s])
    BY <2>1, <2>3 DEF OrderInv, TypeOK
  <2> QED
    BY <2>4, <2>5, <2>6, <2>7 DEF OrderInv, Before
<1> QED
  BY <1>4, <1>5

\* Giving up on the live attempt, which has died or is late from now on.
LEMMA OrderTimeout ==
    ASSUME TypeOK, OrderInv, NEW a \in Attempts, Timeout(a) \/ TimeoutLate(a)
    PROVE  OrderInv'
<1>1. /\ \A b \in Attempts : run'[b].at = run[b].at /\ (run[b].late => run'[b].late)
      /\ a = live /\ (Running(a) => run'[a].late)
      /\ log' = log /\ taken' = taken
  BY LateMoves, RescheduleForward DEF Timeout, TimeoutLate, records, Running
<1>2. /\ live' \in Attempts
      /\ live' = live \/ (live'[1] = live[1] /\ live'[2] = live[2] + 1)
      /\ wf' # "running" \/ wf' = wf
  BY RescheduleForward DEF Timeout, TimeoutLate
<1>3. \A x \in Attempts \cup {Nobody} : Before(live', x) => Before(live, x)
  BY <1>2, BeforeAdvances DEF TypeOK
<1>4. \A b \in Attempts : Before(live', b) => run'[b].at = "queued"
  BY <1>1, <1>3 DEF OrderInv
<1>5. \A b \in Attempts : Running(b)' => run'[b].late
  BY <1>1 DEF OrderInv, Running
<1>6. \A c \in Chunks : taken'[c] # 0 => c < live'[1] \/ wf' # "running"
  BY <1>1, <1>2 DEF OrderInv
<1>7. \A s \in 0..3 : ~Before(live', log'[s])
  BY <1>1, <1>3 DEF OrderInv, TypeOK
<1> QED
  BY <1>4, <1>5, <1>6, <1>7 DEF OrderInv, Before

LEMMA OrderStep == TypeOK /\ OrderInv /\ [Next]_vars => OrderInv'
<1> SUFFICES ASSUME TypeOK, OrderInv, [Next]_vars PROVE OrderInv'
  OBVIOUS
<1>1. ASSUME NEW a \in Attempts, Work(a) PROVE OrderInv'
  BY <1>1, OrderWork
<1>2. ASSUME NEW a \in Attempts, Timeout(a) \/ TimeoutLate(a) PROVE OrderInv'
  BY <1>2, OrderTimeout
<1>3. ASSUME NEW a \in Attempts, CancelLate(a) PROVE OrderInv'
  <2>1. UNCHANGED flow /\ log' = log
    BY <1>3 DEF CancelLate, records
  <2>2. ~Running(a)' /\ Running(a) /\ \A b \in Attempts : b # a => run'[b] = run[b]
    BY <1>3, CancelMoves DEF Ended, Running
  <2>3. ~Before(live, a)
    BY <2>2 DEF OrderInv, Running
  <2>4. \A b \in Attempts : Before(live, b) => run'[b].at = "queued"
    BY <2>2, <2>3 DEF OrderInv
  <2>5. \A b \in Attempts : Running(b)' => Running(b) /\ (run[b].late => run'[b].late)
    BY <2>2 DEF Running
  <2> QED
    BY <2>1, <2>4, <2>5, OrderStays
<1>4. CASE Crash
  <2>1. UNCHANGED flow /\ log' = log
    BY <1>4 DEF Crash, records
  <2>2. \A b \in Attempts : ~Running(b)'
    BY <1>4, CrashMoves DEF Ended, Running
  <2>3. \A b \in Attempts : Before(live, b) => run'[b].at = "queued"
    BY <1>4, CrashMoves DEF OrderInv, Running
  <2> QED
    BY <2>1, <2>2, <2>3, OrderStays
<1>5. CASE DeleteProvider \/ UNCHANGED vars
  BY <1>5 DEF DeleteProvider, vars, flow, records, OrderInv, Running, Before
<1> QED
  BY <1>1, <1>2, <1>3, <1>4, <1>5 DEF Next

\* Usage comes with an answer, and is lost with the attempt.
LEMMA MeteredStep == TypeOK /\ MeteredInv /\ [Next]_vars => MeteredInv'
<1> SUFFICES ASSUME TypeOK, MeteredInv, [Next]_vars PROVE MeteredInv'
  OBVIOUS
<1>1. ASSUME NEW a \in Attempts, Work(a) PROVE MeteredInv'
  <2>1. \A b \in Attempts : b # a => run'[b] = run[b]
    BY <1>1, WorkMoves DEF Moved
  <2>2. Follows(run[a].at, run'[a].at)
    BY <1>1, WorkMoves
  <2>3. (run'[a].metered => run[a].metered) \/ run[a].at = "call"
    BY <1>1, ThinkingMoves, LoggingMoves, UsageMoves, CallMoves, WorkKinds DEF Kept
  <2>4. run'[a].metered =>
            run'[a].at \in {"answered", "usage", "record", "completed", "done", "over"}
    <3>1. CASE run[a].at = "call"
      <4>1. CallLlm(a) \/ Raise(a)
        BY <1>1, <3>1 DEF Work, Claim, Degraded, ReadDocument, ResolveProvider, LogStart, LogSend,
           LogRefused, LogAnswered, RecordUsage, RecordCall, LogCompleted, Report
      <4>2. ~run[a].metered
        BY <3>1 DEF MeteredInv
      <4>3. CASE CallLlm(a)
        BY <4>2, <4>3 DEF CallLlm, TypeOK, Run
      <4>4. CASE Raise(a)
        BY <4>4, GotoMoves DEF Raise, Moved, Steps
      <4> QED
        BY <4>1, <4>3, <4>4
    <3>2. CASE run[a].at # "call"
      BY <2>2, <2>3, <3>2 DEF MeteredInv, Follows
    <3> QED
      BY <3>1, <3>2
  <2> QED
    BY <2>1, <2>4 DEF MeteredInv
<1>2. ASSUME NEW a \in Attempts, Timeout(a) PROVE MeteredInv'
  BY <1>2 DEF Timeout, MeteredInv
<1>3. ASSUME NEW a \in Attempts, TimeoutLate(a) PROVE MeteredInv'
  BY <1>3, LateMoves DEF MeteredInv, Kept
<1>4. ASSUME NEW a \in Attempts, CancelLate(a) PROVE MeteredInv'
  BY <1>4, CancelMoves DEF MeteredInv, Ended
<1>5. CASE Crash
  BY <1>5, CrashMoves DEF MeteredInv, Ended
<1>6. CASE DeleteProvider \/ UNCHANGED vars
  BY <1>6 DEF DeleteProvider, vars, MeteredInv
<1> QED
  BY <1>1, <1>2, <1>3, <1>4, <1>5, <1>6 DEF Next
-----------------------------------------------------------------------------
(* What the attempts leave behind.                                         *)

\* A disturbance is not forgotten.
LEMMA UndisturbedBefore ==
    ASSUME TypeOK, [Next]_vars, NEW c \in Chunks, Undisturbed(c)'
    PROVE  Undisturbed(c)
<1>1. \A b \in Attempts : /\ run[b].late => run'[b].late
                          /\ run[b].missed => run'[b].missed
  <2>1. ASSUME NEW a \in Attempts, Work(a)
        PROVE  \A b \in Attempts : /\ run[b].late => run'[b].late
                                   /\ run[b].missed => run'[b].missed
    BY <2>1, WorkMoves DEF Moved
  <2>2. ASSUME NEW a \in Attempts, Timeout(a) PROVE run' = run
    BY <2>2 DEF Timeout
  <2>3. ASSUME NEW a \in Attempts, TimeoutLate(a)
        PROVE  \A b \in Attempts : /\ run[b].late => run'[b].late
                                   /\ run[b].missed => run'[b].missed
    BY <2>3, LateMoves
  <2>4. ASSUME NEW a \in Attempts, CancelLate(a)
        PROVE  \A b \in Attempts : /\ run[b].late => run'[b].late
                                   /\ run[b].missed => run'[b].missed
    BY <2>4, CancelMoves DEF Ended
  <2>5. CASE Crash
    BY <2>5, CrashMoves DEF Ended
  <2>6. CASE DeleteProvider \/ UNCHANGED vars
    BY <2>6 DEF DeleteProvider, vars
  <2> QED
    BY <2>1, <2>2, <2>3, <2>4, <2>5, <2>6 DEF Next
<1>2. \A n \in 1..MaxAttempts : <<c, n>> \in Attempts
  BY DEF Attempts
<1> QED
  BY <1>1, <1>2 DEF Undisturbed, Disturbed

\* An attempt that is late or has missed a record disturbs its chunk.
LEMMA DisturbedChunk ==
    ASSUME NEW a \in Attempts, run'[a].late \/ run'[a].missed
    PROVE  ~Undisturbed(a[1])'
<1>1. a[2] \in 1..MaxAttempts /\ a = <<a[1], a[2]>>
  BY DEF Attempts
<1>2. Disturbed(<<a[1], a[2]>>)'
  BY <1>1 DEF Disturbed
<1> QED
  BY <1>1, <1>2 DEF Undisturbed

LEMMA LateDisturbs ==
    ASSUME TypeOK, NEW a \in Attempts, TimeoutLate(a) \/ CancelLate(a)
    PROVE  ~Undisturbed(a[1])'
BY LateMoves, CancelMoves, DisturbedChunk DEF Ended

\* When nothing is disturbed, the attempt at work is the live one and alone.
LEMMA WorkIsLive ==
    ASSUME TypeOK, OrderInv, NEW a \in Attempts, Work(a), Undisturbed(a[1])
    PROVE  /\ a = live /\ wf = "running" /\ taken[a[1]] = 0
           /\ \A b \in Attempts : b # a /\ Undisturbed(b[1]) => ~Running(b)
<1>1. Running(a) \/ Claim(a)
  BY WorkMoves
<1>2. a = live /\ wf = "running"
  BY <1>1, UndisturbedIsLive DEF Claim
<1>3. \A b \in Attempts : b # a /\ Undisturbed(b[1]) => ~Running(b)
  BY <1>2, UndisturbedIsLive
<1>4. a[1] \in Chunks /\ a[1] \in Nat
  BY DEF Attempts, Chunks
<1>5. taken[a[1]] = 0
  BY <1>2, <1>4 DEF OrderInv
<1> QED
  BY <1>2, <1>3, <1>5

LEMMA LogWork ==
    ASSUME TypeOK, OrderInv, LogInv, NEW a \in Attempts, Work(a),
           \A c \in Chunks : Undisturbed(c) /\ Undisturbed(c)'
    PROVE  LogInv'
<1>1. /\ a = live /\ a[1] \in Chunks
      /\ \A b \in Attempts : b # a => ~Running(b)
  BY WorkIsLive DEF Attempts
<1>2. \A b \in Attempts : Running(b)' => b = a
  BY <1>1, WorkMoves DEF Moved, Running
<1>3. /\ \A s \in 0..2 : ~Before(log[s], log[s + 1])
      /\ Running(a) => \A s \in 0..3 : s < Written(run[a].at) => log[s] = a
  BY DEF LogInv
<1>4. ~run'[a].missed
  BY <1>1, DisturbedChunk
<1>5. CASE Thinking(a) \/ RecordUsage(a) \/ RecordCall(a)
  <2>1. log' = log
    BY <1>5, ThinkingMoves, UsageMoves, CallMoves DEF records
  <2>2. /\ Follows(run[a].at, run'[a].at)
        /\ Running(a) \/ run[a].at = "queued"
        /\ run[a].at \in {"queued", "read", "resolve", "call", "done", "usage", "record"}
    BY <1>5, WorkMoves, WorkKinds DEF Thinking, Claim, ReadDocument, ResolveProvider, CallLlm,
       Raise, Report, RecordUsage, RecordCall
  <2>3. Running(a)' => \A s \in 0..3 : s < Written(run'[a].at) => log[s] = a
    BY <1>3, <2>2 DEF Follows, Written, Running
  <2> QED
    BY <1>2, <1>3, <2>1, <2>3 DEF LogInv, Before
<1>6. CASE Logging(a)
  <2>1. PICK s \in 0..3 : /\ log' = [log EXCEPT ![s] = a]
                          /\ s = Written(run[a].at)
                          /\ Written(run'[a].at) = IF run'[a].at = "done" THEN 0 ELSE s + 1
    BY <1>4, <1>6, LoggingMoves
  <2>2. Running(a)
    BY <1>6, LoggingMoves
  <2>3. /\ \A i \in 0..3 : i <= s => log'[i] = a
        /\ \A i \in 0..3 : i > s => log'[i] = log[i]
    BY <1>3, <2>1, <2>2 DEF TypeOK
  <2>4. \A i \in 0..3 : ~Before(a, log[i])
    BY <1>1 DEF OrderInv
  <2>5. ~Before(a, a)
    BY BeforeSelf
  <2>6. ASSUME NEW i \in 0..2
        PROVE  ~Before(log'[i], log'[i + 1])
    <3>1. i \in 0..3 /\ i + 1 \in 0..3
      OBVIOUS
    <3>2. CASE i <= s
      <4>1. log'[i] = a /\ (log'[i + 1] = a \/ log'[i + 1] = log[i + 1])
        BY <2>3, <3>1, <3>2
      <4> QED
        BY <2>4, <2>5, <3>1, <4>1
    <3>3. CASE i > s
      BY <1>3, <2>3, <3>1, <3>3
    <3> QED
      BY <3>2, <3>3
  <2>7. \A i \in 0..3 : i < Written(run'[a].at) => log'[i] = a
    BY <2>1, <2>3
  <2> QED
    BY <1>2, <2>6, <2>7 DEF LogInv, Before
<1> QED
  BY <1>5, <1>6, WorkKinds

LEMMA LogStep == TypeOK /\ OrderInv /\ LogInv /\ [Next]_vars => LogInv'
<1> SUFFICES ASSUME TypeOK, OrderInv, LogInv, [Next]_vars,
                    \A c \in Chunks : Undisturbed(c)'
             PROVE  LogInv'
  BY DEF LogInv
<1>0. \A c \in Chunks : Undisturbed(c)
  BY UndisturbedBefore
<1>1. ASSUME NEW a \in Attempts, Work(a) PROVE LogInv'
  BY <1>0, <1>1, LogWork
<1>2. ASSUME NEW a \in Attempts, Timeout(a) PROVE LogInv'
  BY <1>0, <1>2 DEF Timeout, records, LogInv, Running, Before
<1>3. ASSUME NEW a \in Attempts, TimeoutLate(a) \/ CancelLate(a) PROVE LogInv'
  <2>1. a[1] \in Chunks
    BY DEF Attempts
  <2> QED
    BY <1>3, <2>1, LateDisturbs
<1>4. CASE Crash
  <2>1. log' = log
    BY <1>4 DEF Crash, records
  <2>2. \A b \in Attempts : ~Running(b)'
    BY <1>4, CrashMoves DEF Ended, Running
  <2> QED
    BY <1>0, <2>1, <2>2 DEF LogInv, Before
<1>5. CASE DeleteProvider \/ UNCHANGED vars
  BY <1>0, <1>5 DEF DeleteProvider, vars, records, LogInv, Running, Before
<1> QED
  BY <1>1, <1>2, <1>3, <1>4, <1>5 DEF Next

\* An attempt of one chunk leaves the records of the others alone.
LEMMA OtherChunks ==
    ASSUME TypeOK, NEW a \in Attempts, Work(a), NEW c \in Chunks, a[1] # c
    PROVE  /\ usage'[c] = usage[c] /\ calls'[c] = calls[c] /\ taken'[c] = taken[c]
           /\ \A n \in 1..MaxAttempts : run'[<<c, n>>] = run[<<c, n>>]
<1>1. \A n \in 1..MaxAttempts : <<c, n>> \in Attempts /\ <<c, n>> # a
  BY DEF Attempts
<1>2. \A n \in 1..MaxAttempts : run'[<<c, n>>] = run[<<c, n>>]
  BY <1>1, WorkMoves DEF Moved
<1>3. taken'[c] = taken[c]
  <2>1. CASE Raise(a)
    BY <2>1, RescheduleForward DEF Raise
  <2>2. CASE Report(a)
    BY <2>2, ReportForward DEF TypeOK, flow
  <2>3. CASE ~Raise(a) /\ ~Report(a)
    BY <2>3, FlowStays DEF flow
  <2> QED
    BY <2>1, <2>2, <2>3
<1>4. usage'[c] = usage[c] /\ calls'[c] = calls[c]
  <2>1. CASE Thinking(a) \/ Logging(a)
    BY <2>1, ThinkingMoves, LoggingMoves DEF records
  <2>2. CASE RecordUsage(a) \/ RecordCall(a)
    BY <2>2, UsageMoves, CallMoves DEF TypeOK
  <2> QED
    BY <2>1, <2>2, WorkKinds
<1> QED
  BY <1>2, <1>3, <1>4

\* The second write is recorded where the first was, by the same attempt.
LEMMA RecordWork ==
    ASSUME TypeOK, OrderInv, MeteredInv, RecordInv, NEW a \in Attempts, Work(a),
           NEW c \in Chunks, Undisturbed(c), Undisturbed(c)', NEW n \in 1..MaxAttempts
    PROVE  Recorded(c, n)'
<1>0. Recorded(c, n) /\ <<c, n>> \in Attempts
  BY DEF RecordInv, Attempts
<1>1. CASE a[1] # c
  BY <1>0, <1>1, OtherChunks DEF Recorded
<1>2. CASE a[1] = c /\ a[2] # n
  <2>1. ~Running(<<c, n>>) /\ taken[c] = 0
    BY <1>0, <1>2, WorkIsLive
  <2>2. run'[<<c, n>>] = run[<<c, n>>]
    BY <1>0, <1>2, WorkMoves DEF Moved
  <2>3. taken'[c] # n
    <3>1. CASE Raise(a)
      BY <2>1, <3>1, RescheduleForward DEF Raise
    <3>2. CASE Report(a)
      BY <1>2, <2>1, <3>2, ReportForward DEF TypeOK, flow
    <3>3. CASE ~Raise(a) /\ ~Report(a)
      BY <2>1, <3>3, FlowStays DEF flow
    <3> QED
      BY <3>1, <3>2, <3>3
  <2> QED
    BY <2>1, <2>2, <2>3 DEF Recorded, Running
<1>3. CASE a[1] = c /\ a[2] = n
  <2>0. a = <<c, n>> /\ c = a[1] /\ n = a[2]
    BY <1>3 DEF Attempts
  <2>1. taken[c] = 0 /\ ~run'[a].missed
    BY <1>3, WorkIsLive, DisturbedChunk
  <2>2. Follows(run[a].at, run'[a].at)
    BY WorkMoves
  <2>3. CASE Thinking(a)
    <3>1. usage' = usage /\ calls' = calls
      BY <2>3, ThinkingMoves DEF records
    <3>2. run[a].at \in {"queued", "read", "resolve", "call", "done"}
      BY <2>3 DEF Thinking, Claim, ReadDocument, ResolveProvider, CallLlm, Raise, Report
    <3>3. run'[a].at \notin {"record", "completed", "done"}
      BY <2>2, <3>2 DEF Follows
    <3>4. CASE Report(a)
      <4>1. run[a].at = "done" /\ run'[a].metered = run[a].metered
        BY <3>4, GotoMoves DEF Report, Kept, Steps
      <4> QED
        BY <1>0, <2>0, <3>1, <3>3, <4>1 DEF Recorded
    <3>5. CASE ~Report(a)
      <4>1. taken'[c] = 0
        BY <2>1, <2>3, <3>5, WorkKinds, FlowStays, RescheduleForward DEF Raise, flow
      <4> QED
        BY <2>0, <3>3, <4>1 DEF Recorded
    <3> QED
      BY <3>4, <3>5
  <2>4. CASE Logging(a)
    <3>1. /\ UNCHANGED <<taken, usage, calls>> /\ run'[a].metered = run[a].metered
          /\ run'[a].at = "completed" => ~run[a].metered
      BY <2>4, LoggingMoves DEF Kept, flow
    <3>2. run'[a].at # "record"
      BY <2>2, <2>4 DEF Follows, Logging, Degraded, LogStart, LogSend, LogRefused, LogAnswered,
         LogCompleted
    <3>3. run'[a].at = "done" /\ run[a].metered => run[a].at = "completed"
      BY <2>2 DEF Follows, MeteredInv
    <3> QED
      BY <1>0, <2>0, <2>1, <3>1, <3>2, <3>3 DEF Recorded
  <2>5. CASE RecordUsage(a)
    <3>1. usage' = [usage EXCEPT ![c] = Upsert(@, n)] /\ run'[a].at = "record" /\ taken' = taken
      BY <2>0, <2>1, <2>5, UsageMoves DEF Moved, flow
    <3>2. usage'[c].text = n
      BY <3>1 DEF TypeOK, Upsert
    <3> QED
      BY <2>0, <2>1, <3>1, <3>2 DEF Recorded
  <2>6. CASE RecordCall(a)
    <3>1. /\ calls' = [calls EXCEPT ![c] = Upsert(@, n)] /\ usage' = usage
          /\ run[a].at = "record" /\ run'[a].at = "completed"
      BY <2>0, <2>1, <2>6, CallMoves DEF Moved
    <3>2. calls'[c].text = n /\ usage'[c].text = n
      BY <1>0, <2>0, <3>1 DEF TypeOK, Upsert, Recorded
    <3> QED
      BY <2>0, <3>1, <3>2 DEF Recorded
  <2> QED
    BY <2>3, <2>4, <2>5, <2>6, WorkKinds
<1> QED
  BY <1>1, <1>2, <1>3

LEMMA RecordStep ==
    TypeOK /\ OrderInv /\ MeteredInv /\ RecordInv /\ [Next]_vars => RecordInv'
<1> SUFFICES ASSUME TypeOK, OrderInv, MeteredInv, RecordInv, [Next]_vars,
                    NEW c \in Chunks, Undisturbed(c)', NEW n \in 1..MaxAttempts
             PROVE  Recorded(c, n)'
  BY DEF RecordInv
<1>0. Undisturbed(c) /\ Recorded(c, n) /\ <<c, n>> \in Attempts
  BY UndisturbedBefore DEF RecordInv, Attempts
<1>1. ASSUME NEW a \in Attempts, Work(a) PROVE Recorded(c, n)'
  BY <1>0, <1>1, RecordWork
<1>2. ASSUME NEW a \in Attempts, Timeout(a) PROVE Recorded(c, n)'
  BY <1>0, <1>2, RescheduleForward DEF Timeout, records, Recorded
<1>3. ASSUME NEW a \in Attempts, TimeoutLate(a) \/ CancelLate(a) PROVE Recorded(c, n)'
  <2>1. a[1] # c
    BY <1>3, LateDisturbs
  <2>2. run'[<<c, n>>] = run[<<c, n>>] /\ UNCHANGED <<taken, usage, calls>>
    BY <1>0, <1>3, <2>1, LateMoves, CancelMoves, RescheduleForward DEF TimeoutLate, CancelLate,
       records, flow
  <2> QED
    BY <1>0, <2>2 DEF Recorded
<1>4. CASE Crash
  <2>1. UNCHANGED <<taken, usage, calls>>
    BY <1>4 DEF Crash, records, flow
  <2>2. CASE Running(<<c, n>>)
    <3>1. ~run'[<<c, n>>].metered /\ run'[<<c, n>>].at # "record"
      BY <1>0, <1>4, <2>2, CrashMoves DEF Ended
    <3> QED
      BY <3>1 DEF Recorded
  <2>3. CASE ~Running(<<c, n>>)
    <3>1. run'[<<c, n>>] = run[<<c, n>>]
      BY <1>0, <1>4, <2>3, CrashMoves
    <3> QED
      BY <1>0, <2>1, <3>1 DEF Recorded
  <2> QED
    BY <2>2, <2>3
<1>5. CASE DeleteProvider \/ UNCHANGED vars
  BY <1>0, <1>5 DEF DeleteProvider, vars, flow, records, Recorded
<1> QED
  BY <1>1, <1>2, <1>3, <1>4, <1>5 DEF Next

LEMMA TablesWork ==
    ASSUME TypeOK, OrderInv, TablesInv, NEW a \in Attempts, Work(a),
           NEW c \in Chunks, Undisturbed(c), Undisturbed(c)',
           \A n \in 1..MaxAttempts : run'[<<c, n>>].at # "torn"
    PROVE  Level(c)'
<1>1. CASE a[1] # c
  <2>1. \A n \in 1..MaxAttempts : run[<<c, n>>].at # "torn"
    BY <1>1, OtherChunks
  <2> QED
    BY <1>1, <2>1, OtherChunks DEF TablesInv, Level
<1>2. CASE a[1] = c
  <2>0. a[2] \in 1..MaxAttempts /\ a = <<c, a[2]>> /\ \A n \in 1..MaxAttempts : <<c, n>> \in Attempts
    BY <1>2 DEF Attempts
  <2>1. \A n \in 1..MaxAttempts : n # a[2] =>
            run'[<<c, n>>] = run[<<c, n>>] /\ run[<<c, n>>].at \notin {"record", "torn"}
    <3> SUFFICES ASSUME NEW n \in 1..MaxAttempts, n # a[2]
                 PROVE  run'[<<c, n>>] = run[<<c, n>>] /\ run[<<c, n>>].at \notin {"record", "torn"}
      OBVIOUS
    <3>1. <<c, n>> # a
      BY <2>0
    <3>2. ~Running(<<c, n>>)
      BY <1>2, <2>0, <3>1, WorkIsLive
    <3>3. run'[<<c, n>>] = run[<<c, n>>]
      BY <2>0, <3>1, WorkMoves DEF Moved
    <3> QED
      BY <3>2, <3>3 DEF Running
  <2>2. Running(a) \/ run[a].at = "queued"
    BY WorkMoves DEF Claim
  <2>3. Level(c)
    BY <1>2, <2>0, <2>1, <2>2 DEF TablesInv, Running
  <2>4. ~run'[a].missed
    BY <1>2, DisturbedChunk
  <2>5. CASE Thinking(a) \/ Logging(a)
    <3>1. usage' = usage /\ calls' = calls
      BY <2>5, ThinkingMoves, LoggingMoves DEF records
    <3>2. run[a].at # "record" /\ run[a].at # "usage"
      BY <2>5 DEF Thinking, Claim, ReadDocument, ResolveProvider, CallLlm, Raise, Report, Logging,
         Degraded, LogStart, LogSend, LogRefused, LogAnswered, LogCompleted
    <3>3. run'[a].at # "record"
      BY <3>2, WorkMoves DEF Follows
    <3>4. \A n \in 1..MaxAttempts : run[<<c, n>>].at # "record" /\ run'[<<c, n>>].at # "record"
      BY <2>0, <2>1, <3>2, <3>3
    <3> QED
      BY <2>3, <3>1, <3>4 DEF Level
  <2>6. CASE RecordUsage(a)
    <3>1. /\ usage' = [usage EXCEPT ![c] = Upsert(@, a[2])] /\ calls' = calls
          /\ run[a].at = "usage" /\ run'[a].at = "record"
      BY <1>2, <2>4, <2>6, UsageMoves DEF Moved
    <3>2. usage[c] = calls[c]
      BY <2>0, <2>1, <2>3, <3>1 DEF Level
    <3>3. usage'[c] = Upsert(calls'[c], a[2])
      BY <3>1, <3>2 DEF TypeOK
    <3> QED
      BY <2>0, <2>1, <3>1, <3>3 DEF Level, Upsert
  <2>7. CASE RecordCall(a)
    <3>1. /\ calls' = [calls EXCEPT ![c] = Upsert(@, a[2])] /\ usage' = usage
          /\ run[a].at = "record" /\ run'[a].at = "completed"
      BY <1>2, <2>4, <2>7, CallMoves DEF Moved
    <3>2. usage[c] = Upsert(calls[c], a[2])
      BY <2>0, <2>3, <3>1 DEF Level
    <3>3. usage'[c] = calls'[c]
      BY <3>1, <3>2 DEF TypeOK
    <3>4. \A n \in 1..MaxAttempts : run'[<<c, n>>].at # "record"
      BY <2>0, <2>1, <3>1
    <3> QED
      BY <3>3, <3>4 DEF Level
  <2> QED
    BY <2>5, <2>6, <2>7, WorkKinds
<1> QED
  BY <1>1, <1>2

LEMMA TablesStep == TypeOK /\ OrderInv /\ TablesInv /\ [Next]_vars => TablesInv'
<1> SUFFICES ASSUME TypeOK, OrderInv, TablesInv, [Next]_vars, NEW c \in Chunks, Undisturbed(c)',
                    \A n \in 1..MaxAttempts : run'[<<c, n>>].at # "torn"
             PROVE  Level(c)'
  BY DEF TablesInv
<1>0. Undisturbed(c) /\ \A n \in 1..MaxAttempts : <<c, n>> \in Attempts
  BY UndisturbedBefore DEF Attempts
<1>1. ASSUME NEW a \in Attempts, Work(a) PROVE Level(c)'
  BY <1>0, <1>1, TablesWork
<1>2. ASSUME NEW a \in Attempts, Timeout(a) PROVE Level(c)'
  <2>1. run' = run /\ usage' = usage /\ calls' = calls
    BY <1>2 DEF Timeout, records
  <2> QED
    BY <1>0, <2>1 DEF TablesInv, Level
<1>3. ASSUME NEW a \in Attempts, TimeoutLate(a) \/ CancelLate(a) PROVE Level(c)'
  <2>1. a[1] # c
    BY <1>3, LateDisturbs
  <2>2. \A n \in 1..MaxAttempts : <<c, n>> # a
    BY <2>1
  <2>3. \A n \in 1..MaxAttempts : run'[<<c, n>>] = run[<<c, n>>]
    BY <1>0, <1>3, <2>2, LateMoves, CancelMoves
  <2>4. usage' = usage /\ calls' = calls
    BY <1>3 DEF TimeoutLate, CancelLate, records
  <2> QED
    BY <1>0, <2>3, <2>4 DEF TablesInv, Level
<1>4. CASE Crash
  <2>1. usage' = usage /\ calls' = calls
    BY <1>4 DEF Crash, records
  <2>2. \A n \in 1..MaxAttempts : run[<<c, n>>].at \notin {"record", "torn"}
    BY <1>0, <1>4, CrashMoves DEF Ended, Running
  <2>3. \A n \in 1..MaxAttempts : run'[<<c, n>>].at # "record"
    BY <1>0, <1>4, <2>2, CrashMoves DEF Ended
  <2> QED
    BY <1>0, <2>1, <2>2, <2>3 DEF TablesInv, Level
<1>5. CASE DeleteProvider \/ UNCHANGED vars
  <2>1. run' = run /\ usage' = usage /\ calls' = calls
    BY <1>5 DEF DeleteProvider, vars, records
  <2> QED
    BY <1>0, <2>1 DEF TablesInv, Level
<1> QED
  BY <1>1, <1>2, <1>3, <1>4, <1>5 DEF Next
-----------------------------------------------------------------------------
(* The choice between the provider and the environment.                    *)

\* The attempt b has just chosen, by what the table of providers says now.
Chose(b) ==
    /\ run[b].at \in {"read", "resolve"} /\ run'[b].at = "start"
    /\ run'[b].cfg = "own" => provider = "there"
    /\ run'[b].cfg = "env" => provider = "gone"

LEMMA WorkChooses ==
    ASSUME TypeOK, NEW a \in Attempts, Work(a)
    PROVE  /\ run'[a].cfg = run[a].cfg \/ Chose(a)
           /\ provider' = provider
<1>1. CASE ReadDocument(a)
  BY <1>1 DEF ReadDocument, Chose, TypeOK, Run
<1>2. CASE ResolveProvider(a)
  BY <1>2 DEF ResolveProvider, Chose, TypeOK, Run
<1>3. CASE Claim(a) \/ CallLlm(a)
  BY <1>3 DEF Claim, CallLlm, TypeOK, Run
<1>4. CASE Raise(a) \/ Report(a)
  BY <1>4, GotoMoves DEF Raise, Report, Kept, Steps
<1>5. CASE Logging(a)
  BY <1>5, LoggingMoves DEF Kept
<1>6. CASE RecordUsage(a) \/ RecordCall(a)
  BY <1>6, UsageMoves, CallMoves DEF Kept
<1> QED
  BY <1>1, <1>2, <1>3, <1>4, <1>5, <1>6, WorkKinds DEF Thinking

\* Whatever happens, a choice is made once, nothing that is over begins again, and a
\* provider that is gone stays gone.
LEMMA StepChooses ==
    ASSUME TypeOK, [Next]_vars
    PROVE  /\ \A b \in Attempts :
                 /\ run'[b].cfg = run[b].cfg \/ (Chose(b) /\ provider' = provider)
                 /\ run[b].at = "over" => run'[b].at = "over"
                 /\ run'[b].at \in {"queued", "read", "resolve"} =>
                       run[b].at \in {"queued", "read", "resolve"}
           /\ provider = "gone" => provider' = "gone"
<1> DEFINE Same(b) == /\ run'[b].cfg = run[b].cfg
                      /\ run[b].at = "over" => run'[b].at = "over"
                      /\ run'[b].at \in {"queued", "read", "resolve"} => run'[b].at = run[b].at
           Goal == /\ \A b \in Attempts :
                         /\ run'[b].cfg = run[b].cfg \/ (Chose(b) /\ provider' = provider)
                         /\ run[b].at = "over" => run'[b].at = "over"
                         /\ run'[b].at \in {"queued", "read", "resolve"} =>
                               run[b].at \in {"queued", "read", "resolve"}
                   /\ provider = "gone" => provider' = "gone"
<1>1. ASSUME NEW a \in Attempts, Work(a) PROVE Goal
  <2>1. \A b \in Attempts : b # a => run'[b] = run[b]
    BY <1>1, WorkMoves DEF Moved
  <2>2. Follows(run[a].at, run'[a].at)
    BY <1>1, WorkMoves
  <2> QED
    BY <1>1, <2>1, <2>2, WorkChooses DEF Follows
<1>2. ASSUME \A b \in Attempts : Same(b), provider' = provider \/ provider' = "gone" PROVE Goal
  BY <1>2
<1>3. ASSUME NEW a \in Attempts, Timeout(a) PROVE Goal
  BY <1>2, <1>3 DEF Timeout
<1>4. ASSUME NEW a \in Attempts, TimeoutLate(a) PROVE Goal
  <2>1. provider' = provider
    BY <1>4 DEF TimeoutLate
  <2> QED
    BY <1>2, <1>4, <2>1, LateMoves DEF Kept
<1>5. ASSUME NEW a \in Attempts, CancelLate(a) PROVE Goal
  <2>1. provider' = provider /\ run'[a].cfg = run[a].cfg
    BY <1>5 DEF CancelLate, Dead, TypeOK, Run
  <2>2. /\ \A b \in Attempts : b # a => run'[b] = run[b]
        /\ run[a].at # "over" /\ run'[a].at \in {"torn", "lost"}
    BY <1>5, CancelMoves DEF Ended, Running
  <2> QED
    BY <1>2, <2>1, <2>2
<1>6. CASE Crash
  <2>1. provider' = provider /\ \A b \in Attempts : run'[b].cfg = run[b].cfg
    BY <1>6 DEF Crash, Dead, TypeOK, Run
  <2>2. \A b \in Attempts :
            run'[b] = run[b] \/ (run[b].at # "over" /\ run'[b].at \in {"torn", "lost"})
    BY <1>6, CrashMoves DEF Ended, Running
  <2> QED
    BY <1>2, <2>1, <2>2
<1>7. CASE DeleteProvider \/ UNCHANGED vars
  <2>1. run' = run /\ (provider' = provider \/ provider' = "gone")
    BY <1>7 DEF DeleteProvider, vars
  <2> QED
    BY <1>2, <2>1
<1> QED
  BY <1>1, <1>3, <1>4, <1>5, <1>6, <1>7 DEF Next

\* What is taken is taken from the live attempt, which is over by then.
LEMMA StepTakes ==
    ASSUME TypeOK, [Next]_vars
    PROVE  \/ taken' = taken
           \/ /\ taken' = [taken EXCEPT ![live[1]] = live[2]]
              /\ run'[live].at = "over" /\ \A b \in Attempts : run'[b].cfg = run[b].cfg
<1>1. ASSUME NEW a \in Attempts, Report(a), taken' # taken
      PROVE  /\ taken' = [taken EXCEPT ![live[1]] = live[2]]
             /\ run'[live].at = "over" /\ \A b \in Attempts : run'[b].cfg = run[b].cfg
  <2>1. a = live /\ taken' = [taken EXCEPT ![a[1]] = a[2]]
    BY <1>1, ReportForward DEF flow
  <2>2. Goto(a, "over") /\ "over" \in Steps
    BY <1>1 DEF Report, Steps
  <2>3. Moved(a, "over") /\ Kept(a)
    BY <2>2, GotoMoves
  <2> QED
    BY <2>1, <2>3 DEF Moved, Kept
<1>2. ASSUME NEW a \in Attempts, Work(a), ~Report(a) PROVE taken' = taken
  BY <1>2, FlowStays, RescheduleForward DEF Raise, flow
<1>3. ASSUME NEW a \in Attempts, Timeout(a) \/ TimeoutLate(a) PROVE taken' = taken
  BY <1>3, RescheduleForward DEF Timeout, TimeoutLate
<1>4. ASSUME NEW a \in Attempts, CancelLate(a) PROVE taken' = taken
  BY <1>4 DEF CancelLate, flow
<1>5. CASE Crash \/ DeleteProvider \/ UNCHANGED vars
  BY <1>5 DEF Crash, DeleteProvider, vars, flow
<1> QED
  BY <1>1, <1>2, <1>3, <1>4, <1>5 DEF Next

\* Behind the live attempt nobody has chosen yet, so that nobody has chosen the
\* provider when events of the environment's model are taken.
LEMMA SwitchStep == TypeOK /\ OrderInv /\ SwitchInv /\ [Next]_vars => SwitchInv'
<1> SUFFICES ASSUME TypeOK, OrderInv, SwitchInv, [Next]_vars PROVE SwitchInv'
  OBVIOUS
<1>0. \A c \in Chunks : taken[c] # 0 => <<c, taken[c]>> \in Attempts
  BY DEF TypeOK, Attempts
<1>1. \A a \in Attempts : run'[a].cfg = "env" => provider' = "gone"
  BY StepChooses DEF SwitchInv, Chose
<1>2. \A a \in Attempts : run'[a].at \in {"queued", "read", "resolve"} => run'[a].cfg = "none"
  BY StepChooses DEF SwitchInv, Chose
<1>3. \A c \in Chunks : taken'[c] # 0 => run'[<<c, taken'[c]>>].at = "over"
  <2>1. CASE taken' = taken
    BY <1>0, <2>1, StepChooses DEF SwitchInv
  <2>2. CASE taken' # taken
    <3>1. taken' = [taken EXCEPT ![live[1]] = live[2]] /\ run'[live].at = "over"
      BY <2>2, StepTakes
    <3>2. live = <<live[1], live[2]>>
      BY DEF TypeOK, Attempts
    <3> SUFFICES ASSUME NEW c \in Chunks, taken'[c] # 0
                 PROVE  run'[<<c, taken'[c]>>].at = "over"
      OBVIOUS
    <3>3. CASE c = live[1]
      <4>1. taken'[c] = live[2]
        BY <3>1, <3>3 DEF TypeOK
      <4> QED
        BY <3>1, <3>2, <3>3, <4>1
    <3>4. CASE c # live[1]
      <4>1. taken'[c] = taken[c]
        BY <3>1, <3>4 DEF TypeOK
      <4> QED
        BY <1>0, <4>1, StepChooses DEF SwitchInv
    <3> QED
      BY <3>3, <3>4
  <2> QED
    BY <2>1, <2>2
<1>4. ASSUME NEW c \in Chunks, NEW a \in Attempts,
             taken'[c] # 0, run'[<<c, taken'[c]>>].cfg = "env", c < a[1]
      PROVE  run'[a].cfg # "own"
  <2>1. CASE taken'[c] = taken[c]
    <3>1. run[<<c, taken[c]>>].at = "over" /\ <<c, taken[c]>> \in Attempts
      BY <1>0, <1>4, <2>1 DEF SwitchInv
    <3>2. run[<<c, taken[c]>>].cfg = "env"
      BY <1>4, <2>1, <3>1, StepChooses DEF Chose
    <3>3. provider = "gone" /\ run[a].cfg # "own"
      BY <1>4, <2>1, <3>1, <3>2 DEF SwitchInv, SwitchesOnce
    <3> QED
      BY <3>3, StepChooses DEF Chose
  <2>2. CASE taken'[c] # taken[c]
    <3>1. taken' = [taken EXCEPT ![live[1]] = live[2]] /\ run'[a].cfg = run[a].cfg
      BY <2>2, StepTakes
    <3>2. c = live[1]
      BY <2>2, <3>1 DEF TypeOK
    <3>3. run[a].at = "queued"
      BY <1>4, <3>2 DEF OrderInv, Before
    <3> QED
      BY <3>1, <3>3 DEF SwitchInv
  <2> QED
    BY <2>1, <2>2
<1>5. SwitchesOnce'
  BY <1>4 DEF SwitchesOnce
<1> QED
  BY <1>1, <1>2, <1>3, <1>5 DEF SwitchInv
-----------------------------------------------------------------------------
(* The theorems.                                                           *)

LEMMA ExtractionInit == Init => ExtractionInv
<1> SUFFICES ASSUME Init PROVE ExtractionInv
  OBVIOUS
<1>1. TypeOK /\ OrderInv
  BY TypesInit, OrderInit
<1>2. /\ \A a \in Attempts : run[a].at = "queued" /\ ~run[a].metered /\ ~Running(a)
      /\ \A s \in 0..3 : log[s] = Nobody
      /\ \A c \in Chunks : usage[c] = calls[c] /\ taken[c] = 0
  BY DEF Init, Running
<1>3. \A c \in Chunks, n \in 1..MaxAttempts : <<c, n>> \in Attempts
  BY DEF Attempts
<1>4. MeteredInv /\ LogInv
  BY <1>2 DEF MeteredInv, LogInv, Before, Nobody
<1>5. RecordInv /\ TablesInv
  BY <1>2, <1>3 DEF RecordInv, Recorded, TablesInv, Level
<1>6. SwitchInv
  BY DEF Init, SwitchInv, SwitchesOnce
<1> QED
  BY <1>1, <1>4, <1>5, <1>6 DEF ExtractionInv

\* The invariant of the attempts and the records: attempts come in order and,
\* undisturbed, one at a time; an attempt has written what comes before the step
\* it is at; the call row lags the usage row by at most the upsert under way; nobody
\* uses the environment before the provider is gone.
THEOREM ExtractionSafe == Spec => []ExtractionInv
<1>1. ExtractionInv /\ [Next]_vars => ExtractionInv'
  BY TypesStep, OrderStep, MeteredStep, LogStep, RecordStep, TablesStep, SwitchStep
     DEF ExtractionInv
<1> QED
  BY <1>1, ExtractionInit, PTL DEF Spec

\* An attempt whose events were taken is over, and so keeps nothing to be written:
\* its records are those of the answer (extract_events, record_llm_call).
THEOREM AnswerIsRecordedTheorem == Spec => []AnswerIsRecorded
<1>1. ExtractionInv => AnswerIsRecorded
  BY DEF ExtractionInv, TypeOK, RecordInv, Recorded, AnswerIsRecorded
<1> QED
  BY <1>1, ExtractionSafe, PTL

\* llm_usage and llm_call_log tell of the same attempts, unless one died between
\* its two writes (record_llm_usage, record_llm_call).
THEOREM TablesAgreeTheorem == Spec => []TablesAgree
<1>1. ExtractionInv => TablesAgree
  BY DEF ExtractionInv, TablesInv, Level, TablesAgree
<1> QED
  BY <1>1, ExtractionSafe, PTL

\* Attempts and chunks write over each other's rows of document_event_log from the
\* first row on: a row is never older than the one after it.
THEOREM LogIsLayeredTheorem == Spec => []LogIsLayered
<1>1. ExtractionInv => LogIsLayered
  BY DEF ExtractionInv, LogInv, LogIsLayered
<1> QED
  BY <1>1, ExtractionSafe, PTL

\* A document changes over from its provider's model to the environment's at most once
\* (extract_events, resolve_provider): by then the provider is gone, and the attempts
\* of later chunks have not begun.
THEOREM SwitchesOnceTheorem == Spec => []SwitchesOnce
<1>1. ExtractionInv => SwitchesOnce
  BY DEF ExtractionInv, SwitchInv
<1> QED
  BY <1>1, ExtractionSafe, PTL
=============================================================================
