-------------------------- MODULE ConnectionPool --------------------------
(***************************************************************************)
(* The PostgreSQL pool of one worker process and the activity attempts     *)
(* that share it.  get_pool creates the pool lazily under an asyncio lock; *)
(* get_db borrows one of its connections.  ProcessingLogger.log borrows a  *)
(* connection for every entry, and three activities call it while they     *)
(* hold one already.                                                       *)
(*                                                                         *)
(* The worker has one event loop and never closes its pool, so the         *)
(* stale-loop branch of get_pool and close_pool do not arise here.         *)
(***************************************************************************)
EXTENDS Naturals, FiniteSets

CONSTANTS
    Attempts,     \* activity attempts the worker runs at a time
    Nested,       \* those of get_document_metadata, extract_text and chunk_document
    PoolSize,     \* MAX_POOL_SIZE
    MaxFailures   \* bound on failed attempts to create the pool

ASSUME AttemptsAssumption == IsFiniteSet(Attempts) /\ Nested \subseteq Attempts
ASSUME PoolSizeAssumption == PoolSize \in Nat \ {0} /\ MaxFailures \in Nat

VARIABLES
    pool,      \* _pool is not None
    created,   \* pools created so far
    lock,      \* the attempts inside "async with _lock" (the holder, if any)
    step,      \* the get_db block each attempt is in
    call,      \* how far that get_db got
    failures   \* failed creations so far

vars == <<pool, created, lock, step, call, failures>>
-----------------------------------------------------------------------------
Steps == {"idle", "log", "work", "nested", "last"}
Calls == {"get_pool", "lock", "create", "acquire", "have"}

\* The connections in use: an attempt that logs inside its block has one already.
Held(a) ==
    (IF step[a] # "idle" /\ call[a] = "have" THEN {<<a, step[a]>>} ELSE {})
        \cup (IF step[a] = "nested" THEN {<<a, "work">>} ELSE {})
InUse == UNION {Held(a) : a \in Attempts}

Init ==
    /\ pool = FALSE /\ created = 0 /\ lock = {}
    /\ step = [a \in Attempts |-> "idle"]
    /\ call = [a \in Attempts |-> "get_pool"]
    /\ failures = 0

Enter(a, s) ==
    /\ step' = [step EXCEPT ![a] = s]
    /\ call' = [call EXCEPT ![a] = "get_pool"]

Advance(a, c) == call' = [call EXCEPT ![a] = c]

\* Most activities write a log entry first; get_chunks, get_prior and
\* extract_events read first.
Start(a) ==
    /\ step[a] = "idle"
    /\ \E s \in {"log", "work"} : Enter(a, s)
    /\ UNCHANGED <<pool, created, lock, failures>>

\* get_pool: a pool that is there is used, else the lock is awaited.
GetPool(a) ==
    /\ step[a] # "idle" /\ call[a] = "get_pool"
    /\ Advance(a, IF pool THEN "acquire" ELSE "lock")
    /\ UNCHANGED <<pool, created, lock, step, failures>>

\* Mutant: the pool is not looked at again under the lock.
TakeLockUnchecked(a) ==
    /\ call[a] = "lock" /\ lock = {}
    /\ lock' = {a} /\ Advance(a, "create")
    /\ UNCHANGED <<pool, created, step, failures>>

\* Under the lock the pool is looked at again before one is created.
TakeLock(a) ==
    /\ call[a] = "lock" /\ lock = {}
    /\ \/ pool /\ Advance(a, "acquire") /\ UNCHANGED lock
       \/ ~pool /\ Advance(a, "create") /\ lock' = {a}
    /\ UNCHANGED <<pool, created, step, failures>>

CreatePool(a) ==
    /\ call[a] = "create"
    /\ pool' = TRUE /\ created' = created + 1 /\ lock' = {}
    /\ Advance(a, "acquire")
    /\ UNCHANGED <<step, failures>>

\* Behind the main block comes a last log entry, outside of it, or nothing.
After(a) ==
    IF step[a] = "log" THEN {"work"}
    ELSE {"idle"} \cup {s \in {"last"} : step[a] = "work"}

\* Mutant: the lock is not released when the creation fails.
CreateFailsHolding(a) ==
    /\ call[a] = "create"
    /\ failures < MaxFailures /\ failures' = failures + 1
    /\ \E s \in After(a) : Enter(a, s)
    /\ UNCHANGED <<pool, created, lock>>

\* The database is not there: log() swallows the exception, the activity's
\* handler writes a log entry in its turn, or the activity fails.
CreateFails(a) ==
    /\ call[a] = "create"
    /\ failures < MaxFailures /\ failures' = failures + 1
    /\ lock' = {}
    /\ \E s \in After(a) : Enter(a, s)
    /\ UNCHANGED <<pool, created>>

Acquire(a) ==
    /\ call[a] = "acquire" /\ Cardinality(InUse) < PoolSize
    /\ Advance(a, "have")
    /\ UNCHANGED <<pool, created, lock, step, failures>>

\* log() is called before the connection of the block is returned.
LogInside(a) ==
    /\ a \in Nested /\ step[a] = "work" /\ call[a] = "have"
    /\ Enter(a, "nested")
    /\ UNCHANGED <<pool, created, lock, failures>>

\* The block ends and gives its connection back; after a nested entry the
\* activity returns, and gives both back.
Leave(a) ==
    /\ step[a] # "idle" /\ call[a] = "have"
    /\ \E s \in After(a) : Enter(a, s)
    /\ UNCHANGED <<pool, created, lock, failures>>

\* CancelledError, some time after the attempt's start_to_close_timeout:
\* every "async with" is left, a wait in a queue is abandoned.
Cancel(a) ==
    /\ step[a] # "idle"
    /\ Enter(a, "idle")
    /\ lock' = lock \ {a}
    /\ UNCHANGED <<pool, created, failures>>
-----------------------------------------------------------------------------
GoOn(a) ==
    GetPool(a) \/ TakeLock(a) \/ CreatePool(a) \/ Acquire(a) \/ LogInside(a) \/ Leave(a)

Next == \E a \in Attempts : Start(a) \/ GoOn(a) \/ CreateFails(a) \/ Cancel(a)

Spec == Init /\ [][Next]_vars

\* The event loop runs what can run, and asyncio serves those who wait for the
\* lock and for a connection in the order they came.  Nothing is assumed of
\* cancellation.
FairSpec ==
    Spec /\ \A a \in Attempts :
        WF_vars(GoOn(a)) /\ SF_vars(TakeLock(a)) /\ SF_vars(Acquire(a))
-----------------------------------------------------------------------------
\* Type invariant.
TypeOK ==
    /\ pool \in BOOLEAN /\ created \in Nat /\ failures \in Nat
    /\ lock \in SUBSET Attempts
    /\ step \in [Attempts -> Steps]
    /\ call \in [Attempts -> Calls]

\* Several attempts may find no pool, wait for the lock together, fail to
\* create it or be cancelled: still the process never opens a second pool,
\* whose connections nobody would close.
OnePool == created = IF pool THEN 1 ELSE 0

\* Every connection is held by an attempt that waits for another one.
Exhausted ==
    Cardinality({a \in Attempts : step[a] = "nested" /\ call[a] # "have"}) >= PoolSize

\* As long as fewer attempts than connections log inside their block, the pool
\* cannot be exhausted by attempts that wait for each other.
NotExhausted == Cardinality(Nested) < PoolSize => ~Exhausted

\* processing_log.py:4-6: "Each log() call opens its own PostgreSQL connection
\* [...] This is safe for Temporal activities -- no shared state": an attempt
\* that logs is never part of a circle of attempts waiting for connections.
LogIsSafe == ~Exhausted

\* While the pool is not exhausted by nesting, every attempt comes to its end,
\* cancelled or not, whoever failed to create the pool before.
EveryAttemptEnds ==
    Cardinality(Nested) < PoolSize =>
        \A a \in Attempts : step[a] # "idle" ~> step[a] = "idle"
=============================================================================
