----------------------- MODULE ConnectionPoolProofs -----------------------
(***************************************************************************)
(* For any number of attempts and connections: the double-checked lock of  *)
(* get_pool opens one pool, and nesting below the pool's size is harmless. *)
(***************************************************************************)
EXTENDS ConnectionPool, FiniteSetTheorems, TLAPS

\* Whoever creates holds the lock, alone, and found no pool under it.
LockInv ==
    /\ \A a \in Attempts : call[a] = "create" <=> a \in lock
    /\ \A a, b \in lock : a = b
    /\ lock # {} => ~pool

\* An attempt that has returned is in no get_db block; only some attempts nest.
NestingInv ==
    \A a \in Attempts :
        /\ step[a] = "idle" => call[a] = "get_pool"
        /\ step[a] = "nested" => a \in Nested

PoolInv == TypeOK /\ OnePool /\ LockInv /\ NestingInv

LEMMA AfterSteps ==
    ASSUME TypeOK, NEW a \in Attempts, NEW s \in After(a)
    PROVE  s \in Steps \ {"nested"}
BY DEF After, Steps, TypeOK

LEMMA InitPool == Init => PoolInv
<1> SUFFICES ASSUME Init PROVE PoolInv
  OBVIOUS
<1>1. TypeOK
  BY DEF Init, TypeOK, Steps, Calls
<1>2. ~pool /\ created = 0
  BY DEF Init
<1>3. OnePool
  BY <1>2 DEF OnePool
<1>4. LockInv /\ NestingInv
  BY DEF Init, LockInv, NestingInv
<1>5. QED  BY <1>1, <1>3, <1>4 DEF PoolInv

LEMMA StepPool == PoolInv /\ [Next]_vars => PoolInv'
<1> SUFFICES ASSUME PoolInv, [Next]_vars PROVE PoolInv'
  OBVIOUS
<1> USE DEF PoolInv
<1>1. ASSUME NEW a \in Attempts, Start(a) PROVE PoolInv'
  <2>1. PICK s \in {"log", "work"} : Enter(a, s)
    BY <1>1 DEF Start
  <2>2. QED
    BY <1>1, <2>1 DEF Start, Enter, TypeOK, OnePool, LockInv, NestingInv, Steps, Calls
<1>2. ASSUME NEW a \in Attempts, GetPool(a) PROVE PoolInv'
  BY <1>2 DEF GetPool, Advance, TypeOK, OnePool, LockInv, NestingInv, Steps, Calls
<1>3. ASSUME NEW a \in Attempts, TakeLock(a) PROVE PoolInv'
  BY <1>3 DEF TakeLock, Advance, TypeOK, OnePool, LockInv, NestingInv, Steps, Calls
<1>4. ASSUME NEW a \in Attempts, CreatePool(a) PROVE PoolInv'
  <2>1. ~pool /\ lock = {a} /\ created = 0
    BY <1>4 DEF CreatePool, LockInv, OnePool, TypeOK
  <2>2. QED
    BY <1>4, <2>1 DEF CreatePool, Advance, TypeOK, OnePool, LockInv, NestingInv, Steps, Calls
<1>5. ASSUME NEW a \in Attempts, CreateFails(a) \/ Leave(a) PROVE PoolInv'
  <2>1. PICK s \in After(a) : Enter(a, s)
    BY <1>5 DEF CreateFails, Leave
  <2>2. s \in Steps \ {"nested"}
    BY AfterSteps
  <2>3. CASE CreateFails(a)
    <3>1. lock = {a} /\ lock' = {}
      BY <2>3 DEF CreateFails, LockInv, TypeOK
    <3>2. QED
      BY <2>1, <2>2, <2>3, <3>1
         DEF CreateFails, Enter, TypeOK, OnePool, LockInv, NestingInv, Calls
  <2>4. CASE Leave(a)
    BY <2>1, <2>2, <2>4 DEF Leave, Enter, TypeOK, OnePool, LockInv, NestingInv, Calls
  <2>5. QED  BY <1>5, <2>3, <2>4
<1>6. ASSUME NEW a \in Attempts, Acquire(a) PROVE PoolInv'
  BY <1>6 DEF Acquire, Advance, TypeOK, OnePool, LockInv, NestingInv, Steps, Calls
<1>7. ASSUME NEW a \in Attempts, LogInside(a) PROVE PoolInv'
  BY <1>7 DEF LogInside, Enter, TypeOK, OnePool, LockInv, NestingInv, Steps, Calls
<1>8. ASSUME NEW a \in Attempts, Cancel(a) PROVE PoolInv'
  BY <1>8 DEF Cancel, Enter, TypeOK, OnePool, LockInv, NestingInv, Steps, Calls
<1>9. CASE UNCHANGED vars
  BY <1>9 DEF vars, TypeOK, OnePool, LockInv, NestingInv
<1>10. QED
  BY <1>1, <1>2, <1>3, <1>4, <1>5, <1>6, <1>7, <1>8, <1>9 DEF Next, GoOn

LEMMA PoolInvariance == Spec => []PoolInv
BY InitPool, StepPool, PTL DEF Spec

\* get_pool opens one pool per process however many attempts find none at the
\* same time, however often the creation fails or is cancelled.
THEOREM OnePoolTheorem == Spec => []OnePool
BY PoolInvariance, PTL DEF PoolInv

\* With fewer attempts that log inside their block than connections, the pool
\* never comes to be held by attempts that wait for each other.
THEOREM NotExhaustedTheorem == Spec => []NotExhausted
<1>1. PoolInv => NotExhausted
  <2> SUFFICES ASSUME PoolInv, Cardinality(Nested) < PoolSize
               PROVE  ~Exhausted
    BY DEF NotExhausted
  <2> DEFINE W == {a \in Attempts : step[a] = "nested" /\ call[a] # "have"}
  <2>1. W \subseteq Nested
    BY DEF PoolInv, NestingInv
  <2>2. IsFiniteSet(Nested)
    BY AttemptsAssumption, FS_Subset
  <2>3. Cardinality(W) <= Cardinality(Nested)
    BY <2>1, <2>2, FS_Subset
  <2>4. Cardinality(W) \in Nat /\ Cardinality(Nested) \in Nat
    BY <2>1, <2>2, FS_Subset, FS_CardinalityType
  <2>5. QED  BY <2>3, <2>4, PoolSizeAssumption DEF Exhausted
<1>2. QED  BY <1>1, PoolInvariance, PTL

\* db.py:54-98: every attempt is at a point where get_pool and get_db wait.
THEOREM PoolTypes == Spec => []TypeOK
BY PoolInvariance, PTL DEF PoolInv
=============================================================================
