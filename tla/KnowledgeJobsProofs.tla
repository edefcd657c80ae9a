------------------------- MODULE KnowledgeJobsProofs -------------------------
(***************************************************************************)
(* Proofs about KnowledgeJobs, for every set of jobs, queues and keys and  *)
(* every number of attempts, crashes and database faults: what a handler   *)
(* may rely on (the first part), what becomes of a job (its final status   *)
(* stays, its row never says running without a task that runs it, without  *)
(* faults it is never forgotten, and it begins in the order in which the   *)
(* jobs of its queue were triggered), and that the job manager implements  *)
(* SerialJobs.                                                             *)
(***************************************************************************)
EXTENDS KnowledgeJobs, TLAPS

\* The inductive invariant behind TypeOK: a task sleeps before a retry only
\* when the loop has an attempt left, so the attempt column stays in range.
RetryInv == \A j \in Jobs : task[j] = "backoff" => attempt[j] < MaxAttempts
TypeInv == TypeOK /\ RetryInv

\* The inductive invariant behind QueueSerialised.  The task of a job is
\* inside "async with lock" only while that job holds the lock of its queue
\* (_execute_job), and a task waits only for the lock of its own queue
\* (_get_base_lock), so a granted lock never goes to a job of another queue.
HolderInv == \A j \in Jobs : task[j] \in InBody => holder[QueueOf[j]] = j
WaitersInv ==
  \A q \in Queues : waiters[q] \in Seq({j \in Jobs : QueueOf[j] = q})
LockInv == WaitersInv /\ HolderInv

-----------------------------------------------------------------------------
\* The head of a nonempty sequence is one of its elements, its tail is again
\* a sequence of them.
LEMMA HeadAndTail ==
  ASSUME NEW S, NEW s \in Seq(S), s # <<>>
  PROVE  Head(s) \in S /\ Tail(s) \in Seq(S)
  OBVIOUS

\* Appending an element of the set keeps a sequence over the set.
LEMMA AppendType ==
  ASSUME NEW S, NEW s \in Seq(S), NEW e \in S
  PROVE  Append(s, e) \in Seq(S)
  OBVIOUS

-----------------------------------------------------------------------------
\* The initial state is well typed.
LEMMA InitTypeInv == Init => TypeInv
  <1>1. <<>> \in Seq(Jobs)
    OBVIOUS
  <1>2. QED
    BY <1>1, JobsAssumption DEF Init, TypeInv, TypeOK, RetryInv, Tasks, Status

\* What one enqueue call does to the row, the answer and the task of its id.
LEMMA EnqueueEffect ==
  ASSUME TypeInv, NEW j \in Jobs, NEW delayed \in BOOLEAN, Enqueue(j, delayed)
  PROVE  /\ status' \in [Jobs -> Status \cup {"absent"}]
         /\ answer' \in [Jobs -> Jobs \cup {NoJob}]
         /\ \/ task' = [task EXCEPT ![j] = "created"] /\ ready' = Append(ready, j)
            \/ task' = [task EXCEPT ![j] = "delayed"] /\ ready' = ready
            \/ task' = task /\ ready' = ready
         /\ UNCHANGED <<attempt, waiters, holder, cancelEvent, phase, toRecover,
                        crashes, dbFaults>>
  <1>1. Existing(j) \subseteq Jobs
    BY DEF Existing, Conflicts
  <1>2. /\ status' = [status EXCEPT ![j] = "pending"] \/ status' = status
        /\ answer' = [answer EXCEPT ![j] = j]
             \/ \E k \in Jobs : answer' = [answer EXCEPT ![j] = k]
    BY <1>1 DEF Enqueue
  <1>3. status' \in [Jobs -> Status \cup {"absent"}]
    BY <1>2 DEF TypeInv, TypeOK, Status
  <1>4. answer' \in [Jobs -> Jobs \cup {NoJob}]
    BY <1>2 DEF TypeInv, TypeOK
  <1>5. \/ task' = [task EXCEPT ![j] = "created"] /\ ready' = Append(ready, j)
        \/ task' = [task EXCEPT ![j] = "delayed"] /\ ready' = ready
        \/ task' = task /\ ready' = ready
    BY DEF Enqueue, Schedule, TriggerJob
  <1>6. UNCHANGED <<attempt, waiters, holder, cancelEvent, phase, toRecover,
                    crashes, dbFaults>>
    BY DEF Enqueue, locks, proc
  <1> QED
    BY <1>3, <1>4, <1>5, <1>6

\* Types are kept by the actions that create tasks.
LEMMA TriggerTypeInv ==
  ASSUME TypeInv, NEW j \in Jobs
  PROVE  /\ \A delayed \in BOOLEAN : Enqueue(j, delayed) => TypeInv'
         /\ FireTimer(j) => TypeInv'
         /\ RecoverJob(j) => TypeInv'
  <1>a. Append(ready, j) \in Seq(Jobs)
    BY AppendType DEF TypeInv, TypeOK
  <1>1. ASSUME NEW delayed \in BOOLEAN, Enqueue(j, delayed) PROVE TypeInv'
    <2>1. task' \in [Jobs -> Tasks] /\ ready' \in Seq(Jobs)
      BY <1>1, <1>a, EnqueueEffect DEF TypeInv, TypeOK, Tasks
    <2>2. RetryInv'
      BY <1>1, EnqueueEffect DEF TypeInv, TypeOK, RetryInv
    <2> QED
      BY <1>1, <2>1, <2>2, EnqueueEffect DEF TypeInv, TypeOK
  <1>2. ASSUME FireTimer(j) PROVE TypeInv'
    BY <1>2, <1>a DEF TypeInv, TypeOK, RetryInv, FireTimer, TriggerJob, Tasks,
       table, locks, proc
  <1>3. ASSUME RecoverJob(j) PROVE TypeInv'
    BY <1>3, <1>a DEF TypeInv, TypeOK, RetryInv, RecoverJob, TriggerJob, Tasks,
       Status, locks
  <1> QED
    BY <1>1, <1>2, <1>3

\* Types are kept when a task starts its first attempt, waits or returns.
LEMMA StartTypeInv == TypeInv /\ StartTask => TypeInv'
  <1> SUFFICES ASSUME TypeInv, StartTask PROVE TypeInv'
    OBVIOUS
  <1> DEFINE j == Head(ready)
             q == QueueOf[j]
  <1>1. j \in Jobs /\ ready' \in Seq(Jobs)
    BY HeadAndTail DEF TypeInv, TypeOK, StartTask
  <1>2. q \in Queues /\ Append(waiters[q], j) \in Seq(Jobs)
    BY <1>1, AppendType, JobsAssumption DEF TypeInv, TypeOK
  <1>3. UNCHANGED <<answer, cancelEvent, phase, toRecover, crashes, dbFaults>>
    BY DEF StartTask, proc
  <1>4. CASE /\ task' = [task EXCEPT ![j] = "none"]
             /\ UNCHANGED <<table, locks>>
    BY <1>1, <1>3, <1>4 DEF TypeInv, TypeOK, RetryInv, Tasks, table, locks
  <1>5. CASE /\ holder' = [holder EXCEPT ![q] = j]
             /\ BeginAttempt(j, 1)
             /\ UNCHANGED waiters
    BY <1>1, <1>2, <1>3, <1>5, JobsAssumption
       DEF TypeInv, TypeOK, RetryInv, BeginAttempt, Tasks, InBody, Status
  <1>6. CASE /\ waiters' = [waiters EXCEPT ![q] = Append(@, j)]
             /\ task' = [task EXCEPT ![j] = "waiting"]
             /\ UNCHANGED <<table, holder>>
    BY <1>1, <1>2, <1>3, <1>6 DEF TypeInv, TypeOK, RetryInv, Tasks, table
  <1> QED
    BY <1>4, <1>5, <1>6 DEF StartTask

\* Types are kept when a waiting task gets the lock.
LEMMA GrantTypeInv ==
  ASSUME TypeInv, NEW q \in Queues, GrantLock(q) PROVE TypeInv'
  <1> DEFINE j == Head(waiters[q])
  <1>1. j \in Jobs /\ Tail(waiters[q]) \in Seq(Jobs)
    BY HeadAndTail DEF TypeInv, TypeOK, GrantLock
  <1>2. waiters' \in [Queues -> Seq(Jobs)]
    BY <1>1 DEF TypeInv, TypeOK, GrantLock
  <1>3. UNCHANGED <<answer, ready, cancelEvent, phase, toRecover, crashes,
                    dbFaults>>
    BY DEF GrantLock, proc
  <1>4. CASE task' = [task EXCEPT ![j] = "none"] /\ UNCHANGED <<table, holder>>
    BY <1>1, <1>2, <1>3, <1>4 DEF TypeInv, TypeOK, RetryInv, Tasks, table
  <1>5. CASE holder' = [holder EXCEPT ![q] = j] /\ BeginAttempt(j, 1)
    <2>1. /\ status' \in [Jobs -> Status \cup {"absent"}]
          /\ attempt' \in [Jobs -> 0 .. MaxAttempts]
          /\ task' \in [Jobs -> Tasks]
          /\ holder' \in [Queues -> Jobs \cup {NoJob}]
      BY <1>1, <1>5, JobsAssumption
         DEF TypeInv, TypeOK, BeginAttempt, Tasks, InBody, Status
    <2>2. RetryInv'
      BY <1>1, <1>5 DEF TypeInv, TypeOK, RetryInv, BeginAttempt
    <2> QED
      BY <1>2, <1>3, <2>1, <2>2 DEF TypeInv, TypeOK
  <1> QED
    BY <1>4, <1>5 DEF GrantLock

\* Types are kept when the handler of a task ends or its backoff does.
LEMMA HandlerTypeInv ==
  ASSUME TypeInv, NEW j \in Jobs, HandlerEnds(j) \/ BackoffEnds(j)
  PROVE  TypeInv'
  <1>0. QueueOf[j] \in Queues
    BY JobsAssumption
  <1>1. UNCHANGED <<answer, ready, waiters, phase, toRecover, crashes, dbFaults>>
    BY DEF HandlerEnds, HandlerReturns, HandlerRaises, HandlerGivesUp,
       HandlerAborts, BackoffEnds, locks, proc
  <1>2. CASE /\ LeaveBody(j)
             /\ UNCHANGED attempt
             /\ \/ UNCHANGED status
                \/ \E s \in Status : status' = [status EXCEPT ![j] = s]
    <2>1. status' \in [Jobs -> Status \cup {"absent"}]
      BY <1>2 DEF TypeInv, TypeOK
    <2> QED
      BY <1>0, <1>1, <1>2, <2>1 DEF TypeInv, TypeOK, RetryInv, LeaveBody, Tasks
  <1>3. CASE HandlerRaises(j)
    BY <1>1, <1>3 DEF TypeInv, TypeOK, RetryInv, HandlerRaises, Tasks, InBody,
       Status, locks
  <1>4. CASE /\ task[j] = "backoff"
             /\ BeginAttempt(j, attempt[j] + 1)
             /\ UNCHANGED <<holder, cancelEvent>>
    <2>1. attempt[j] + 1 \in 0 .. MaxAttempts
      BY <1>4, JobsAssumption DEF TypeInv, TypeOK, RetryInv
    <2> QED
      BY <1>1, <1>4, <2>1 DEF TypeInv, TypeOK, RetryInv, BeginAttempt, Tasks,
         InBody, Status
  <1>5. ASSUME HandlerReturns(j) \/ HandlerGivesUp(j) \/ HandlerAborts(j)
        PROVE  /\ LeaveBody(j)
               /\ UNCHANGED attempt
               /\ \E s \in Status : status' = [status EXCEPT ![j] = s]
    BY <1>5 DEF HandlerReturns, HandlerGivesUp, HandlerAborts, Status
  <1> QED
    BY <1>2, <1>3, <1>4, <1>5 DEF HandlerEnds, BackoffEnds, table

\* Types are kept by cancellations, the end of the process and its restart.
LEMMA EnvironmentTypeInv ==
  ASSUME TypeInv
  PROVE  /\ \A q \in Queues : CancelJobsForBase(q) => TypeInv'
         /\ \A j \in Jobs, S \in SUBSET Jobs : CancelJobsForItems(j, S) => TypeInv'
         /\ Crash \/ Shutdown => TypeInv'
         /\ Boot \/ FinishRecovery => TypeInv'
  <1>1. ASSUME NEW S \in SUBSET Jobs, CancelJobs(S) PROVE TypeInv'
    BY <1>1 DEF TypeInv, TypeOK, RetryInv, CancelJobs, Status, locks, proc
  <1>2. ASSUME NEW q \in Queues, CancelJobsForBase(q) PROVE TypeInv'
    BY <1>1, <1>2 DEF CancelJobsForBase, ActiveJobs
  <1>3. ASSUME LoseMemory, status' \in [Jobs -> Status \cup {"absent"}],
               UNCHANGED <<attempt, answer, dbFaults>>
        PROVE  TypeInv'
    <2>1. <<>> \in Seq(Jobs)
      OBVIOUS
    <2> QED
      BY <1>3, <2>1 DEF TypeInv, TypeOK, RetryInv, LoseMemory, Tasks
  <1>4. ASSUME Crash PROVE TypeInv'
    BY <1>3, <1>4 DEF Crash, TypeInv, TypeOK, table
  <1>5. ASSUME Shutdown PROVE TypeInv'
    <2>1. status' \in [Jobs -> Status \cup {"absent"}]
      BY <1>5 DEF Shutdown, TypeInv, TypeOK, Status
    <2> QED
      BY <1>3, <1>5, <2>1 DEF Shutdown
  <1>6. ASSUME Boot \/ FinishRecovery PROVE TypeInv'
    BY <1>6 DEF TypeInv, TypeOK, RetryInv, Boot, FinishRecovery, memory, table
  <1> QED
    BY <1>1, <1>2, <1>4, <1>5, <1>6 DEF CancelJobsForItems

\* The three places at which a task can die and what it leaves behind.
LEMMA DiesCases ==
  ASSUME NEW j \in Jobs, TaskDies(j)
  PROVE  /\ \/ /\ ready # <<>> /\ j = Head(ready) /\ ready' = Tail(ready)
               /\ task' = [task EXCEPT ![j] = "none"]
               /\ UNCHANGED <<waiters, holder, cancelEvent>>
            \/ /\ waiters[QueueOf[j]] # <<>> /\ j = Head(waiters[QueueOf[j]])
               /\ waiters' = [waiters EXCEPT ![QueueOf[j]] = Tail(@)]
               /\ task' = [task EXCEPT ![j] = "none"]
               /\ UNCHANGED <<ready, holder, cancelEvent>>
            \/ /\ task[j] \in InBody
               /\ LeaveBody(j)
               /\ UNCHANGED <<ready, waiters>>
         /\ \/ status[j] # "absent" /\ status' = [status EXCEPT ![j] = "failed"]
            \/ UNCHANGED status
         /\ dbFaults' = dbFaults + 1
         /\ UNCHANGED <<attempt, answer, phase, toRecover, crashes>>
  BY Zenon DEF TaskDies, locks, proc

\* Types are kept when a database error ends a task.
LEMMA DiesTypeInv ==
  ASSUME TypeInv, NEW j \in Jobs, TaskDies(j) PROVE TypeInv'
  <1> DEFINE q == QueueOf[j]
  <1>1. q \in Queues
    BY JobsAssumption
  <1>a. /\ \/ status' = [status EXCEPT ![j] = "failed"]
           \/ UNCHANGED status
        /\ dbFaults' = dbFaults + 1
        /\ UNCHANGED <<attempt, answer, phase, toRecover, crashes>>
    BY Zenon, DiesCases
  <1>2. status' \in [Jobs -> Status \cup {"absent"}] /\ dbFaults' \in Nat
    BY <1>a DEF TypeInv, TypeOK, Status
  <1>3. task' = [task EXCEPT ![j] = "none"]
    BY DiesCases DEF LeaveBody
  <1>4. /\ task' \in [Jobs -> Tasks]
        /\ RetryInv'
    BY <1>a, <1>3 DEF TypeInv, TypeOK, RetryInv, Tasks
  <1>b. (ready # <<>> /\ ready' = Tail(ready)) \/ ready' = ready
    BY Zenon, DiesCases
  <1>5. ready' \in Seq(Jobs)
    BY <1>b, HeadAndTail DEF TypeInv, TypeOK
  <1>6. waiters' \in [Queues -> Seq(Jobs)]
    <2>1. waiters[q] # <<>> => Tail(waiters[q]) \in Seq(Jobs)
      BY <1>1, HeadAndTail DEF TypeInv, TypeOK
    <2> QED
      BY <1>1, <2>1, DiesCases DEF TypeInv, TypeOK
  <1>7. holder' \in [Queues -> Jobs \cup {NoJob}] /\ cancelEvent' \subseteq Jobs
    BY <1>1, DiesCases DEF LeaveBody, TypeInv, TypeOK
  <1> QED
    BY <1>a, <1>2, <1>4, <1>5, <1>6, <1>7 DEF TypeInv, TypeOK

\* Every action keeps the types.
LEMMA NextTypeInv == TypeInv /\ [Next]_vars => TypeInv'
  <1>1. ASSUME TypeInv, UNCHANGED vars PROVE TypeInv'
    BY <1>1 DEF TypeInv, TypeOK, RetryInv, vars
  <1>2. QED
    BY <1>1, TriggerTypeInv, StartTypeInv, GrantTypeInv, HandlerTypeInv,
       EnvironmentTypeInv, DiesTypeInv DEF Next

\* The types of KnowledgeJobs are an invariant of the job manager; among them
\* that the attempt column never exceeds max_attempts.
THEOREM TypeCorrect == Spec => []TypeOK
  <1>1. TypeInv => TypeOK
    BY DEF TypeInv
  <1> QED
    BY <1>1, InitTypeInv, NextTypeInv, PTL DEF Spec

-----------------------------------------------------------------------------
\* Nobody holds or waits for a lock in the initial state.
LEMMA InitLockInv == Init => LockInv
  <1> SUFFICES ASSUME Init PROVE LockInv
    OBVIOUS
  <1>1. \A q \in Queues : <<>> \in Seq({j \in Jobs : QueueOf[j] = q})
    OBVIOUS
  <1>2. WaitersInv
    BY <1>1 DEF Init, WaitersInv
  <1>3. HolderInv
    BY DEF Init, HolderInv, InBody
  <1> QED
    BY <1>2, <1>3 DEF LockInv

\* A step that leaves the lock queues alone and puts no task into the body of
\* a lock keeps LockInv, provided that the jobs in a body keep their lock.
LEMMA QuietStep ==
  ASSUME LockInv, UNCHANGED waiters,
         \A j \in Jobs : task'[j] \in InBody =>
           task[j] \in InBody /\ holder'[QueueOf[j]] = holder[QueueOf[j]]
  PROVE  LockInv'
  BY DEF LockInv, WaitersInv, HolderInv

\* A task that leaves the body of its lock frees a lock no other task is in.
LEMMA LeaveLockInv ==
  ASSUME TypeOK, LockInv, NEW j \in Jobs, task[j] \in InBody, LeaveBody(j),
         UNCHANGED waiters
  PROVE  LockInv'
  <1>1. ASSUME NEW i \in Jobs, task'[i] \in InBody
        PROVE  task[i] \in InBody /\ holder'[QueueOf[i]] = holder[QueueOf[i]]
    <2>1. i # j
      BY <1>1 DEF LeaveBody, TypeOK, InBody
    <2>2. task[i] \in InBody
      BY <1>1, <2>1 DEF LeaveBody, TypeOK
    <2>3. QueueOf[i] # QueueOf[j]
      BY <2>1, <2>2 DEF LockInv, HolderInv
    <2> QED
      BY <2>2, <2>3, JobsAssumption DEF LeaveBody, TypeOK
  <1> QED
    BY <1>1, QuietStep

\* A task that takes a free lock of its queue finds no other task there.
LEMMA TakeLockInv ==
  ASSUME TypeOK, HolderInv, NEW j \in Jobs, NEW n, holder[QueueOf[j]] = NoJob,
         holder' = [holder EXCEPT ![QueueOf[j]] = j], BeginAttempt(j, n)
  PROVE  HolderInv'
  <1> SUFFICES ASSUME NEW i \in Jobs, task'[i] \in InBody
               PROVE  holder'[QueueOf[i]] = i
    BY DEF HolderInv
  <1>1. CASE i = j
    BY <1>1, JobsAssumption DEF TypeOK
  <1>2. CASE i # j
    <2>1. task[i] \in InBody
      BY <1>2 DEF BeginAttempt, TypeOK
    <2>2. holder[QueueOf[i]] = i
      BY <2>1 DEF HolderInv
    <2>3. QueueOf[i] # QueueOf[j]
      BY <2>2, JobsAssumption
    <2> QED
      BY <2>2, <2>3, JobsAssumption DEF TypeOK
  <1> QED
    BY <1>1, <1>2

\* Lock ownership is kept when the first task of the event loop starts.
LEMMA StartLockInv == TypeOK /\ LockInv /\ StartTask => LockInv'
  <1> SUFFICES ASSUME TypeOK, LockInv, StartTask PROVE LockInv'
    OBVIOUS
  <1> DEFINE j == Head(ready)
             q == QueueOf[j]
  <1>1. j \in Jobs /\ q \in Queues
    BY HeadAndTail, JobsAssumption DEF TypeOK, StartTask
  <1>2. CASE /\ task' = [task EXCEPT ![j] = "none"]
             /\ UNCHANGED <<table, locks>>
    BY <1>1, <1>2, QuietStep DEF TypeOK, InBody, locks
  <1>3. CASE /\ LockIsFree(q)
             /\ holder' = [holder EXCEPT ![q] = j]
             /\ BeginAttempt(j, 1)
             /\ UNCHANGED waiters
    <2>1. HolderInv'
      BY <1>1, <1>3, TakeLockInv DEF LockInv, LockIsFree
    <2> QED
      BY <1>3, <2>1 DEF LockInv, WaitersInv
  <1>4. CASE /\ waiters' = [waiters EXCEPT ![q] = Append(@, j)]
             /\ task' = [task EXCEPT ![j] = "waiting"]
             /\ UNCHANGED <<table, holder>>
    <2>1. Append(waiters[q], j) \in Seq({i \in Jobs : QueueOf[i] = q})
      BY <1>1, AppendType DEF LockInv, WaitersInv
    <2>2. WaitersInv'
      BY <1>1, <1>4, <2>1 DEF LockInv, WaitersInv, TypeOK
    <2>3. HolderInv'
      BY <1>1, <1>4 DEF LockInv, HolderInv, TypeOK, InBody
    <2> QED
      BY <2>2, <2>3 DEF LockInv
  <1> QED
    BY <1>2, <1>3, <1>4 DEF StartTask

\* Lock ownership is kept when a waiting task gets the lock.
LEMMA GrantLockInv ==
  ASSUME TypeOK, LockInv, NEW q \in Queues, GrantLock(q) PROVE LockInv'
  <1> DEFINE j == Head(waiters[q])
  <1>1. /\ j \in Jobs
        /\ QueueOf[j] = q
        /\ Tail(waiters[q]) \in Seq({i \in Jobs : QueueOf[i] = q})
    <2>1. waiters[q] \in Seq({i \in Jobs : QueueOf[i] = q}) /\ waiters[q] # <<>>
      BY DEF LockInv, WaitersInv, GrantLock
    <2> QED
      BY <2>1, HeadAndTail
  <1>2. WaitersInv'
    BY <1>1 DEF LockInv, WaitersInv, GrantLock, TypeOK
  <1>3. CASE task' = [task EXCEPT ![j] = "none"] /\ UNCHANGED <<table, holder>>
    BY <1>1, <1>2, <1>3 DEF LockInv, HolderInv, TypeOK, InBody
  <1>4. CASE holder' = [holder EXCEPT ![q] = j] /\ BeginAttempt(j, 1)
    BY <1>1, <1>2, <1>4, TakeLockInv DEF LockInv, GrantLock
  <1> QED
    BY <1>3, <1>4 DEF GrantLock

\* Lock ownership is kept when a handler or a backoff ends or a task dies.
LEMMA EndLockInv ==
  ASSUME TypeOK, LockInv, NEW j \in Jobs,
         HandlerEnds(j) \/ BackoffEnds(j) \/ TaskDies(j)
  PROVE  LockInv'
  <1>1. CASE task[j] \in InBody /\ LeaveBody(j) /\ UNCHANGED waiters
    BY <1>1, LeaveLockInv
  <1>2. CASE HandlerRaises(j)
    BY <1>2, QuietStep DEF HandlerRaises, TypeOK, InBody, locks
  <1>3. CASE /\ task[j] = "backoff" /\ BeginAttempt(j, attempt[j] + 1)
             /\ UNCHANGED <<holder, waiters>>
    BY <1>3, QuietStep DEF BeginAttempt, TypeOK, InBody
  <1>4. CASE TaskDies(j) /\ task' = [task EXCEPT ![j] = "none"]
             /\ UNCHANGED <<waiters, holder>>
    BY <1>4, QuietStep DEF TypeOK, InBody
  <1>5. CASE /\ waiters[QueueOf[j]] # <<>>
             /\ waiters' = [waiters EXCEPT ![QueueOf[j]] = Tail(@)]
             /\ task' = [task EXCEPT ![j] = "none"]
             /\ UNCHANGED holder
    <2> DEFINE q == QueueOf[j]
    <2>1. q \in Queues /\ Tail(waiters[q]) \in Seq({i \in Jobs : QueueOf[i] = q})
      BY <1>5, HeadAndTail, JobsAssumption DEF LockInv, WaitersInv
    <2>2. WaitersInv'
      BY <1>5, <2>1 DEF LockInv, WaitersInv, TypeOK
    <2>3. HolderInv'
      BY <1>5 DEF LockInv, HolderInv, TypeOK, InBody
    <2> QED
      BY <2>2, <2>3 DEF LockInv
  <1>6. ASSUME TaskDies(j)
        PROVE  \/ task[j] \in InBody /\ LeaveBody(j) /\ UNCHANGED waiters
               \/ task' = [task EXCEPT ![j] = "none"] /\ UNCHANGED <<waiters, holder>>
               \/ /\ waiters[QueueOf[j]] # <<>>
                  /\ waiters' = [waiters EXCEPT ![QueueOf[j]] = Tail(@)]
                  /\ task' = [task EXCEPT ![j] = "none"]
                  /\ UNCHANGED holder
    BY <1>6, DiesCases, Zenon
  <1>7. ASSUME HandlerReturns(j) \/ HandlerGivesUp(j) \/ HandlerAborts(j)
        PROVE  task[j] \in InBody /\ LeaveBody(j) /\ UNCHANGED waiters
    BY <1>7 DEF HandlerReturns, HandlerGivesUp, HandlerAborts, InBody
  <1>8. ASSUME BackoffEnds(j)
        PROVE  \/ task[j] \in InBody /\ LeaveBody(j) /\ UNCHANGED waiters
               \/ /\ task[j] = "backoff" /\ BeginAttempt(j, attempt[j] + 1)
                  /\ UNCHANGED <<holder, waiters>>
    BY <1>8 DEF BackoffEnds, InBody
  <1> QED
    BY <1>1, <1>2, <1>3, <1>4, <1>5, <1>6, <1>7, <1>8 DEF HandlerEnds

\* Lock ownership is kept by every step.
LEMMA NextLockInv == TypeInv /\ LockInv /\ [Next]_vars => LockInv'
  <1> SUFFICES ASSUME TypeInv, TypeOK, LockInv, [Next]_vars PROVE LockInv'
    BY DEF TypeInv
  <1>1. ASSUME NEW j \in Jobs, NEW delayed \in BOOLEAN, Enqueue(j, delayed)
        PROVE LockInv'
    BY <1>1, EnqueueEffect, QuietStep DEF TypeOK, InBody
  <1>2. ASSUME NEW j \in Jobs, FireTimer(j) \/ RecoverJob(j) PROVE LockInv'
    BY <1>2, QuietStep DEF FireTimer, RecoverJob, TriggerJob, TypeOK, InBody, locks
  <1>3. ASSUME NEW S \in SUBSET Jobs, CancelJobs(S) PROVE LockInv'
    BY <1>3, QuietStep DEF CancelJobs, locks
  <1>4. ASSUME NEW q \in Queues, CancelJobsForBase(q) PROVE LockInv'
    BY <1>3, <1>4 DEF CancelJobsForBase, ActiveJobs
  <1>5. ASSUME Crash \/ Shutdown PROVE LockInv'
    <2>1. \A q \in Queues : <<>> \in Seq({j \in Jobs : QueueOf[j] = q})
      OBVIOUS
    <2>2. LoseMemory
      BY <1>5 DEF Crash, Shutdown
    <2>3. WaitersInv'
      BY <2>1, <2>2 DEF WaitersInv, LoseMemory
    <2>4. HolderInv'
      BY <2>2 DEF HolderInv, LoseMemory, InBody
    <2> QED
      BY <2>3, <2>4 DEF LockInv
  <1>6. ASSUME Boot \/ FinishRecovery PROVE LockInv'
    BY <1>6, QuietStep DEF Boot, FinishRecovery, memory
  <1>7. ASSUME UNCHANGED vars PROVE LockInv'
    BY <1>7, QuietStep DEF vars
  <1> QED
    BY <1>1, <1>2, <1>3, <1>4, <1>5, <1>6, <1>7, StartLockInv, GrantLockInv,
       EndLockInv DEF Next, CancelJobsForItems

\* Serialisation per queue: in every behaviour of the job manager, faults and
\* restarts included, no two jobs of a queue are inside their handlers or
\* between two attempts at the same time.
THEOREM QueuesAreSerialised == Spec => []QueueSerialised
  <1>1. LockInv => QueueSerialised
    BY DEF LockInv, HolderInv, QueueSerialised
  <1> QED
    BY <1>1, InitTypeInv, NextTypeInv, InitLockInv, NextLockInv, PTL DEF Spec

-----------------------------------------------------------------------------
(* What becomes of a job                                                   *)

\* The row tells where the task of the job may stand; what _execute_job writes
\* next depends on it (and only a cancellation writes beside the task).
StageInv ==
  \A j \in Jobs :
    /\ task[j] \in {"created", "delayed"} => status[j] \in {"absent", "pending", "cancelled"}
    /\ task[j] \in {"waiting", "backoff"} => status[j] \in {"pending", "cancelled"}
    /\ task[j] = "executing" => status[j] \in {"running", "cancelled"}

\* An id has neither a row nor a task before enqueue has drawn it.
DrawnInv == \A j \in Jobs : answer[j] = NoJob => status[j] = "absent" /\ task[j] = "none"

Distinct(s) == \A i, k \in DOMAIN s : s[i] = s[k] => i = k

\* A job has one task, which is in one place of one line.
ReadyInv == Distinct(ready) /\ \A i \in DOMAIN ready : task[ready[i]] = "created"
LinesInv ==
  \A q \in Queues :
    /\ Distinct(waiters[q])
    /\ \A i \in DOMAIN waiters[q] : task[waiters[q][i]] = "waiting" /\ QueueOf[waiters[q][i]] = q

\* What recover_stalled_jobs has read is still so when it comes to it.
RecoverInv ==
  /\ \A j \in toRecover : phase = "recovering" /\ status[j] = "running" /\ task[j] = "none"
  /\ phase = "down" => \A j \in Jobs : task[j] = "none"

\* A row that says running is run, or will be found by the recovery.
RunningInv ==
  dbFaults = 0 =>
    \A j \in Jobs : status[j] = "running" =>
      task[j] = "executing" \/ phase = "down" \/ j \in toRecover

\* As long as nothing has failed, every row that is not final has its task.
KeptInv ==
  crashes = 0 /\ dbFaults = 0 =>
    phase = "up" /\ \A j \in Jobs : status[j] \in Active => task[j] # "none"

BoundInv == crashes <= MaxCrashes /\ dbFaults <= MaxDbFaults

JobInv  == StageInv /\ DrawnInv
LineInv == ReadyInv /\ LinesInv
RestInv == RecoverInv /\ RunningInv /\ KeptInv /\ BoundInv

OutcomeInv == TypeInv /\ JobInv /\ LineInv /\ RestInv

-----------------------------------------------------------------------------
(* Sequences without repetition                                            *)

\* Without its head, such a sequence has no repetition, and not its head.
LEMMA TailDistinct ==
  ASSUME NEW S, NEW s \in Seq(S), s # <<>>, Distinct(s)
  PROVE  /\ Distinct(Tail(s))
         /\ \A i \in DOMAIN Tail(s) : \E k \in DOMAIN s : Tail(s)[i] = s[k] /\ s[k] # Head(s)
  <1>1. /\ Len(s) \in Nat /\ Len(s) > 0 /\ DOMAIN s = 1 .. Len(s)
        /\ DOMAIN Tail(s) = 1 .. (Len(s) - 1)
        /\ Head(s) = s[1]
        /\ \A i \in 1 .. (Len(s) - 1) : Tail(s)[i] = s[i + 1]
    OBVIOUS
  <1>2. \A i \in 1 .. (Len(s) - 1) : i + 1 \in DOMAIN s /\ i + 1 # 1
    BY <1>1
  <1>3. \A i \in DOMAIN Tail(s) : Tail(s)[i] = s[i + 1] /\ s[i + 1] # Head(s)
    BY <1>1, <1>2 DEF Distinct
  <1>4. ASSUME NEW i \in DOMAIN Tail(s), NEW k \in DOMAIN Tail(s), Tail(s)[i] = Tail(s)[k]
        PROVE  i = k
    <2>1. i + 1 = k + 1
      BY <1>1, <1>2, <1>4 DEF Distinct
    <2> QED
      BY <1>1, <2>1
  <1> QED
    BY <1>1, <1>2, <1>3, <1>4 DEF Distinct

\* With an element that it has not, such a sequence has no repetition.
LEMMA AppendDistinct ==
  ASSUME NEW S, NEW s \in Seq(S), NEW e \in S, Distinct(s), \A i \in DOMAIN s : s[i] # e
  PROVE  /\ Distinct(Append(s, e))
         /\ \A i \in DOMAIN Append(s, e) :
              Append(s, e)[i] = e \/ \E k \in DOMAIN s : Append(s, e)[i] = s[k]
  <1>1. /\ Len(s) \in Nat /\ DOMAIN s = 1 .. Len(s)
        /\ DOMAIN Append(s, e) = 1 .. (Len(s) + 1)
        /\ Append(s, e)[Len(s) + 1] = e
        /\ \A i \in 1 .. Len(s) : Append(s, e)[i] = s[i]
    OBVIOUS
  <1>2. \A i \in DOMAIN Append(s, e) : i \in DOMAIN s \/ i = Len(s) + 1
    BY <1>1
  <1> QED
    BY <1>1, <1>2 DEF Distinct

\* The head and the elements of a sequence of jobs are jobs.
LEMMA Elements ==
  ASSUME NEW S, NEW s \in Seq(S)
  PROVE  /\ \A i \in DOMAIN s : s[i] \in S
         /\ s # <<>> => Head(s) \in S /\ \E i \in DOMAIN s : s[i] = Head(s)
  <1>1. DOMAIN s = 1 .. Len(s) /\ Len(s) \in Nat /\ (s # <<>> => Len(s) > 0 /\ Head(s) = s[1])
    OBVIOUS
  <1> QED
    BY <1>1

-----------------------------------------------------------------------------
(* The lines of tasks                                                      *)

\* The first task of the event loop is created and not started, the first
\* one of a lock waits for it.
LEMMA Heads ==
  ASSUME TypeOK, LineInv
  PROVE  /\ ready # <<>> => Head(ready) \in Jobs /\ task[Head(ready)] = "created"
         /\ \A q \in Queues : waiters[q] # <<>> =>
              /\ Head(waiters[q]) \in Jobs
              /\ task[Head(waiters[q])] = "waiting"
              /\ QueueOf[Head(waiters[q])] = q
  <1>1. ASSUME ready # <<>> PROVE Head(ready) \in Jobs /\ task[Head(ready)] = "created"
    <2>1. ready \in Seq(Jobs)
      BY DEF TypeOK
    <2> QED
      BY <1>1, <2>1, Elements DEF LineInv, ReadyInv
  <1>2. ASSUME NEW q \in Queues, waiters[q] # <<>>
        PROVE  /\ Head(waiters[q]) \in Jobs
               /\ task[Head(waiters[q])] = "waiting"
               /\ QueueOf[Head(waiters[q])] = q
    <2>1. waiters[q] \in Seq(Jobs)
      BY DEF TypeOK
    <2>2. PICK i \in DOMAIN waiters[q] : waiters[q][i] = Head(waiters[q])
      BY <1>2, <2>1, Elements
    <2> QED
      BY <1>2, <2>1, <2>2, Elements DEF LineInv, LinesInv
  <1> QED
    BY <1>1, <1>2

\* The event loop's line stays in order while its tasks stay created.
LEMMA ReadyKept ==
  ASSUME TypeOK, ReadyInv, ready' = ready,
         \A i \in Jobs : task[i] = "created" => task'[i] = "created"
  PROVE  ReadyInv'
  <1>1. \A i \in DOMAIN ready : ready[i] \in Jobs
    BY Elements DEF TypeOK
  <1> QED
    BY <1>1 DEF ReadyInv, Distinct

\* ...when the first of them leaves it...
LEMMA ReadyTail ==
  ASSUME TypeOK, ReadyInv, ready # <<>>, ready' = Tail(ready),
         \A i \in Jobs \ {Head(ready)} : task'[i] = task[i]
  PROVE  ReadyInv'
  <1>0. ready \in Seq(Jobs) /\ Distinct(ready)
    BY DEF TypeOK, ReadyInv
  <1>1. \A i \in DOMAIN ready : ready[i] \in Jobs
    BY <1>0, Elements
  <1>2. /\ Distinct(Tail(ready))
        /\ \A i \in DOMAIN Tail(ready) :
             \E k \in DOMAIN ready : Tail(ready)[i] = ready[k] /\ ready[k] # Head(ready)
    BY <1>0, TailDistinct
  <1>3. Distinct(ready')
    BY <1>2 DEF Distinct
  <1>4. ASSUME NEW i \in DOMAIN Tail(ready) PROVE task'[Tail(ready)[i]] = "created"
    <2>1. PICK k \in DOMAIN ready : Tail(ready)[i] = ready[k] /\ ready[k] # Head(ready)
      BY <1>2
    <2> QED
      BY <1>1, <2>1 DEF ReadyInv
  <1> QED
    BY <1>3, <1>4 DEF ReadyInv, Distinct

\* ...and when a task that is created now joins it.
LEMMA ReadyAppend ==
  ASSUME TypeOK, ReadyInv, NEW j \in Jobs, task[j] # "created", TriggerJob(j)
  PROVE  ReadyInv'
  <1>0. ready \in Seq(Jobs) /\ Distinct(ready)
    BY DEF TypeOK, ReadyInv
  <1>1. \A i \in DOMAIN ready : ready[i] \in Jobs /\ task[ready[i]] = "created"
    BY <1>0, Elements DEF ReadyInv
  <1>2. /\ Distinct(Append(ready, j))
        /\ \A i \in DOMAIN Append(ready, j) :
             Append(ready, j)[i] = j \/ \E k \in DOMAIN ready : Append(ready, j)[i] = ready[k]
    BY <1>0, <1>1, AppendDistinct
  <1>3. ready' = Append(ready, j) /\ task' = [task EXCEPT ![j] = "created"]
    BY DEF TriggerJob
  <1>4. ASSUME NEW i \in DOMAIN Append(ready, j)
        PROVE  task'[Append(ready, j)[i]] = "created"
    BY <1>1, <1>2, <1>3 DEF TypeOK
  <1> QED
    BY <1>2, <1>3, <1>4 DEF ReadyInv, Distinct

\* The lines of the locks stay in order while their tasks stay waiting.
LEMMA LinesKept ==
  ASSUME TypeOK, LinesInv, waiters' = waiters,
         \A i \in Jobs : task[i] = "waiting" => task'[i] = "waiting"
  PROVE  LinesInv'
  <1>1. \A q \in Queues : \A i \in DOMAIN waiters[q] : waiters[q][i] \in Jobs
    BY Elements DEF TypeOK
  <1> QED
    BY <1>1 DEF LinesInv, Distinct

\* ...when the first one of a queue leaves its line...
LEMMA LinesTail ==
  ASSUME TypeOK, LinesInv, NEW q \in Queues, waiters[q] # <<>>,
         waiters' = [waiters EXCEPT ![q] = Tail(@)],
         \A i \in Jobs \ {Head(waiters[q])} : task'[i] = task[i],
         Head(waiters[q]) \in Jobs, QueueOf[Head(waiters[q])] = q
  PROVE  LinesInv'
  <1> DEFINE s == waiters[q]
  <1>0. s \in Seq(Jobs) /\ Distinct(s) /\ s # <<>>
    BY DEF TypeOK, LinesInv
  <1>1. \A p \in Queues : \A i \in DOMAIN waiters[p] : waiters[p][i] \in Jobs
    BY Elements DEF TypeOK
  <1>2. /\ Distinct(Tail(s))
        /\ \A i \in DOMAIN Tail(s) :
             \E k \in DOMAIN s : Tail(s)[i] = s[k] /\ s[k] # Head(s)
    <2> HIDE DEF s
    <2> QED
      BY <1>0, TailDistinct
  <1>3. waiters'[q] = Tail(s) /\ \A p \in Queues \ {q} : waiters'[p] = waiters[p]
    BY DEF TypeOK
  <1>4. ASSUME NEW p \in Queues \ {q}
        PROVE  /\ Distinct(waiters'[p])
               /\ \A i \in DOMAIN waiters'[p] :
                    task'[waiters'[p][i]] = "waiting" /\ QueueOf[waiters'[p][i]] = p
    <2>1. \A i \in DOMAIN waiters[p] :
            task'[waiters[p][i]] = "waiting" /\ QueueOf[waiters[p][i]] = p
      BY <1>1 DEF LinesInv
    <2> QED
      BY <1>3, <2>1 DEF LinesInv, Distinct
  <1>5. \A i \in DOMAIN Tail(s) :
          task'[Tail(s)[i]] = "waiting" /\ QueueOf[Tail(s)[i]] = q
    <2>1. SUFFICES ASSUME NEW i \in DOMAIN Tail(s)
                   PROVE  task'[Tail(s)[i]] = "waiting" /\ QueueOf[Tail(s)[i]] = q
      OBVIOUS
    <2>2. PICK k \in DOMAIN s : Tail(s)[i] = s[k] /\ s[k] # Head(s)
      BY <1>2
    <2>3. s[k] \in Jobs /\ task[s[k]] = "waiting" /\ QueueOf[s[k]] = q
      BY <1>1 DEF LinesInv
    <2> QED
      BY <2>2, <2>3
  <1>6. /\ Distinct(waiters'[q])
        /\ \A i \in DOMAIN waiters'[q] :
             task'[waiters'[q][i]] = "waiting" /\ QueueOf[waiters'[q][i]] = q
    <2> DEFINE t == Tail(s)
    <2>1. waiters'[q] = t
      BY <1>3
    <2>2. Distinct(t)
      BY <1>2
    <2>3. \A i \in DOMAIN t : task'[t[i]] = "waiting" /\ QueueOf[t[i]] = q
      BY <1>5
    <2> HIDE DEF t
    <2> QED
      BY <2>1, <2>2, <2>3
  <1> QED
    BY <1>4, <1>6 DEF LinesInv, Distinct

\* ...and when a task joins the line of its queue.
LEMMA LinesAppend ==
  ASSUME TypeOK, LinesInv, NEW j \in Jobs, task[j] # "waiting",
         waiters' = [waiters EXCEPT ![QueueOf[j]] = Append(@, j)],
         task' = [task EXCEPT ![j] = "waiting"]
  PROVE  LinesInv'
  <1> DEFINE q == QueueOf[j]
             s == waiters[q]
  <1>0. q \in Queues /\ s \in Seq(Jobs) /\ Distinct(s)
    BY JobsAssumption DEF TypeOK, LinesInv
  <1>1. \A p \in Queues : \A i \in DOMAIN waiters[p] :
          waiters[p][i] \in Jobs /\ waiters[p][i] # j
    <2>1. \A p \in Queues : \A i \in DOMAIN waiters[p] : waiters[p][i] \in Jobs
      BY Elements DEF TypeOK
    <2> QED
      BY <2>1 DEF LinesInv
  <1>2. /\ Distinct(Append(s, j))
        /\ \A i \in DOMAIN Append(s, j) :
             Append(s, j)[i] = j \/ \E k \in DOMAIN s : Append(s, j)[i] = s[k]
    <2>1. \A i \in DOMAIN s : s[i] # j
      BY <1>0, <1>1
    <2> HIDE DEF s
    <2> QED
      BY <1>0, <2>1, AppendDistinct
  <1>3. waiters'[q] = Append(s, j) /\ \A p \in Queues \ {q} : waiters'[p] = waiters[p]
    BY <1>0 DEF TypeOK
  <1>4. task'[j] = "waiting" /\ \A i \in Jobs \ {j} : task'[i] = task[i]
    BY DEF TypeOK
  <1>5. ASSUME NEW p \in Queues \ {q}
        PROVE  /\ Distinct(waiters'[p])
               /\ \A i \in DOMAIN waiters'[p] :
                    task'[waiters'[p][i]] = "waiting" /\ QueueOf[waiters'[p][i]] = p
    <2>1. \A i \in DOMAIN waiters[p] :
            task'[waiters[p][i]] = "waiting" /\ QueueOf[waiters[p][i]] = p
      BY <1>1, <1>4 DEF LinesInv
    <2> QED
      BY <1>3, <2>1 DEF LinesInv, Distinct
  <1>6. \A i \in DOMAIN Append(s, j) :
          task'[Append(s, j)[i]] = "waiting" /\ QueueOf[Append(s, j)[i]] = q
    <2>1. \A k \in DOMAIN s : task'[s[k]] = "waiting" /\ QueueOf[s[k]] = q
      BY <1>0, <1>1, <1>4 DEF LinesInv
    <2> QED
      BY <1>2, <1>4, <2>1
  <1>7. /\ Distinct(waiters'[q])
        /\ \A i \in DOMAIN waiters'[q] :
             task'[waiters'[q][i]] = "waiting" /\ QueueOf[waiters'[q][i]] = q
    BY <1>2, <1>3, <1>6 DEF Distinct
  <1> QED
    BY <1>0, <1>5, <1>7 DEF LinesInv, Distinct

-----------------------------------------------------------------------------
(* The steps                                                               *)

\* No step reopens a job that has completed or failed.
KeepsOutcomes ==
  \A j \in Jobs : status[j] \in {"completed", "failed"} => status'[j] = status[j]

\* What is left to show of a step that changes one job of a live process.
LEMMA OneJob ==
  ASSUME JobInv, RestInv, phase = "up", NEW j \in Jobs,
         \A i \in Jobs \ {j} :
           status'[i] = status[i] /\ task'[i] = task[i] /\ answer'[i] = answer[i],
         task'[j] \in {"created", "delayed"} =>
           status'[j] \in {"absent", "pending", "cancelled"},
         task'[j] \in {"waiting", "backoff"} => status'[j] \in {"pending", "cancelled"},
         task'[j] = "executing" => status'[j] \in {"running", "cancelled"},
         answer'[j] = NoJob => status'[j] = "absent" /\ task'[j] = "none",
         status'[j] = "running" => task'[j] = "executing",
         status'[j] \in Active => task'[j] # "none",
         UNCHANGED <<phase, toRecover, crashes, dbFaults>>
  PROVE  JobInv' /\ RestInv'
  <1>1. StageInv' /\ DrawnInv'
    BY DEF JobInv, StageInv, DrawnInv
  <1>2. toRecover = {}
    BY DEF RestInv, RecoverInv
  <1>3. RecoverInv' /\ BoundInv'
    BY <1>2 DEF RestInv, RecoverInv, BoundInv
  <1>4. RunningInv'
    BY <1>2 DEF RestInv, RunningInv
  <1>5. KeptInv'
    BY DEF RestInv, KeptInv
  <1> QED
    BY <1>1, <1>3, <1>4, <1>5 DEF JobInv, RestInv

\* enqueue, the timer of a delayed job and the recovery.
LEMMA TriggerOutcome ==
  ASSUME TypeOK, OutcomeInv, NEW j \in Jobs
  PROVE  /\ \A delayed \in BOOLEAN :
              Enqueue(j, delayed) => JobInv' /\ LineInv' /\ RestInv' /\ KeepsOutcomes
         /\ FireTimer(j) => JobInv' /\ LineInv' /\ RestInv' /\ KeepsOutcomes
         /\ RecoverJob(j) => JobInv' /\ LineInv' /\ RestInv' /\ KeepsOutcomes
  <1>1. ASSUME TriggerJob(j), task[j] \notin {"created", "waiting"}, waiters' = waiters
        PROVE  LineInv'
    <2>1. ReadyInv'
      BY <1>1, ReadyAppend DEF OutcomeInv, LineInv
    <2>2. LinesInv'
      BY <1>1, LinesKept DEF OutcomeInv, LineInv, TriggerJob, TypeOK
    <2> QED
      BY <2>1, <2>2 DEF LineInv
  <1>2. ASSUME NEW delayed \in BOOLEAN, Enqueue(j, delayed)
        PROVE  JobInv' /\ LineInv' /\ RestInv' /\ KeepsOutcomes
    <2>1. /\ phase = "up" /\ status[j] = "absent" /\ task[j] = "none"
          /\ UNCHANGED <<waiters, phase, toRecover, crashes, dbFaults>>
      BY <1>2 DEF Enqueue, OutcomeInv, JobInv, DrawnInv, locks, proc
    <2>2. /\ status' = [status EXCEPT ![j] = "pending"] \/ status' = status
          /\ \E k \in Jobs : answer' = [answer EXCEPT ![j] = k]
          /\ \/ TriggerJob(j)
             \/ task' = [task EXCEPT ![j] = "delayed"] /\ ready' = ready
             \/ task' = task /\ status' = status /\ ready' = ready
      BY <1>2 DEF Enqueue, Schedule, Existing, Conflicts
    <2>3. LineInv'
      <3>1. CASE TriggerJob(j)
        BY <1>1, <2>1, <3>1
      <3>2. CASE ready' = ready /\ task' \in {task, [task EXCEPT ![j] = "delayed"]}
        <4>1. \A i \in Jobs : task[i] \in {"created", "waiting"} => task'[i] = task[i]
          BY <2>1, <3>2 DEF TypeOK
        <4> QED
          BY <2>1, <3>2, <4>1, ReadyKept, LinesKept DEF OutcomeInv, LineInv
      <3> QED
        BY <2>2, <3>1, <3>2
    <2>4. JobInv' /\ RestInv'
      <3>1. \A i \in Jobs \ {j} :
              status'[i] = status[i] /\ task'[i] = task[i] /\ answer'[i] = answer[i]
        BY <2>2 DEF TypeOK, TriggerJob
      <3>2. answer'[j] # NoJob
        BY <2>2, JobsAssumption DEF TypeOK
      <3>3. /\ status'[j] \in {"absent", "pending"}
            /\ task'[j] \in {"none", "created", "delayed"}
            /\ status'[j] = "pending" => task'[j] # "none"
        BY <2>1, <2>2 DEF TypeOK, TriggerJob
      <3> QED
        BY <2>1, <3>1, <3>2, <3>3, OneJob DEF OutcomeInv, Active
    <2>5. KeepsOutcomes
      BY <2>1, <2>2 DEF KeepsOutcomes, TypeOK
    <2> QED
      BY <2>3, <2>4, <2>5
  <1>3. ASSUME FireTimer(j) PROVE JobInv' /\ LineInv' /\ RestInv' /\ KeepsOutcomes
    <2>1. LineInv'
      BY <1>1, <1>3 DEF FireTimer, locks
    <2>2. JobInv' /\ RestInv'
      <3>1. \A i \in Jobs \ {j} :
              status'[i] = status[i] /\ task'[i] = task[i] /\ answer'[i] = answer[i]
        BY <1>3 DEF FireTimer, TriggerJob, TypeOK, table
      <3>2. /\ status'[j] = status[j] /\ task'[j] = "created"
            /\ status[j] \in {"absent", "pending", "cancelled"}
            /\ answer'[j] = answer[j] /\ answer[j] # NoJob
        BY <1>3 DEF FireTimer, TriggerJob, TypeOK, OutcomeInv, JobInv, StageInv,
           DrawnInv, table
      <3> QED
        BY <1>3, <3>1, <3>2, OneJob DEF FireTimer, OutcomeInv, Active, proc
    <2> QED
      BY <1>3, <2>1, <2>2 DEF FireTimer, KeepsOutcomes, table
  <1>4. ASSUME RecoverJob(j) PROVE JobInv' /\ LineInv' /\ RestInv' /\ KeepsOutcomes
    <2>1. /\ phase = "recovering" /\ phase' = phase
          /\ status[j] = "running" /\ task[j] = "none"
          /\ status' = [status EXCEPT ![j] = "pending"]
          /\ TriggerJob(j) /\ toRecover' = toRecover \ {j}
          /\ UNCHANGED <<answer, waiters, crashes, dbFaults>>
      BY <1>4 DEF RecoverJob, OutcomeInv, RestInv, RecoverInv, locks
    <2>2. LineInv'
      BY <1>1, <2>1
    <2>3. /\ status'[j] = "pending" /\ task'[j] = "created"
          /\ \A i \in Jobs \ {j} : status'[i] = status[i] /\ task'[i] = task[i]
      BY <2>1 DEF TriggerJob, TypeOK
    <2>4. JobInv'
      BY <2>1, <2>3 DEF OutcomeInv, JobInv, StageInv, DrawnInv
    <2>5. RecoverInv' /\ RunningInv' /\ BoundInv'
      BY <2>1, <2>3 DEF OutcomeInv, RestInv, RecoverInv, RunningInv, BoundInv, TypeOK
    <2>6. KeptInv'
      BY <2>1 DEF OutcomeInv, RestInv, KeptInv
    <2> QED
      BY <2>1, <2>2, <2>3, <2>4, <2>5, <2>6 DEF RestInv, KeepsOutcomes
  <1> QED
    BY <1>2, <1>3, <1>4

\* The first task of the event loop starts.
LEMMA StartOutcome ==
  ASSUME TypeOK, OutcomeInv, StartTask
  PROVE  JobInv' /\ LineInv' /\ RestInv' /\ KeepsOutcomes
  <1> DEFINE j == Head(ready)
             q == QueueOf[j]
  <1>1. /\ phase = "up" /\ ready # <<>> /\ ready' = Tail(ready)
        /\ UNCHANGED <<answer, phase, toRecover, crashes, dbFaults>>
    BY DEF StartTask, proc
  <1>2. j \in Jobs /\ task[j] = "created" /\ q \in Queues
    BY <1>1, Heads, JobsAssumption DEF OutcomeInv
  <1>3. status[j] \in {"absent", "pending", "cancelled"} /\ answer[j] # NoJob
    BY <1>2 DEF OutcomeInv, JobInv, StageInv, DrawnInv
  <1>4. \/ /\ status[j] # "pending"
           /\ task' = [task EXCEPT ![j] = "none"]
           /\ status' = status /\ waiters' = waiters
        \/ /\ status[j] = "pending"
           /\ status' = [status EXCEPT ![j] = "running"]
           /\ task' = [task EXCEPT ![j] = "executing"]
           /\ waiters' = waiters
        \/ /\ status[j] = "pending"
           /\ waiters' = [waiters EXCEPT ![q] = Append(@, j)]
           /\ task' = [task EXCEPT ![j] = "waiting"]
           /\ status' = status
    BY DEF StartTask, BeginAttempt, table, locks
  <1>5. \A i \in Jobs \ {j} : status'[i] = status[i] /\ task'[i] = task[i]
    BY <1>4 DEF TypeOK
  <1>6. \/ status[j] # "pending" /\ status'[j] = status[j] /\ task'[j] = "none"
        \/ status[j] = "pending" /\ status'[j] = "running" /\ task'[j] = "executing"
        \/ status[j] = "pending" /\ status'[j] = "pending" /\ task'[j] = "waiting"
    BY <1>2, <1>4 DEF TypeOK
  <1>7. ReadyInv'
    BY <1>1, <1>5, ReadyTail DEF OutcomeInv, LineInv
  <1>8. LinesInv'
    <2>1. CASE waiters' = waiters
      BY <1>2, <1>5, <2>1, LinesKept DEF OutcomeInv, LineInv
    <2>2. CASE /\ waiters' = [waiters EXCEPT ![q] = Append(@, j)]
               /\ task' = [task EXCEPT ![j] = "waiting"]
      BY <1>2, <2>2, LinesAppend DEF OutcomeInv, LineInv
    <2> QED
      BY <1>4, <2>1, <2>2
  <1>9. JobInv' /\ RestInv'
    <2> HIDE DEF j
    <2> QED
      BY <1>1, <1>2, <1>3, <1>5, <1>6, OneJob DEF OutcomeInv, Active
  <1>10. KeepsOutcomes
    BY <1>3, <1>5 DEF KeepsOutcomes
  <1> QED
    BY <1>7, <1>8, <1>9, <1>10 DEF LineInv

\* A waiting task gets the lock.
LEMMA GrantOutcome ==
  ASSUME TypeOK, OutcomeInv, NEW q \in Queues, GrantLock(q)
  PROVE  JobInv' /\ LineInv' /\ RestInv' /\ KeepsOutcomes
  <1> DEFINE j == Head(waiters[q])
  <1>1. /\ phase = "up" /\ waiters[q] # <<>> /\ waiters' = [waiters EXCEPT ![q] = Tail(@)]
        /\ UNCHANGED <<answer, ready, phase, toRecover, crashes, dbFaults>>
    BY DEF GrantLock, proc
  <1>2. j \in Jobs /\ task[j] = "waiting" /\ QueueOf[j] = q
    BY <1>1, Heads DEF OutcomeInv
  <1>3. status[j] \in {"pending", "cancelled"} /\ answer[j] # NoJob
    BY <1>2 DEF OutcomeInv, JobInv, StageInv, DrawnInv
  <1>4. \/ /\ status[j] = "cancelled" /\ status' = status
           /\ task' = [task EXCEPT ![j] = "none"]
        \/ /\ status[j] = "pending"
           /\ status' = [status EXCEPT ![j] = "running"]
           /\ task' = [task EXCEPT ![j] = "executing"]
    BY <1>3 DEF GrantLock, BeginAttempt, table
  <1>5. \A i \in Jobs \ {j} : status'[i] = status[i] /\ task'[i] = task[i]
    BY <1>4 DEF TypeOK
  <1>6. \/ status'[j] = "cancelled" /\ task'[j] = "none"
        \/ status'[j] = "running" /\ task'[j] = "executing"
    BY <1>2, <1>4 DEF TypeOK
  <1>7. ReadyInv'
    BY <1>1, <1>2, <1>5, ReadyKept DEF OutcomeInv, LineInv
  <1>8. LinesInv'
    BY <1>1, <1>2, <1>5, LinesTail DEF OutcomeInv, LineInv
  <1>9. JobInv' /\ RestInv'
    <2> HIDE DEF j
    <2> QED
      BY <1>1, <1>2, <1>3, <1>5, <1>6, OneJob DEF OutcomeInv, Active
  <1>10. KeepsOutcomes
    BY <1>3, <1>5 DEF KeepsOutcomes
  <1> QED
    BY <1>7, <1>8, <1>9, <1>10 DEF LineInv

\* A handler or the sleep before a retry ends.
LEMMA HandlerOutcome ==
  ASSUME TypeOK, OutcomeInv, NEW j \in Jobs, HandlerEnds(j) \/ BackoffEnds(j)
  PROVE  JobInv' /\ LineInv' /\ RestInv' /\ KeepsOutcomes
  <1>1. /\ phase = "up" /\ task[j] \in InBody
        /\ UNCHANGED <<answer, ready, waiters, phase, toRecover, crashes, dbFaults>>
    BY DEF HandlerEnds, HandlerReturns, HandlerRaises, HandlerGivesUp,
       HandlerAborts, BackoffEnds, InBody, locks, proc
  <1>2. status[j] \in {"running", "pending", "cancelled"} /\ answer[j] # NoJob
    BY <1>1 DEF OutcomeInv, JobInv, StageInv, DrawnInv, InBody
  <1>3. \/ /\ \E s \in Terminal : status' = [status EXCEPT ![j] = s]
           /\ task' = [task EXCEPT ![j] = "none"]
        \/ /\ status' = [status EXCEPT ![j] = "pending"]
           /\ task' = [task EXCEPT ![j] = "backoff"]
        \/ /\ status' = [status EXCEPT ![j] = "running"]
           /\ task' = [task EXCEPT ![j] = "executing"]
        \/ /\ status[j] = "cancelled" /\ status' = status
           /\ task' = [task EXCEPT ![j] = "none"]
    <2>1. ASSUME HandlerEnds(j)
          PROVE  \/ /\ \E s \in Terminal : status' = [status EXCEPT ![j] = s]
                    /\ task' = [task EXCEPT ![j] = "none"]
                 \/ /\ status' = [status EXCEPT ![j] = "pending"]
                    /\ task' = [task EXCEPT ![j] = "backoff"]
      BY <2>1 DEF HandlerEnds, HandlerReturns, HandlerRaises, HandlerGivesUp,
         HandlerAborts, LeaveBody, Terminal, Status, Active
    <2>2. ASSUME BackoffEnds(j)
          PROVE  \/ /\ status' = [status EXCEPT ![j] = "running"]
                    /\ task' = [task EXCEPT ![j] = "executing"]
                 \/ /\ status[j] = "cancelled" /\ status' = status
                    /\ task' = [task EXCEPT ![j] = "none"]
      <3>1. task[j] = "backoff" /\ status[j] \in {"pending", "cancelled"}
        BY <2>2 DEF BackoffEnds, OutcomeInv, JobInv, StageInv
      <3> QED
        BY <2>2, <3>1 DEF BackoffEnds, BeginAttempt, LeaveBody, table
    <2> QED
      BY <2>1, <2>2
  <1>4. \A i \in Jobs \ {j} : status'[i] = status[i] /\ task'[i] = task[i]
    BY <1>3 DEF TypeOK
  <1>5. \/ status'[j] \in Terminal /\ task'[j] = "none"
        \/ status'[j] = "pending" /\ task'[j] = "backoff"
        \/ status'[j] = "running" /\ task'[j] = "executing"
    BY <1>3 DEF TypeOK, Terminal, Status, Active
  <1>6. LineInv'
    <2>1. \A i \in Jobs : task[i] \in {"created", "waiting"} => task'[i] = task[i]
      BY <1>1, <1>4 DEF InBody
    <2> QED
      BY <1>1, <2>1, ReadyKept, LinesKept DEF OutcomeInv, LineInv
  <1>7. JobInv' /\ RestInv'
    BY <1>1, <1>2, <1>4, <1>5, OneJob DEF OutcomeInv, Active, Terminal, Status
  <1>8. KeepsOutcomes
    BY <1>2, <1>4 DEF KeepsOutcomes
  <1> QED
    BY <1>6, <1>7, <1>8

\* The database refuses a statement of a task, wherever the task stands.
LEMMA DiesOutcome ==
  ASSUME TypeOK, OutcomeInv, NEW j \in Jobs, TaskDies(j)
  PROVE  JobInv' /\ LineInv' /\ RestInv' /\ KeepsOutcomes
  <1>1. /\ phase = "up" /\ dbFaults < MaxDbFaults /\ dbFaults' = dbFaults + 1
        /\ UNCHANGED <<answer, phase, toRecover, crashes>>
    BY Zenon DEF TaskDies, proc
  <1>2. /\ \/ status[j] # "absent" /\ status' = [status EXCEPT ![j] = "failed"]
           \/ status' = status
        /\ task' = [task EXCEPT ![j] = "none"]
        /\ \/ /\ ready # <<>> /\ j = Head(ready) /\ ready' = Tail(ready)
              /\ waiters' = waiters
           \/ /\ waiters[QueueOf[j]] # <<>> /\ j = Head(waiters[QueueOf[j]])
              /\ waiters' = [waiters EXCEPT ![QueueOf[j]] = Tail(@)]
              /\ ready' = ready
           \/ task[j] \in InBody /\ ready' = ready /\ waiters' = waiters
    BY Zenon, DiesCases DEF LeaveBody
  <1>3. \A i \in Jobs \ {j} : status'[i] = status[i] /\ task'[i] = task[i]
    BY <1>2 DEF TypeOK
  <1>4. QueueOf[j] \in Queues
    BY JobsAssumption
  <1>5. /\ ready' = ready => task[j] # "created"
        /\ ready' # ready => ready # <<>> /\ j = Head(ready) /\ ready' = Tail(ready)
        /\ waiters' = waiters => task[j] # "waiting"
        /\ waiters' # waiters =>
             /\ waiters[QueueOf[j]] # <<>> /\ j = Head(waiters[QueueOf[j]])
             /\ waiters' = [waiters EXCEPT ![QueueOf[j]] = Tail(@)]
        /\ task[j] \in {"created", "waiting"} \cup InBody
    <2>1. ready # <<>> => Tail(ready) # ready
      <3>1. ready # <<>> => Len(Tail(ready)) # Len(ready)
        BY DEF TypeOK
      <3> QED
        BY <3>1
    <2>2. ready # <<>> => task[Head(ready)] = "created"
      BY Heads DEF OutcomeInv
    <2>3. waiters[QueueOf[j]] # <<>> =>
            task[Head(waiters[QueueOf[j]])] = "waiting"
      BY <1>4, Heads DEF OutcomeInv
    <2>4. waiters[QueueOf[j]] # <<>> =>
            [waiters EXCEPT ![QueueOf[j]] = Tail(@)] # waiters
      <3>1. waiters[QueueOf[j]] # <<>> =>
              Len(Tail(waiters[QueueOf[j]])) # Len(waiters[QueueOf[j]])
        BY <1>4 DEF TypeOK
      <3> QED
        BY <1>4, <3>1 DEF TypeOK
    <2>5. task[j] \in InBody => task[j] \notin {"created", "waiting"}
      BY DEF InBody
    <2> QED
      BY <1>2, <2>1, <2>2, <2>3, <2>4, <2>5, Zenon
  <1>6. ReadyInv'
    <2>1. CASE ready' = ready
      BY <1>3, <1>5, <2>1, ReadyKept DEF OutcomeInv, LineInv
    <2>2. CASE ready' # ready
      BY <1>3, <1>5, <2>2, ReadyTail DEF OutcomeInv, LineInv
    <2> QED
      BY <2>1, <2>2
  <1>7. LinesInv'
    <2>1. CASE waiters' = waiters
      BY <1>3, <1>5, <2>1, LinesKept DEF OutcomeInv, LineInv
    <2>2. CASE waiters' # waiters
      BY <1>3, <1>4, <1>5, <2>2, LinesTail DEF OutcomeInv, LineInv
    <2> QED
      BY <2>1, <2>2
  <1>8. JobInv'
    <2>1. task'[j] = "none"
      BY <1>2 DEF TypeOK
    <2>2. answer'[j] # NoJob
      BY <1>1, <1>5 DEF OutcomeInv, JobInv, DrawnInv, InBody
    <2> QED
      BY <1>1, <1>3, <2>1, <2>2 DEF OutcomeInv, JobInv, StageInv, DrawnInv
  <1>9. RestInv'
    <2>1. dbFaults \in Nat /\ dbFaults' # 0 /\ dbFaults' <= MaxDbFaults
      BY <1>1, JobsAssumption DEF TypeOK
    <2>2. RecoverInv' /\ BoundInv'
      BY <1>1, <2>1 DEF OutcomeInv, RestInv, RecoverInv, BoundInv
    <2> QED
      BY <2>1, <2>2 DEF RestInv, RunningInv, KeptInv
  <1>10. KeepsOutcomes
    <2>1. status[j] \notin {"completed", "failed"}
      BY <1>5 DEF OutcomeInv, JobInv, StageInv, InBody
    <2> QED
      BY <1>3, <2>1 DEF KeepsOutcomes
  <1> QED
    BY <1>6, <1>7, <1>8, <1>9, <1>10 DEF LineInv

\* The active jobs of a queue, or some of them, are cancelled.
LEMMA CancelOutcome ==
  ASSUME TypeOK, OutcomeInv, NEW S \in SUBSET Jobs, CancelJobs(S), phase = "up",
         \A j \in S : status[j] \in Active
  PROVE  JobInv' /\ LineInv' /\ RestInv' /\ KeepsOutcomes
  <1>1. /\ status' = [j \in Jobs |-> IF j \in S THEN "cancelled" ELSE status[j]]
        /\ UNCHANGED <<answer, task, ready, waiters, phase, toRecover, crashes, dbFaults>>
    BY DEF CancelJobs, locks, proc
  <1>2. JobInv'
    BY <1>1 DEF OutcomeInv, JobInv, StageInv, DrawnInv, Active
  <1>3. LineInv'
    BY <1>1, ReadyKept, LinesKept DEF OutcomeInv, LineInv
  <1>4. RestInv'
    BY <1>1 DEF OutcomeInv, RestInv, RecoverInv, RunningInv, KeptInv, BoundInv, Active
  <1>5. KeepsOutcomes
    BY <1>1 DEF KeepsOutcomes, Active
  <1> QED
    BY <1>2, <1>3, <1>4, <1>5

\* The process ends: nothing but the table is left.
LEMMA EndOutcome ==
  ASSUME TypeOK, OutcomeInv, Crash \/ Shutdown
  PROVE  JobInv' /\ LineInv' /\ RestInv' /\ KeepsOutcomes
  <1>1. /\ LoseMemory /\ phase # "down" /\ crashes < MaxCrashes
        /\ UNCHANGED <<answer, dbFaults>>
    BY DEF Crash, Shutdown
  <1>2. \A j \in Jobs :
          status'[j] = status[j] \/ (task[j] = "executing" /\ status'[j] = "cancelled")
    BY DEF Crash, Shutdown, TypeOK, table
  <1>3. \A j \in Jobs : task'[j] = "none"
    BY <1>1 DEF LoseMemory
  <1>4. JobInv'
    BY <1>1, <1>2, <1>3 DEF OutcomeInv, JobInv, StageInv, DrawnInv
  <1>5. LineInv'
    BY <1>1 DEF LoseMemory, LineInv, ReadyInv, LinesInv, Distinct
  <1>6. RestInv'
    <2>1. crashes \in Nat /\ crashes' # 0 /\ crashes' <= MaxCrashes
      BY <1>1, JobsAssumption DEF LoseMemory, TypeOK
    <2> QED
      BY <1>1, <1>3, <2>1 DEF LoseMemory, OutcomeInv, RestInv, RecoverInv,
         RunningInv, KeptInv, BoundInv
  <1>7. KeepsOutcomes
    <2>1. \A j \in Jobs : task[j] = "executing" => status[j] \notin {"completed", "failed"}
      BY DEF OutcomeInv, JobInv, StageInv
    <2> QED
      BY <1>2, <2>1 DEF KeepsOutcomes
  <1> QED
    BY <1>4, <1>5, <1>6, <1>7

\* The process starts, and its recovery is done.
LEMMA BootOutcome ==
  ASSUME TypeOK, OutcomeInv, Boot \/ FinishRecovery
  PROVE  JobInv' /\ LineInv' /\ RestInv' /\ KeepsOutcomes
  <1>1. /\ UNCHANGED <<status, answer, task, ready, waiters, crashes, dbFaults>>
        /\ \/ /\ phase = "down" /\ phase' = "recovering"
              /\ toRecover' = {j \in Jobs : status[j] = "running"}
           \/ /\ phase = "recovering" /\ phase' = "up"
              /\ toRecover = {} /\ toRecover' = {}
    BY DEF Boot, FinishRecovery, table, memory
  <1>2. JobInv'
    BY <1>1 DEF OutcomeInv, JobInv, StageInv, DrawnInv
  <1>3. LineInv'
    BY <1>1, ReadyKept, LinesKept DEF OutcomeInv, LineInv
  <1>4. RestInv'
    BY <1>1 DEF OutcomeInv, RestInv, RecoverInv, RunningInv, KeptInv, BoundInv
  <1>5. KeepsOutcomes
    BY <1>1 DEF KeepsOutcomes
  <1> QED
    BY <1>2, <1>3, <1>4, <1>5

-----------------------------------------------------------------------------
(* The theorems                                                            *)

\* In the initial state no id is drawn and no task exists.
LEMMA InitOutcome == Init => OutcomeInv
  <1> SUFFICES ASSUME Init PROVE OutcomeInv
    OBVIOUS
  <1>1. JobInv /\ LineInv
    BY DEF Init, JobInv, StageInv, DrawnInv, LineInv, ReadyInv, LinesInv, Distinct
  <1>2. RestInv
    BY JobsAssumption DEF Init, RestInv, RecoverInv, RunningInv, KeptInv, BoundInv,
       Active
  <1> QED
    BY <1>1, <1>2, InitTypeInv DEF OutcomeInv

\* Every step keeps the invariant and every outcome.
LEMMA NextOutcome == OutcomeInv /\ [Next]_vars => OutcomeInv' /\ KeepsOutcomes
  <1> SUFFICES ASSUME OutcomeInv, TypeOK, [Next]_vars
               PROVE  JobInv' /\ LineInv' /\ RestInv' /\ KeepsOutcomes
    BY NextTypeInv DEF OutcomeInv, TypeInv
  <1>1. ASSUME NEW q \in Queues, CancelJobsForBase(q)
        PROVE  JobInv' /\ LineInv' /\ RestInv' /\ KeepsOutcomes
    BY <1>1, CancelOutcome DEF CancelJobsForBase, ActiveJobs
  <1>2. ASSUME NEW j \in Jobs, NEW S \in SUBSET Jobs, CancelJobsForItems(j, S)
        PROVE  JobInv' /\ LineInv' /\ RestInv' /\ KeepsOutcomes
    BY <1>2, CancelOutcome DEF CancelJobsForItems, ActiveJobs
  <1>3. ASSUME UNCHANGED vars PROVE JobInv' /\ LineInv' /\ RestInv' /\ KeepsOutcomes
    <2>1. JobInv' /\ RestInv'
      BY <1>3 DEF vars, OutcomeInv, JobInv, StageInv, DrawnInv, RestInv, RecoverInv,
         RunningInv, KeptInv, BoundInv
    <2>2. LineInv'
      BY <1>3, ReadyKept, LinesKept DEF vars, OutcomeInv, LineInv
    <2> QED
      BY <1>3, <2>1, <2>2 DEF vars, KeepsOutcomes
  <1> QED
    BY <1>1, <1>2, <1>3, TriggerOutcome, StartOutcome, GrantOutcome, HandlerOutcome,
       DiesOutcome, EndOutcome, BootOutcome DEF Next

\* A completed or failed job stays so in every behaviour: the code overwrites
\* rows without looking at them (_execute_job, cancel_job, _on_job_done), and
\* no retry, cancellation, recovery or shutdown ever meets a final one.
THEOREM OutcomesAreFinal == Spec => OutcomeIsFinal
  <1>1. OutcomeInv /\ [Next]_vars =>
          [\A j \in Jobs : status[j] \in {"completed", "failed"}
                             => status'[j] = status[j]]_vars
    BY NextOutcome DEF KeepsOutcomes
  <1> QED
    BY <1>1, InitOutcome, NextOutcome, PTL DEF Spec, OutcomeIsFinal

\* A live process has a task in its handler for every row that says running,
\* after any number of crashes and shutdowns (recover_stalled_jobs).
THEOREM NoJobStalls == Spec => []NoStalledJob
  <1>1. OutcomeInv => NoStalledJob
    BY DEF OutcomeInv, RestInv, RunningInv, RecoverInv, NoStalledJob
  <1> QED
    BY <1>1, InitOutcome, NextOutcome, PTL DEF Spec

\* Without crashes and database faults every pending or running row has its
\* task: no path of enqueue, _trigger_job, _execute_job and the cancellations
\* drops a job.
THEOREM NothingForgotten ==
  ASSUME MaxCrashes = 0, MaxDbFaults = 0
  PROVE  Spec => []NoForgottenJob
  <1>1. OutcomeInv => NoForgottenJob
    <2> SUFFICES ASSUME OutcomeInv PROVE NoForgottenJob
      OBVIOUS
    <2>1. crashes = 0 /\ dbFaults = 0
      BY DEF OutcomeInv, TypeInv, TypeOK, RestInv, BoundInv
    <2> QED
      BY <2>1 DEF OutcomeInv, RestInv, KeptInv, NoForgottenJob
  <1> QED
    BY <1>1, InitOutcome, NextOutcome, PTL DEF Spec

-----------------------------------------------------------------------------
(* The order of the lines                                                  *)

Holds(s, j) == \E k \in DOMAIN s : s[k] = j

\* A task that says it is in a line stands in it.
PlacesInv ==
  \A j \in Jobs :
    /\ task[j] = "created" => Holds(ready, j)
    /\ task[j] = "waiting" => Holds(waiters[QueueOf[j]], j)

\* What a sequence loses with its head.
LEMMA TailOrder ==
  ASSUME NEW S, NEW s \in Seq(S), s # <<>>, Distinct(s)
  PROVE  /\ \A i : Holds(s, i) /\ i # Head(s) => Holds(Tail(s), i)
         /\ \A i, j : InOrder(s, i, j) /\ i # Head(s) => InOrder(Tail(s), i, j)
         /\ \A i, j : InOrder(s, i, j) => j # Head(s)
  <1>1. /\ Len(s) \in Nat /\ Len(s) > 0 /\ DOMAIN s = 1 .. Len(s)
        /\ DOMAIN Tail(s) = 1 .. (Len(s) - 1)
        /\ Head(s) = s[1]
        /\ \A i \in 1 .. (Len(s) - 1) : Tail(s)[i] = s[i + 1]
    OBVIOUS
  <1>2. ASSUME NEW k \in DOMAIN s, s[k] # Head(s)
        PROVE  k - 1 \in DOMAIN Tail(s) /\ Tail(s)[k - 1] = s[k] /\ k # 1
    <2>1. k # 1
      BY <1>1, <1>2
    <2>2. k - 1 \in 1 .. (Len(s) - 1) /\ (k - 1) + 1 = k
      BY <1>1, <2>1
    <2> QED
      BY <1>1, <2>1, <2>2
  <1>3. ASSUME NEW i, Holds(s, i), i # Head(s) PROVE Holds(Tail(s), i)
    BY <1>2, <1>3 DEF Holds
  <1>4. ASSUME NEW i, NEW j, InOrder(s, i, j) PROVE j # Head(s)
    <2>1. PICK k, l \in DOMAIN s : k < l /\ s[k] = i /\ s[l] = j
      BY <1>4 DEF InOrder
    <2>2. l # 1 /\ 1 \in DOMAIN s
      BY <1>1, <2>1
    <2> QED
      BY <1>1, <2>1, <2>2 DEF Distinct
  <1>5. ASSUME NEW i, NEW j, InOrder(s, i, j), i # Head(s) PROVE InOrder(Tail(s), i, j)
    <2>1. PICK k, l \in DOMAIN s : k < l /\ s[k] = i /\ s[l] = j
      BY <1>5 DEF InOrder
    <2>2. j # Head(s)
      BY <1>4, <1>5
    <2>3. /\ k - 1 \in DOMAIN Tail(s) /\ Tail(s)[k - 1] = i
          /\ l - 1 \in DOMAIN Tail(s) /\ Tail(s)[l - 1] = j
      BY <1>2, <1>5, <2>1, <2>2
    <2>4. k - 1 < l - 1
      BY <1>1, <2>1
    <2> QED
      BY <2>3, <2>4 DEF InOrder
  <1> QED
    BY <1>3, <1>4, <1>5

\* What it keeps and gains with a new last element.
LEMMA AppendOrder ==
  ASSUME NEW S, NEW s \in Seq(S), NEW e \in S
  PROVE  /\ Holds(Append(s, e), e)
         /\ \A i : Holds(s, i) => Holds(Append(s, e), i) /\ InOrder(Append(s, e), i, e)
         /\ \A i, j : InOrder(s, i, j) => InOrder(Append(s, e), i, j)
  <1>1. /\ Len(s) \in Nat /\ DOMAIN s = 1 .. Len(s)
        /\ DOMAIN Append(s, e) = 1 .. (Len(s) + 1)
        /\ Append(s, e)[Len(s) + 1] = e
        /\ \A i \in 1 .. Len(s) : Append(s, e)[i] = s[i]
    OBVIOUS
  <1>2. /\ Len(s) + 1 \in DOMAIN Append(s, e)
        /\ \A k \in DOMAIN s : k \in DOMAIN Append(s, e) /\ Append(s, e)[k] = s[k] /\ k < Len(s) + 1
    BY <1>1
  <1>3. Holds(Append(s, e), e)
    BY <1>1, <1>2 DEF Holds
  <1>4. \A i : Holds(s, i) => Holds(Append(s, e), i) /\ InOrder(Append(s, e), i, e)
    BY <1>1, <1>2 DEF Holds, InOrder
  <1>5. \A i, j : InOrder(s, i, j) => InOrder(Append(s, e), i, j)
    BY <1>2 DEF InOrder
  <1> QED
    BY <1>3, <1>4, <1>5

\* What a step does to the lines: nothing, or a task comes, leaves before it
\* waits for the lock, goes on to wait for it, leaves its line, or all end.
LinesStay ==
  /\ ready' = ready /\ waiters' = waiters
  /\ \A i \in Jobs : task'[i] = task[i] \/ (task[i] \notin InLine /\ task'[i] \notin InLine)
Comes(j) ==
  task[j] \notin InLine /\ TriggerJob(j) /\ waiters' = waiters
LeavesReady(j) ==
  /\ ready # <<>> /\ j = Head(ready) /\ ready' = Tail(ready) /\ waiters' = waiters
  /\ \/ task' = [task EXCEPT ![j] = "none"]
     \/ waiters[QueueOf[j]] = <<>> /\ task' = [task EXCEPT ![j] = "executing"]
GoesOn(j) ==
  /\ ready # <<>> /\ j = Head(ready) /\ ready' = Tail(ready)
  /\ waiters' = [waiters EXCEPT ![QueueOf[j]] = Append(@, j)]
  /\ task' = [task EXCEPT ![j] = "waiting"]
LeavesLock(q) ==
  /\ waiters[q] # <<>> /\ waiters' = [waiters EXCEPT ![q] = Tail(@)] /\ ready' = ready
  /\ \E at \in {"none", "executing"} : task' = [task EXCEPT ![Head(waiters[q])] = at]
AllEnd == \A j \in Jobs : task'[j] = "none"

LEMMA LinesStep ==
  ASSUME OutcomeInv, TypeOK, [Next]_vars
  PROVE  \/ LinesStay
         \/ \E j \in Jobs : Comes(j) \/ LeavesReady(j) \/ GoesOn(j)
         \/ \E q \in Queues : LeavesLock(q)
         \/ AllEnd
  <1>1. ASSUME NEW j \in Jobs, NEW delayed \in BOOLEAN, Enqueue(j, delayed)
        PROVE  LinesStay \/ Comes(j)
    <2>1. task[j] = "none" /\ waiters' = waiters
      BY <1>1 DEF Enqueue, OutcomeInv, JobInv, DrawnInv, locks
    <2>2. \/ TriggerJob(j)
          \/ task' = [task EXCEPT ![j] = "delayed"] /\ ready' = ready
          \/ task' = task /\ ready' = ready
      BY <1>1 DEF Enqueue, Schedule
    <2> QED
      BY <2>1, <2>2 DEF LinesStay, Comes, InLine, TypeOK
  <1>2. ASSUME NEW j \in Jobs, FireTimer(j) \/ RecoverJob(j) PROVE Comes(j)
    BY <1>2 DEF FireTimer, RecoverJob, Comes, InLine, OutcomeInv, RestInv, RecoverInv, locks
  <1>3. ASSUME StartTask PROVE \E j \in Jobs : LeavesReady(j) \/ GoesOn(j)
    <2> DEFINE j == Head(ready)
    <2>1. ready # <<>> /\ j \in Jobs
      BY <1>3, Heads DEF StartTask, OutcomeInv
    <2>2. LeavesReady(j) \/ GoesOn(j)
      BY <1>3, <2>1 DEF StartTask, LeavesReady, GoesOn, BeginAttempt, LockIsFree, locks
    <2> QED
      BY <2>1, <2>2
  <1>4. ASSUME NEW q \in Queues, GrantLock(q) PROVE LeavesLock(q)
    BY <1>4 DEF GrantLock, LeavesLock, BeginAttempt
  <1>5. ASSUME NEW j \in Jobs, HandlerEnds(j) \/ BackoffEnds(j) PROVE LinesStay
    <2>1. task[j] \in InBody /\ ready' = ready /\ waiters' = waiters
      BY <1>5 DEF HandlerEnds, HandlerReturns, HandlerRaises, HandlerGivesUp,
         HandlerAborts, BackoffEnds, InBody, locks
    <2>2. \E at \in {"none", "backoff", "executing"} : task' = [task EXCEPT ![j] = at]
      BY <1>5 DEF HandlerEnds, HandlerReturns, HandlerRaises, HandlerGivesUp,
         HandlerAborts, BackoffEnds, BeginAttempt, LeaveBody
    <2> QED
      BY <2>1, <2>2 DEF LinesStay, InLine, InBody, TypeOK
  <1>6. ASSUME NEW j \in Jobs, TaskDies(j)
        PROVE  LinesStay \/ LeavesReady(j) \/ LeavesLock(QueueOf[j])
    <2>1. /\ task' = [task EXCEPT ![j] = "none"]
          /\ \/ /\ ready # <<>> /\ j = Head(ready) /\ ready' = Tail(ready)
                /\ waiters' = waiters
             \/ /\ waiters[QueueOf[j]] # <<>> /\ j = Head(waiters[QueueOf[j]])
                /\ waiters' = [waiters EXCEPT ![QueueOf[j]] = Tail(@)]
                /\ ready' = ready
             \/ task[j] \in InBody /\ ready' = ready /\ waiters' = waiters
      BY <1>6, Zenon, DiesCases DEF LeaveBody
    <2>2. CASE task[j] \in InBody /\ ready' = ready /\ waiters' = waiters
      BY <2>1, <2>2 DEF LinesStay, InLine, InBody, TypeOK
    <2> QED
      BY <2>1, <2>2 DEF LeavesReady, LeavesLock
  <1>7. ASSUME NEW S \in SUBSET Jobs, CancelJobs(S) PROVE LinesStay
    BY <1>7 DEF CancelJobs, LinesStay, locks
  <1>8. ASSUME Crash \/ Shutdown PROVE AllEnd
    BY <1>8 DEF Crash, Shutdown, LoseMemory, AllEnd
  <1>9. ASSUME Boot \/ FinishRecovery \/ UNCHANGED vars PROVE LinesStay
    BY <1>9 DEF Boot, FinishRecovery, vars, memory, LinesStay
  <1>10. \A j \in Jobs : QueueOf[j] \in Queues
    BY JobsAssumption
  <1>11. ASSUME NEW q \in Queues, CancelJobsForBase(q) PROVE LinesStay
    BY <1>7, <1>11 DEF CancelJobsForBase, ActiveJobs
  <1>12. ASSUME NEW j \in Jobs, NEW S \in SUBSET Jobs, CancelJobsForItems(j, S) PROVE LinesStay
    BY <1>7, <1>12 DEF CancelJobsForItems
  <1> QED
    BY <1>1, <1>2, <1>3, <1>4, <1>5, <1>6, <1>8, <1>9, <1>10, <1>11, <1>12 DEF Next

\* The action that NoOvertaking is about.
KeepsOrder ==
  \A i, j \in Jobs :
    /\ QueueOf[i] = QueueOf[j] /\ task[i] \in InLine /\ task[j] \notin InLine /\ task'[j] \in InLine
         => Ahead(i, j)'
    /\ Ahead(i, j) => Ahead(i, j)' \/ task'[i] \notin InLine \/ task'[j] = "none"

\* The lines are sequences of jobs, without repetition, of tasks that stand there.
LEMMA LinesAre ==
  ASSUME OutcomeInv, TypeOK
  PROVE  /\ ready \in Seq(Jobs) /\ Distinct(ready)
         /\ \A i : Holds(ready, i) => i \in Jobs /\ task[i] = "created"
         /\ \A i, j : InOrder(ready, i, j) => Holds(ready, i) /\ Holds(ready, j)
         /\ \A q \in Queues :
              /\ waiters[q] \in Seq(Jobs) /\ Distinct(waiters[q])
              /\ \A i : Holds(waiters[q], i) => i \in Jobs /\ task[i] = "waiting" /\ QueueOf[i] = q
              /\ \A i, j : InOrder(waiters[q], i, j) => Holds(waiters[q], i) /\ Holds(waiters[q], j)
  <1>1. ready \in Seq(Jobs) /\ \A q \in Queues : waiters[q] \in Seq(Jobs)
    BY DEF TypeOK
  <1>2. /\ \A k \in DOMAIN ready : ready[k] \in Jobs
        /\ \A q \in Queues : \A k \in DOMAIN waiters[q] : waiters[q][k] \in Jobs
    BY <1>1, Elements
  <1> QED
    BY <1>1, <1>2 DEF OutcomeInv, LineInv, ReadyInv, LinesInv, Holds, InOrder

LEMMA ComesInOrder ==
  ASSUME OutcomeInv, TypeOK, PlacesInv, NEW h \in Jobs, Comes(h)
  PROVE  PlacesInv' /\ KeepsOrder
  <1>1. /\ task[h] \notin InLine /\ task'[h] = "created"
        /\ \A i \in Jobs \ {h} : task'[i] = task[i]
        /\ ready' = Append(ready, h) /\ waiters' = waiters
    BY DEF Comes, TriggerJob, TypeOK
  <1>2. /\ Holds(ready', h)
        /\ \A i : Holds(ready, i) => Holds(ready', i) /\ InOrder(ready', i, h)
        /\ \A i, j : InOrder(ready, i, j) => InOrder(ready', i, j)
    BY <1>1, LinesAre, AppendOrder
  <1>3. PlacesInv'
    BY <1>1, <1>2 DEF PlacesInv
  <1>4. ASSUME NEW i \in Jobs, NEW j \in Jobs, QueueOf[i] = QueueOf[j],
               task[i] \in InLine, task[j] \notin InLine, task'[j] \in InLine
        PROVE  Ahead(i, j)'
    <2>1. j = h /\ i # h
      BY <1>1, <1>4
    <2>2. CASE task[i] = "waiting"
      BY <1>1, <1>4, <2>1, <2>2 DEF Ahead
    <2>3. CASE task[i] = "created"
      BY <1>2, <1>4, <2>1, <2>3 DEF Ahead, PlacesInv
    <2> QED
      BY <1>4, <2>2, <2>3 DEF InLine
  <1>5. ASSUME NEW i \in Jobs, NEW j \in Jobs, Ahead(i, j) PROVE Ahead(i, j)'
    <2>1. task[i] = "waiting" /\ task[j] = "created" => i # h /\ j # h
      BY <1>1 DEF InLine
    <2> QED
      BY <1>1, <1>2, <1>5, <2>1 DEF Ahead
  <1> QED
    BY <1>3, <1>4, <1>5 DEF KeepsOrder

LEMMA LeavesReadyInOrder ==
  ASSUME OutcomeInv, TypeOK, PlacesInv, NEW h \in Jobs, LeavesReady(h)
  PROVE  PlacesInv' /\ KeepsOrder
  <1>1. /\ ready # <<>> /\ h = Head(ready) /\ ready' = Tail(ready) /\ waiters' = waiters
        /\ task'[h] = "none" \/ (waiters[QueueOf[h]] = <<>> /\ task'[h] = "executing")
        /\ \A i \in Jobs \ {h} : task'[i] = task[i]
    BY DEF LeavesReady, TypeOK
  <1>2. task[h] = "created" /\ task'[h] \notin InLine
    BY <1>1, Heads DEF OutcomeInv, InLine
  <1>3. /\ \A i : Holds(ready, i) /\ i # h => Holds(ready', i)
        /\ \A i, j : InOrder(ready, i, j) /\ i # h => InOrder(ready', i, j)
        /\ \A i, j : InOrder(ready, i, j) => j # h
    BY <1>1, LinesAre, TailOrder
  <1>4. PlacesInv'
    BY <1>1, <1>2, <1>3 DEF PlacesInv, InLine
  <1>5. ASSUME NEW j \in Jobs, task[j] \notin InLine PROVE task'[j] \notin InLine
    BY <1>1, <1>2, <1>5
  <1>6. ASSUME NEW i \in Jobs, NEW j \in Jobs, Ahead(i, j)
        PROVE  Ahead(i, j)' \/ task'[i] \notin InLine \/ task'[j] = "none"
    <2>1. CASE i = h
      BY <1>2, <2>1
    <2>2. CASE i # h /\ j = h /\ waiters[QueueOf[h]] = <<>>
      <3>1. ~InOrder(<<>>, i, j) /\ ~Holds(<<>>, i)
        BY DEF InOrder, Holds
      <3> QED
        BY <1>3, <1>6, <2>2, <3>1 DEF Ahead, PlacesInv
    <2>3. CASE i # h /\ j # h
      BY <1>1, <1>3, <1>6, <2>3 DEF Ahead
    <2> QED
      BY <1>1, <2>1, <2>2, <2>3
  <1> QED
    BY <1>4, <1>5, <1>6 DEF KeepsOrder

LEMMA GoesOnInOrder ==
  ASSUME OutcomeInv, TypeOK, PlacesInv, NEW h \in Jobs, GoesOn(h)
  PROVE  PlacesInv' /\ KeepsOrder
  <1> DEFINE q == QueueOf[h]
  <1>0. q \in Queues
    BY JobsAssumption
  <1>1. /\ ready # <<>> /\ h = Head(ready) /\ ready' = Tail(ready)
        /\ waiters'[q] = Append(waiters[q], h)
        /\ \A p \in Queues \ {q} : waiters'[p] = waiters[p]
        /\ task'[h] = "waiting"
        /\ \A i \in Jobs \ {h} : task'[i] = task[i]
    BY <1>0 DEF GoesOn, TypeOK
  <1>2. task[h] = "created"
    BY <1>1, Heads DEF OutcomeInv
  <1>3. /\ \A i : Holds(ready, i) /\ i # h => Holds(ready', i)
        /\ \A i, j : InOrder(ready, i, j) /\ i # h => InOrder(ready', i, j)
        /\ \A i, j : InOrder(ready, i, j) => j # h
    BY <1>1, LinesAre, TailOrder
  <1>4. /\ Holds(waiters'[q], h)
        /\ \A i : Holds(waiters[q], i) => Holds(waiters'[q], i) /\ InOrder(waiters'[q], i, h)
        /\ \A i, j : InOrder(waiters[q], i, j) => InOrder(waiters'[q], i, j)
    <2>1. waiters[q] \in Seq(Jobs)
      BY <1>0, LinesAre
    <2> HIDE DEF q
    <2> QED
      BY <1>1, <2>1, AppendOrder
  <1>5. \A i \in Jobs : QueueOf[i] \in Queues
    BY JobsAssumption
  <1>6. /\ \A p \in Queues : \A i : Holds(waiters[p], i) => Holds(waiters'[p], i)
        /\ \A p \in Queues : \A i, j : InOrder(waiters[p], i, j) => InOrder(waiters'[p], i, j)
    BY <1>1, <1>4
  <1>7. PlacesInv'
    BY <1>1, <1>2, <1>3, <1>4, <1>5, <1>6 DEF PlacesInv
  <1>8. ASSUME NEW j \in Jobs, task[j] \notin InLine PROVE task'[j] \notin InLine
    BY <1>1, <1>2, <1>8 DEF InLine
  <1>9. ASSUME NEW i \in Jobs, NEW j \in Jobs, Ahead(i, j) PROVE Ahead(i, j)'
    <2>1. QueueOf[i] = QueueOf[j] /\ QueueOf[i] \in Queues
      BY <1>5, <1>9 DEF Ahead
    <2>2. CASE InOrder(waiters[QueueOf[i]], i, j)
      <3>1. InOrder(waiters'[QueueOf[i]], i, j)
        BY <1>6, <2>1, <2>2
      <3> QED
        BY <2>1, <3>1 DEF Ahead
    <2>3. CASE InOrder(ready, i, j)
      <3>1. j # h /\ task'[j] = "created"
        BY <1>1, <1>3, <2>3, LinesAre
      <3> QED
        BY <1>1, <1>3, <2>1, <2>3, <3>1 DEF Ahead
    <2>4. CASE task[i] = "waiting" /\ task[j] = "created"
      <3>1. i # h /\ Holds(waiters[QueueOf[i]], i)
        BY <1>2, <2>4 DEF PlacesInv
      <3>2. CASE j = h
        BY <1>4, <2>1, <3>1, <3>2 DEF Ahead
      <3>3. CASE j # h
        BY <1>1, <2>1, <2>4, <3>1, <3>3 DEF Ahead
      <3> QED
        BY <3>2, <3>3
    <2> QED
      BY <1>9, <2>2, <2>3, <2>4 DEF Ahead
  <1> QED
    BY <1>7, <1>8, <1>9 DEF KeepsOrder

LEMMA LeavesLockInOrder ==
  ASSUME OutcomeInv, TypeOK, PlacesInv, NEW q \in Queues, LeavesLock(q)
  PROVE  PlacesInv' /\ KeepsOrder
  <1> DEFINE h == Head(waiters[q])
  <1>1. h \in Jobs /\ task[h] = "waiting" /\ QueueOf[h] = q
    BY Heads DEF OutcomeInv, LeavesLock
  <1>2. /\ waiters[q] # <<>> /\ waiters'[q] = Tail(waiters[q]) /\ ready' = ready
        /\ \A p \in Queues \ {q} : waiters'[p] = waiters[p]
        /\ task'[h] \notin InLine
        /\ \A i \in Jobs \ {h} : task'[i] = task[i]
    BY <1>1 DEF LeavesLock, TypeOK, InLine
  <1>3. /\ \A i : Holds(waiters[q], i) /\ i # h => Holds(waiters'[q], i)
        /\ \A i, j : InOrder(waiters[q], i, j) /\ i # h => InOrder(waiters'[q], i, j)
        /\ \A i, j : InOrder(waiters[q], i, j) => j # h
    <2> DEFINE s == waiters[q]
    <2>1. s \in Seq(Jobs) /\ Distinct(s) /\ s # <<>> /\ h = Head(s) /\ waiters'[q] = Tail(s)
      BY <1>2, LinesAre
    <2> HIDE DEF s, h
    <2>2. /\ \A i : Holds(s, i) /\ i # h => Holds(Tail(s), i)
          /\ \A i, j : InOrder(s, i, j) /\ i # h => InOrder(Tail(s), i, j)
          /\ \A i, j : InOrder(s, i, j) => j # h
      BY <2>1, TailOrder
    <2> QED
      BY <2>1, <2>2 DEF s
  <1> HIDE DEF h
  <1>4. \A i \in Jobs : QueueOf[i] \in Queues
    BY JobsAssumption
  <1>5. PlacesInv'
    BY <1>1, <1>2, <1>3, <1>4 DEF PlacesInv, InLine
  <1>6. ASSUME NEW j \in Jobs, task[j] \notin InLine PROVE task'[j] \notin InLine
    BY <1>2, <1>6
  <1>7. ASSUME NEW i \in Jobs, NEW j \in Jobs, Ahead(i, j)
        PROVE  Ahead(i, j)' \/ task'[i] \notin InLine \/ task'[j] = "none"
    <2>1. CASE i = h
      BY <1>2, <2>1
    <2>2. j # h
      <3>1. ~InOrder(ready, i, h)
        BY <1>1, LinesAre
      <3> QED
        BY <1>1, <1>3, <1>7, <3>1 DEF Ahead
    <2>3. CASE i # h
      BY <1>2, <1>3, <1>4, <1>7, <2>2, <2>3 DEF Ahead
    <2> QED
      BY <2>1, <2>3
  <1> QED
    BY <1>5, <1>6, <1>7 DEF KeepsOrder

\* Every step keeps the tasks in their places and in their order.
LEMMA NextOrder ==
  ASSUME OutcomeInv, PlacesInv, [Next]_vars
  PROVE  PlacesInv' /\ KeepsOrder
  <1>1. TypeOK
    BY DEF OutcomeInv, TypeInv
  <1>2. CASE LinesStay
    BY <1>2 DEF LinesStay, PlacesInv, KeepsOrder, Ahead, InLine
  <1>3. CASE AllEnd
    BY <1>3 DEF AllEnd, PlacesInv, KeepsOrder, InLine
  <1> QED
    BY <1>1, <1>2, <1>3, LinesStep, ComesInOrder, LeavesReadyInOrder, GoesOnInOrder,
       LeavesLockInOrder

\* First come, first served: in every behaviour of the job manager, restarts and
\* faults included, the tasks of a queue keep the order in which they were
\* triggered, from the event loop through the lock into the handler.
THEOREM NobodyOvertakes == Spec => NoOvertaking
  <1>1. Init => PlacesInv
    BY DEF Init, PlacesInv
  <1>2. OutcomeInv /\ PlacesInv /\ [Next]_vars => PlacesInv'
    BY NextOrder
  <1>3. OutcomeInv /\ PlacesInv /\ [Next]_vars
          => [\A i, j \in Jobs :
                /\ QueueOf[i] = QueueOf[j] /\ task[i] \in InLine /\ task[j] \notin InLine
                     /\ task'[j] \in InLine => Ahead(i, j)'
                /\ Ahead(i, j) => Ahead(i, j)' \/ task'[i] \notin InLine \/ task'[j] = "none"]_vars
    BY NextOrder DEF KeepsOrder
  <1> QED
    BY <1>1, <1>2, <1>3, InitOutcome, NextOutcome, PTL DEF Spec, NoOvertaking

-----------------------------------------------------------------------------
(* Every step of the job manager, of its retries, cancellations, faults and *)
(* recoveries, is a step of the serial queue or changes nothing that its    *)
(* callers see                                                              *)

jobState == [j \in Jobs |-> JobState(j)]

\* What a step does to the state of the jobs.
AbstractStep == Abstract!Next \/ jobState' = jobState

\* A step that leaves the row, and whether the task is in its handler or
\* between two attempts, as they are leaves the state of a job.
LEMMA SameState ==
  ASSUME NEW j \in Jobs, status'[j] = status[j],
         task'[j] \in InBody <=> task[j] \in InBody
  PROVE  JobState(j)' = JobState(j)
  BY DEF JobState

\* A step that changes the state of one job only.
LEMMA OneState ==
  ASSUME NEW j \in Jobs, \A i \in Jobs \ {j} : JobState(i)' = JobState(i)
  PROVE  /\ jobState' = [jobState EXCEPT ![j] = JobState(j)']
         /\ JobState(j)' = JobState(j) => jobState' = jobState
  BY DEF jobState

\* Such a step is one of the serial queue if the job goes one of its ways.
LEMMA OneStep ==
  ASSUME NEW j \in Jobs, \A i \in Jobs \ {j} : JobState(i)' = JobState(i),
         \/ JobState(j)' = JobState(j)
         \/ JobState(j) = "absent" /\ JobState(j)' = "queued"
         \/ /\ JobState(j) = "queued" /\ JobState(j)' = "active"
            /\ \A i \in Jobs : QueueOf[i] = QueueOf[j] => JobState(i) # "active"
         \/ JobState(j) = "active" /\ JobState(j)' \in {"settled", "queued"}
         \/ JobState(j) = "queued" /\ JobState(j)' = "settled"
  PROVE  AbstractStep
  <1>1. /\ jobState' = [jobState EXCEPT ![j] = JobState(j)']
        /\ JobState(j)' = JobState(j) => jobState' = jobState
    BY OneState
  <1>2. \A i \in Jobs : jobState[i] = JobState(i)
    BY DEF jobState
  <1>3. CASE JobState(j)' = JobState(j)
    BY <1>1, <1>3 DEF AbstractStep
  <1>4. CASE JobState(j) = "absent" /\ JobState(j)' = "queued"
    <2>1. Abstract!Submit(j)
      BY <1>1, <1>2, <1>4 DEF Abstract!Submit, jobState
    <2> QED
      BY <2>1 DEF AbstractStep, Abstract!Next
  <1>5. CASE /\ JobState(j) = "queued" /\ JobState(j)' = "active"
             /\ \A i \in Jobs : QueueOf[i] = QueueOf[j] => JobState(i) # "active"
    <2>1. Abstract!Begin(j)
      BY <1>1, <1>2, <1>5 DEF Abstract!Begin, jobState
    <2> QED
      BY <2>1 DEF AbstractStep, Abstract!Next
  <1>6. CASE JobState(j) = "active" /\ JobState(j)' \in {"settled", "queued"}
    <2>1. Abstract!Settle(j)
      BY <1>1, <1>2, <1>6 DEF Abstract!Settle, jobState
    <2> QED
      BY <2>1 DEF AbstractStep, Abstract!Next
  <1>7. CASE JobState(j) = "queued" /\ JobState(j)' = "settled"
    <2>1. jobState' = [i \in Jobs |-> IF i \in {j} THEN "settled" ELSE jobState[i]]
      BY <1>1, <1>7 DEF jobState
    <2>2. Abstract!Withdraw({j})
      BY <1>2, <1>7, <2>1 DEF Abstract!Withdraw, jobState
    <2> QED
      BY <2>2 DEF AbstractStep, Abstract!Next
  <1> QED
    BY <1>3, <1>4, <1>5, <1>6, <1>7

\* The states of a job, by its row and its task.
LEMMA States ==
  ASSUME NEW j \in Jobs
  PROVE  /\ status[j] = "absent" => JobState(j) = "absent"
         /\ status[j] # "absent" /\ task[j] \in InBody => JobState(j) = "active"
         /\ status[j] \in Active /\ task[j] \notin InBody => JobState(j) = "queued"
         /\ status[j] \notin Active \cup {"absent"} /\ task[j] \notin InBody
              => JobState(j) = "settled"
         /\ JobState(j) = "active" => task[j] \in InBody
  BY DEF JobState, Active

LEMMA StatesAfter ==
  ASSUME NEW j \in Jobs
  PROVE  /\ status'[j] = "absent" => JobState(j)' = "absent"
         /\ status'[j] # "absent" /\ task'[j] \in InBody => JobState(j)' = "active"
         /\ status'[j] \in Active /\ task'[j] \notin InBody => JobState(j)' = "queued"
         /\ status'[j] \notin Active \cup {"absent"} /\ task'[j] \notin InBody
              => JobState(j)' = "settled"
  BY DEF JobState, Active

\* A free lock means that no job of its queue is active.
LEMMA FreeLock ==
  ASSUME LockInv, NEW q \in Queues, holder[q] = NoJob
  PROVE  \A i \in Jobs : QueueOf[i] = q => JobState(i) # "active"
  <1> SUFFICES ASSUME NEW i \in Jobs, QueueOf[i] = q, JobState(i) = "active"
               PROVE  FALSE
    OBVIOUS
  <1>1. task[i] \in InBody
    BY States
  <1> QED
    BY <1>1, JobsAssumption DEF LockInv, HolderInv

-----------------------------------------------------------------------------
\* An accepted job is queued; a call that finds a job, or draws an id without
\* a row, changes nothing; nor do timers and the recovery.
LEMMA TriggerImplements ==
  ASSUME TypeOK, OutcomeInv, NEW j \in Jobs
  PROVE  /\ \A delayed \in BOOLEAN : Enqueue(j, delayed) => AbstractStep
         /\ FireTimer(j) => AbstractStep
         /\ RecoverJob(j) => AbstractStep
  <1>1. ASSUME NEW delayed \in BOOLEAN, Enqueue(j, delayed) PROVE AbstractStep
    <2>1. status[j] = "absent" /\ task[j] = "none"
      BY <1>1 DEF Enqueue, OutcomeInv, JobInv, DrawnInv
    <2>2. /\ status' = [status EXCEPT ![j] = "pending"] \/ status' = status
          /\ task' \in {task, [task EXCEPT ![j] = "created"], [task EXCEPT ![j] = "delayed"]}
      BY <1>1 DEF Enqueue, Schedule, TriggerJob
    <2>3. \A i \in Jobs \ {j} : status'[i] = status[i] /\ task'[i] = task[i]
      BY <2>2 DEF TypeOK
    <2>4. \A i \in Jobs \ {j} : JobState(i)' = JobState(i)
      BY <2>3, SameState
    <2>5. status'[j] \in {"absent", "pending"} /\ task'[j] \notin InBody
      BY <2>1, <2>2 DEF TypeOK, InBody
    <2>6. JobState(j) = "absent" /\ JobState(j)' \in {"absent", "queued"}
      BY <2>1, <2>5, States, StatesAfter DEF Active
    <2> QED
      BY <2>4, <2>6, OneStep
  <1>2. ASSUME FireTimer(j) PROVE AbstractStep
    <2>1. \A i \in Jobs : status'[i] = status[i] /\ (task'[i] \in InBody <=> task[i] \in InBody)
      BY <1>2 DEF FireTimer, TriggerJob, TypeOK, InBody, table
    <2> QED
      BY <2>1, SameState, OneStep
  <1>3. ASSUME RecoverJob(j) PROVE AbstractStep
    <2>1. status[j] = "running" /\ task[j] = "none"
      BY <1>3 DEF RecoverJob, OutcomeInv, RestInv, RecoverInv
    <2>2. /\ status'[j] = "pending" /\ task'[j] = "created"
          /\ \A i \in Jobs \ {j} : status'[i] = status[i] /\ task'[i] = task[i]
      BY <1>3 DEF RecoverJob, TriggerJob, TypeOK
    <2>3. \A i \in Jobs \ {j} : JobState(i)' = JobState(i)
      BY <2>2, SameState
    <2>4. JobState(j) = "queued" /\ JobState(j)' = "queued"
      BY <2>1, <2>2, States, StatesAfter DEF Active, InBody
    <2> QED
      BY <2>3, <2>4, OneStep
  <1> QED
    BY <1>1, <1>2, <1>3

\* A task begins its job only if the lock is free, and otherwise does nothing.
LEMMA StartImplements ==
  ASSUME TypeOK, OutcomeInv, LockInv, StartTask
  PROVE  AbstractStep
  <1>1. ready # <<>>
    BY DEF StartTask
  <1>2. PICK j \in Jobs : j = Head(ready) /\ task[j] = "created"
    BY <1>1, Heads DEF OutcomeInv
  <1> DEFINE q == QueueOf[j]
  <1>3. CASE status' = status /\ task' \in {[task EXCEPT ![j] = "none"],
                                            [task EXCEPT ![j] = "waiting"]}
    <2>1. \A i \in Jobs : status'[i] = status[i] /\ (task'[i] \in InBody <=> task[i] \in InBody)
      BY <1>2, <1>3 DEF TypeOK, InBody
    <2> QED
      BY <1>2, <2>1, SameState, OneStep
  <1>4. CASE /\ status[j] = "pending" /\ holder[q] = NoJob
             /\ status' = [status EXCEPT ![j] = "running"]
             /\ task' = [task EXCEPT ![j] = "executing"]
    <2>1. /\ status'[j] = "running" /\ task'[j] = "executing"
          /\ \A i \in Jobs \ {j} : status'[i] = status[i] /\ task'[i] = task[i]
      BY <1>2, <1>4 DEF TypeOK
    <2>2. \A i \in Jobs : QueueOf[i] = q => JobState(i) # "active"
      BY <1>4, FreeLock, JobsAssumption
    <2>3. \A i \in Jobs \ {j} : JobState(i)' = JobState(i)
      BY <2>1, SameState
    <2>4. JobState(j) = "queued" /\ JobState(j)' = "active"
      BY <1>2, <1>4, <2>1, States, StatesAfter DEF Active, InBody
    <2> QED
      BY <1>2, <2>2, <2>3, <2>4, OneStep
  <1> QED
    BY <1>2, <1>3, <1>4 DEF StartTask, LockIsFree, BeginAttempt, table

\* A task that waited begins its job, unless it was cancelled.
LEMMA GrantImplements ==
  ASSUME TypeOK, OutcomeInv, LockInv, NEW q \in Queues, GrantLock(q)
  PROVE  AbstractStep
  <1>1. waiters[q] # <<>> /\ holder[q] = NoJob
    BY DEF GrantLock
  <1>2. PICK j \in Jobs : j = Head(waiters[q]) /\ task[j] = "waiting" /\ QueueOf[j] = q
    BY <1>1, Heads DEF OutcomeInv
  <1>3. status[j] \in {"pending", "cancelled"}
    BY <1>2 DEF OutcomeInv, JobInv, StageInv
  <1>4. \/ status' = status /\ task' = [task EXCEPT ![j] = "none"]
        \/ /\ status[j] = "pending"
           /\ status' = [status EXCEPT ![j] = "running"]
           /\ task' = [task EXCEPT ![j] = "executing"]
    BY <1>2, <1>3 DEF GrantLock, BeginAttempt, table
  <1>5. \/ \A i \in Jobs : status'[i] = status[i] /\ (task'[i] \in InBody <=> task[i] \in InBody)
        \/ /\ status[j] = "pending" /\ status'[j] = "running" /\ task'[j] = "executing"
           /\ \A i \in Jobs \ {j} : status'[i] = status[i] /\ task'[i] = task[i]
    BY <1>2, <1>4 DEF TypeOK, InBody
  <1>6. \A i \in Jobs : QueueOf[i] = q => JobState(i) # "active"
    BY <1>1, FreeLock
  <1>7. CASE \A i \in Jobs :
               status'[i] = status[i] /\ (task'[i] \in InBody <=> task[i] \in InBody)
    BY <1>2, <1>7, SameState, OneStep
  <1>8. CASE /\ status[j] = "pending" /\ status'[j] = "running" /\ task'[j] = "executing"
             /\ \A i \in Jobs \ {j} : status'[i] = status[i] /\ task'[i] = task[i]
    <2>1. \A i \in Jobs \ {j} : JobState(i)' = JobState(i)
      BY <1>8, SameState
    <2>2. JobState(j) = "queued" /\ JobState(j)' = "active"
      BY <1>2, <1>8, States, StatesAfter DEF Active, InBody
    <2> QED
      BY <1>2, <1>6, <2>1, <2>2, OneStep
  <1> QED
    BY <1>5, <1>7, <1>8

\* An active job is retried, which is nothing new, or ends.
LEMMA HandlerImplements ==
  ASSUME TypeOK, OutcomeInv, NEW j \in Jobs, HandlerEnds(j) \/ BackoffEnds(j)
  PROVE  AbstractStep
  <1>1. task[j] \in InBody
    BY DEF HandlerEnds, HandlerReturns, HandlerRaises, HandlerGivesUp,
       HandlerAborts, BackoffEnds, InBody
  <1>2. status[j] \in {"pending", "running", "cancelled"}
    BY <1>1 DEF OutcomeInv, JobInv, StageInv, InBody
  <1>3. /\ status' = status \/ \E s \in Status : status' = [status EXCEPT ![j] = s]
        /\ \E t \in {"none", "backoff", "executing"} : task' = [task EXCEPT ![j] = t]
        /\ task' = [task EXCEPT ![j] = "none"] =>
             \/ \E s \in Terminal : status' = [status EXCEPT ![j] = s]
             \/ status[j] = "cancelled" /\ status' = status
    <2>1. CASE HandlerEnds(j)
      BY <2>1 DEF HandlerEnds, HandlerReturns, HandlerRaises, HandlerGivesUp,
         HandlerAborts, LeaveBody, Terminal, Status, Active, TypeOK
    <2>2. CASE BackoffEnds(j)
      <3>1. task[j] = "backoff" /\ status[j] \in {"pending", "cancelled"}
        BY <2>2 DEF BackoffEnds, OutcomeInv, JobInv, StageInv
      <3> QED
        BY <2>2, <3>1 DEF BackoffEnds, BeginAttempt, LeaveBody, Status, Active, table,
           TypeOK
    <2> QED
      BY <2>1, <2>2
  <1>4. \A i \in Jobs \ {j} : status'[i] = status[i] /\ task'[i] = task[i]
    BY <1>3 DEF TypeOK
  <1>5. \/ status'[j] # "absent" /\ task'[j] \in InBody
        \/ status'[j] \notin Active \cup {"absent"} /\ task'[j] \notin InBody
    BY <1>2, <1>3 DEF TypeOK, InBody, Status, Terminal, Active
  <1>6. \A i \in Jobs \ {j} : JobState(i)' = JobState(i)
    BY <1>4, SameState
  <1>7. JobState(j) = "active" /\ JobState(j)' \in {"active", "settled"}
    BY <1>1, <1>2, <1>5, States, StatesAfter
  <1> QED
    BY <1>6, <1>7, OneStep

\* A job whose task dies is settled, or put back as one that nobody runs.
LEMMA DiesImplements ==
  ASSUME TypeOK, OutcomeInv, NEW j \in Jobs, TaskDies(j)
  PROVE  AbstractStep
  <1>1. /\ \/ status[j] # "absent" /\ status' = [status EXCEPT ![j] = "failed"]
           \/ status' = status
        /\ task' = [task EXCEPT ![j] = "none"]
    BY Zenon, DiesCases DEF LeaveBody
  <1>2. /\ task'[j] = "none"
        /\ status'[j] = status[j] \/ (status[j] # "absent" /\ status'[j] = "failed")
        /\ \A i \in Jobs \ {j} : status'[i] = status[i] /\ task'[i] = task[i]
    BY <1>1 DEF TypeOK
  <1>3. \A i \in Jobs \ {j} : JobState(i)' = JobState(i)
    BY <1>2, SameState
  <1>4. CASE task[j] \in InBody
    <2>1. status[j] # "absent"
      BY <1>4 DEF OutcomeInv, JobInv, StageInv, InBody
    <2>2. JobState(j) = "active" /\ JobState(j)' \in {"settled", "queued"}
      BY <1>2, <1>4, <2>1, States, StatesAfter DEF InBody, Active
    <2> QED
      BY <1>3, <2>2, OneStep
  <1>5. CASE task[j] \notin InBody
    <2>1. \/ JobState(j)' = JobState(j)
          \/ JobState(j) = "queued" /\ JobState(j)' = "settled"
      <3>1. CASE status'[j] = status[j]
        BY <1>2, <1>5, <3>1, SameState DEF InBody
      <3>2. CASE status[j] # "absent" /\ status'[j] = "failed"
        BY <1>2, <1>5, <3>2, States, StatesAfter DEF InBody, Active
      <3> QED
        BY <1>2, <3>1, <3>2
    <2> QED
      BY <1>3, <2>1, OneStep
  <1> QED
    BY <1>4, <1>5

\* A cancellation withdraws the jobs that have not begun; an active one stays
\* active until its handler ends.
LEMMA CancelImplements ==
  ASSUME TypeOK, OutcomeInv, NEW S \in SUBSET Jobs, CancelJobs(S),
         \A j \in S : status[j] \in Active
  PROVE  AbstractStep
  <1> DEFINE W == {j \in S : task[j] \notin InBody}
  <1>1. /\ \A j \in Jobs : task'[j] = task[j]
        /\ \A j \in S : status'[j] = "cancelled"
        /\ \A j \in Jobs \ S : status'[j] = status[j]
    BY DEF CancelJobs
  <1>2. \A j \in W : JobState(j) = "queued" /\ JobState(j)' = "settled"
    BY <1>1, States, StatesAfter DEF Active
  <1>3. \A j \in Jobs \ W : JobState(j)' = JobState(j)
    <2>1. \A j \in S \ W : JobState(j) = "active" /\ JobState(j)' = "active"
      BY <1>1, States, StatesAfter DEF Active
    <2>2. \A j \in Jobs \ S : JobState(j)' = JobState(j)
      BY <1>1, SameState
    <2> QED
      BY <2>1, <2>2
  <1> HIDE DEF W
  <1>4. jobState' = [j \in Jobs |-> IF j \in W THEN "settled" ELSE jobState[j]]
    BY <1>2, <1>3 DEF jobState
  <1>5. W \in SUBSET Jobs /\ \A j \in W : jobState[j] = "queued"
    BY <1>2 DEF W, jobState
  <1>6. Abstract!Withdraw(W)
    BY <1>4, <1>5 DEF Abstract!Withdraw, jobState
  <1> QED
    BY <1>5, <1>6 DEF AbstractStep, Abstract!Next

\* A process end interrupts every active job: a crash puts it back, an orderly
\* shutdown settles the ones inside their handlers.
LEMMA EndImplements ==
  ASSUME TypeOK, OutcomeInv, Crash \/ Shutdown
  PROVE  AbstractStep
  <1> DEFINE A == {j \in Jobs : JobState(j) = "active"}
             T == {j \in A : status'[j] \notin Active}
  <1>1. \A j \in Jobs : task'[j] = "none"
    BY DEF Crash, Shutdown, LoseMemory
  <1>2. \A j \in Jobs :
          status'[j] = status[j] \/ (task[j] = "executing" /\ status'[j] = "cancelled")
    BY DEF Crash, Shutdown, TypeOK, table
  <1>3. \A j \in A : JobState(j)' = IF j \in T THEN "settled" ELSE "queued"
    <2>1. \A j \in A : status[j] # "absent"
      BY States
    <2> QED
      BY <1>1, <1>2, <2>1, StatesAfter DEF InBody, Active
  <1>4. \A j \in Jobs \ A : JobState(j)' = JobState(j)
    <2> SUFFICES ASSUME NEW j \in Jobs \ A PROVE JobState(j)' = JobState(j)
      OBVIOUS
    <2>1. task[j] \notin InBody
      <3>1. task[j] \in InBody => status[j] # "absent"
        BY DEF OutcomeInv, JobInv, StageInv, InBody
      <3> QED
        BY <3>1, States
    <2> QED
      BY <1>1, <1>2, <2>1, SameState DEF InBody
  <1>5. /\ T \in SUBSET Jobs
        /\ \A j \in T : jobState[j] = "active"
        /\ \A j \in Jobs : j \in A <=> jobState[j] = "active"
    BY DEF jobState
  <1> HIDE DEF A, T
  <1>6. jobState' = [j \in Jobs |-> IF jobState[j] # "active" THEN jobState[j]
                                    ELSE IF j \in T THEN "settled" ELSE "queued"]
    BY <1>3, <1>4, <1>5 DEF jobState
  <1>7. Abstract!Interrupt(T)
    BY <1>5, <1>6 DEF Abstract!Interrupt, jobState
  <1> QED
    BY <1>5, <1>7 DEF AbstractStep, Abstract!Next

-----------------------------------------------------------------------------
\* Every step of the job manager is a step of the serial queue or stutters.
LEMMA NextImplements ==
  OutcomeInv /\ LockInv /\ [Next]_vars => AbstractStep
  <1> SUFFICES ASSUME OutcomeInv, TypeOK, LockInv, [Next]_vars PROVE AbstractStep
    BY DEF OutcomeInv, TypeInv
  <1>1. ASSUME NEW q \in Queues, CancelJobsForBase(q) PROVE AbstractStep
    BY <1>1, CancelImplements DEF CancelJobsForBase, ActiveJobs
  <1>2. ASSUME NEW j \in Jobs, NEW S \in SUBSET Jobs, CancelJobsForItems(j, S)
        PROVE  AbstractStep
    BY <1>2, CancelImplements DEF CancelJobsForItems, ActiveJobs
  <1>3. ASSUME UNCHANGED <<status, task>> PROVE AbstractStep
    BY <1>3 DEF AbstractStep, jobState, JobState
  <1>4. ASSUME Boot \/ FinishRecovery \/ UNCHANGED vars PROVE AbstractStep
    BY <1>3, <1>4 DEF Boot, FinishRecovery, table, memory, vars
  <1> QED
    BY <1>1, <1>2, <1>4, TriggerImplements, StartImplements, GrantImplements,
       HandlerImplements, DiesImplements, EndImplements DEF Next

\* The job manager implements the serial queue its callers rely on: a job
\* that is settled is never touched again, and one that is cancelled before
\* its turn never runs, through every retry, crash, shutdown and recovery.
THEOREM ManagerIsSerial == Spec => ImplementsSerialJobs
  <1>1. Init => Abstract!Init
    BY DEF Init, Abstract!Init, JobState
  <1>2. OutcomeInv /\ LockInv /\ [Next]_vars =>
          [Abstract!Next]_[j \in Jobs |-> JobState(j)]
    BY NextImplements DEF AbstractStep, jobState
  <1> QED
    BY <1>1, <1>2, InitOutcome, NextOutcome, InitTypeInv, NextTypeInv, InitLockInv,
       NextLockInv, PTL DEF Spec, ImplementsSerialJobs, Abstract!Spec
=============================================================================
