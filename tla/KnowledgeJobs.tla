--------------------------- MODULE KnowledgeJobs ---------------------------
(***************************************************************************)
(* The background job manager of the knowledge base                        *)
(* (backend/app/services/knowledge_job_manager.py).                        *)
(*                                                                         *)
(* A job is a row of the table knowledge_jobs together with, while the     *)
(* process lives, at most one asyncio task that executes it.  All tasks    *)
(* run on one event loop, so the code between two awaits is one atomic     *)
(* step: an action of this module is the code from one await to the next.  *)
(* The table survives a crash, everything else does not.                   *)
(*                                                                         *)
(* What a handler does inside its execute() is left to the modules of the  *)
(* handlers; here it returns, raises (a timeout of wait_for included),     *)
(* aborts because its signal is set, enqueues or cancels other jobs.       *)
(***************************************************************************)
EXTENDS Naturals, Sequences

CONSTANTS
  Jobs,         \* the job ids _generate_job_id may return, one per enqueue call
  Queues,       \* queue names: the ids of the knowledge bases
  Keys,         \* idempotency keys
  NoJob,        \* no job (a free lock, an enqueue call not made yet)
  NoKey,        \* an enqueue call without idempotency key
  QueueOf,      \* the queue argument of the enqueue call that draws the id
  KeyOf,        \* its idempotency_key argument
  MaxAttempts,  \* max_attempts of the handler (3; 30 for result polling)
  MaxCrashes,   \* bound: process ends (crash or shutdown) in a behaviour
  MaxDbFaults   \* bound: statements of a task that the database refuses

ASSUME JobsAssumption ==
  /\ NoJob \notin Jobs
  /\ NoKey \notin Keys
  /\ QueueOf \in [Jobs -> Queues]
  /\ KeyOf \in [Jobs -> Keys \cup {NoKey}]
  /\ MaxAttempts \in Nat \ {0}
  /\ MaxCrashes \in Nat
  /\ MaxDbFaults \in Nat

VARIABLES
  status,       \* the status column, "absent" for a job without a row
  attempt,      \* the attempt column, which equals the loop variable of a task
  answer,       \* what the enqueue call with this id returned
  task,         \* where the asyncio task of the job stands
  ready,        \* tasks created and not started, in the order of the event loop
  waiters,      \* per queue, the tasks suspended in asyncio.Lock.acquire
  holder,       \* per queue, the job whose task holds the lock
  cancelEvent,  \* jobs whose JobHandle has its cancel event set
  phase,        \* of the process: "down", "recovering" or "up"
  toRecover,    \* rows recover_stalled_jobs has read and not handled yet
  crashes,      \* process ends so far
  dbFaults      \* database faults so far

table  == <<status, attempt>>
locks  == <<waiters, holder>>
memory == <<task, ready, waiters, holder, cancelEvent>>
proc   == <<phase, toRecover, crashes>>
vars   == <<status, attempt, answer, task, ready, waiters, holder, cancelEvent,
            phase, toRecover, crashes, dbFaults>>

Status   == {"pending", "running", "completed", "failed", "cancelled"}
Active   == {"pending", "running"}
Terminal == Status \ Active

\* The task is in the body of "async with lock": inside the handler or asleep
\* between two attempts.  Its JobHandle is registered exactly then.
InBody == {"executing", "backoff"}
Tasks  == InBody \cup {"none", "delayed", "created", "waiting"}

TypeOK ==
  /\ status \in [Jobs -> Status \cup {"absent"}]
  /\ attempt \in [Jobs -> 0 .. MaxAttempts]
  /\ answer \in [Jobs -> Jobs \cup {NoJob}]
  /\ task \in [Jobs -> Tasks]
  /\ ready \in Seq(Jobs)
  /\ waiters \in [Queues -> Seq(Jobs)]
  /\ holder \in [Queues -> Jobs \cup {NoJob}]
  /\ cancelEvent \subseteq Jobs
  /\ phase \in {"down", "recovering", "up"}
  /\ toRecover \subseteq Jobs
  /\ crashes \in Nat
  /\ dbFaults \in Nat

Init ==
  /\ status = [j \in Jobs |-> "absent"]
  /\ attempt = [j \in Jobs |-> 0]
  /\ answer = [j \in Jobs |-> NoJob]
  /\ task = [j \in Jobs |-> "none"]
  /\ ready = <<>>
  /\ waiters = [q \in Queues |-> <<>>]
  /\ holder = [q \in Queues |-> NoJob]
  /\ cancelEvent = {}
  /\ phase = "up"
  /\ toRecover = {}
  /\ crashes = 0
  /\ dbFaults = 0

-----------------------------------------------------------------------------
(* enqueue and the creation of tasks                                       *)

\* _trigger_job: create_task, which the event loop starts in FIFO order.
TriggerJob(j) ==
  /\ task' = [task EXCEPT ![j] = "created"]
  /\ ready' = Append(ready, j)

\* Mutant of Schedule: the delayed branch forgets call_later.
ScheduleWithoutTimer(j, delayed) ==
  IF delayed THEN UNCHANGED <<task, ready>> ELSE TriggerJob(j)

\* The end of enqueue: trigger now, or after delay_ms by call_later.
Schedule(j, delayed) ==
  IF delayed
  THEN /\ task' = [task EXCEPT ![j] = "delayed"]
       /\ UNCHANGED ready
  ELSE TriggerJob(j)

\* The rows the unique index makes an INSERT of j conflict with, whatever
\* their status.
Conflicts(j) ==
  {k \in Jobs : KeyOf[j] # NoKey /\ KeyOf[k] = KeyOf[j] /\ status[k] # "absent"}

\* _find_by_idempotency_key: failed and cancelled jobs do not count.
Existing(j) == {k \in Conflicts(j) : status[k] \notin {"failed", "cancelled"}}

\* enqueue.  When the INSERT conflicts with a failed or cancelled row nothing
\* is inserted, nothing is found, and the id that has no row is triggered and
\* returned.
Enqueue(j, delayed) ==
  /\ phase = "up"
  /\ answer[j] = NoJob
  /\ \/ /\ Conflicts(j) = {}
        /\ status' = [status EXCEPT ![j] = "pending"]
        /\ answer' = [answer EXCEPT ![j] = j]
        /\ Schedule(j, delayed)
     \/ /\ Conflicts(j) # {}
        /\ Existing(j) = {}
        /\ answer' = [answer EXCEPT ![j] = j]
        /\ Schedule(j, delayed)
        /\ UNCHANGED status
     \/ \E k \in Existing(j) :
          /\ answer' = [answer EXCEPT ![j] = k]
          /\ UNCHANGED <<status, task, ready>>
  /\ UNCHANGED <<attempt, locks, cancelEvent, proc, dbFaults>>

\* The call_later timer of a delayed job fires.
FireTimer(j) ==
  /\ phase = "up"
  /\ task[j] = "delayed"
  /\ TriggerJob(j)
  /\ UNCHANGED <<table, answer, locks, cancelEvent, proc, dbFaults>>

-----------------------------------------------------------------------------
(* _execute_job                                                            *)

\* One iteration of the attempt loop up to the await of the handler.
BeginAttempt(j, n) ==
  /\ status' = [status EXCEPT ![j] = "running"]
  /\ attempt' = [attempt EXCEPT ![j] = n]
  /\ task' = [task EXCEPT ![j] = "executing"]

\* The task leaves "async with lock": the lock is free again and the handle,
\* with its cancel event, is dropped.
LeaveBody(j) ==
  /\ task' = [task EXCEPT ![j] = "none"]
  /\ holder' = [holder EXCEPT ![QueueOf[j]] = NoJob]
  /\ cancelEvent' = cancelEvent \ {j}

\* Mutant of LockIsFree: a lock whose free path ignores the tasks that wait.
LockIsFreeToAll(q) == holder[q] = NoJob

\* asyncio.Lock grants the lock at once only to a task nobody waits before.
LockIsFree(q) == holder[q] = NoJob /\ waiters[q] = <<>>

\* The first task of the event loop starts.  It returns unless its row is
\* pending, takes the lock if it is free and waits for it otherwise.
StartTask ==
  /\ phase = "up"
  /\ ready # <<>>
  /\ ready' = Tail(ready)
  /\ LET j == Head(ready)
         q == QueueOf[j]
     IN \/ /\ status[j] # "pending"
           /\ task' = [task EXCEPT ![j] = "none"]
           /\ UNCHANGED <<table, locks>>
        \/ /\ status[j] = "pending"
           /\ LockIsFree(q)
           /\ holder' = [holder EXCEPT ![q] = j]
           /\ BeginAttempt(j, 1)
           /\ UNCHANGED waiters
        \/ /\ status[j] = "pending"
           /\ ~LockIsFree(q)
           /\ waiters' = [waiters EXCEPT ![q] = Append(@, j)]
           /\ task' = [task EXCEPT ![j] = "waiting"]
           /\ UNCHANGED <<table, holder>>
  /\ UNCHANGED <<answer, cancelEvent, proc, dbFaults>>

\* Mutant of GrantLock: the row is not loaded again once the lock is held.
GrantLockBlindly(q) ==
  /\ phase = "up"
  /\ holder[q] = NoJob
  /\ waiters[q] # <<>>
  /\ waiters' = [waiters EXCEPT ![q] = Tail(@)]
  /\ LET j == Head(waiters[q])
     IN holder' = [holder EXCEPT ![q] = j] /\ BeginAttempt(j, 1)
  /\ UNCHANGED <<answer, ready, cancelEvent, proc, dbFaults>>

\* The first waiter of a queue gets the lock, reloads its row and gives up if
\* the job was cancelled meanwhile.
GrantLock(q) ==
  /\ phase = "up"
  /\ holder[q] = NoJob
  /\ waiters[q] # <<>>
  /\ waiters' = [waiters EXCEPT ![q] = Tail(@)]
  /\ LET j == Head(waiters[q])
     IN \/ /\ status[j] \in {"absent", "cancelled", "completed"}
           /\ task' = [task EXCEPT ![j] = "none"]
           /\ UNCHANGED <<table, holder>>
        \/ /\ status[j] \notin {"absent", "cancelled", "completed"}
           /\ holder' = [holder EXCEPT ![q] = j]
           /\ BeginAttempt(j, 1)
  /\ UNCHANGED <<answer, ready, cancelEvent, proc, dbFaults>>

\* handler.execute returns: the row is written without looking at it.
HandlerReturns(j) ==
  /\ phase = "up"
  /\ task[j] = "executing"
  /\ status' = [status EXCEPT ![j] = "completed"]
  /\ LeaveBody(j)
  /\ UNCHANGED <<attempt, answer, ready, waiters, proc, dbFaults>>

\* Mutants of HandlerRaises: the last attempt is retried too; the sleep
\* before a retry stands outside of "async with lock".
HandlerRaisesForever(j) ==
  /\ phase = "up"
  /\ task[j] = "executing"
  /\ status' = [status EXCEPT ![j] = "pending"]
  /\ task' = [task EXCEPT ![j] = "backoff"]
  /\ UNCHANGED <<attempt, answer, ready, locks, cancelEvent, proc, dbFaults>>

HandlerRaisesUnlocked(j) ==
  /\ phase = "up"
  /\ task[j] = "executing"
  /\ attempt[j] < MaxAttempts
  /\ status' = [status EXCEPT ![j] = "pending"]
  /\ task' = [task EXCEPT ![j] = "backoff"]
  /\ holder' = [holder EXCEPT ![QueueOf[j]] = NoJob]
  /\ UNCHANGED <<attempt, answer, ready, waiters, cancelEvent, proc, dbFaults>>

\* handler.execute raises or wait_for times out, with attempts left: the row
\* is pending again and the task sleeps, keeping the lock of its queue.
HandlerRaises(j) ==
  /\ phase = "up"
  /\ task[j] = "executing"
  /\ attempt[j] < MaxAttempts
  /\ status' = [status EXCEPT ![j] = "pending"]
  /\ task' = [task EXCEPT ![j] = "backoff"]
  /\ UNCHANGED <<attempt, answer, ready, locks, cancelEvent, proc, dbFaults>>

\* The same on the last attempt: _fail_job.
HandlerGivesUp(j) ==
  /\ phase = "up"
  /\ task[j] = "executing"
  /\ attempt[j] = MaxAttempts
  /\ status' = [status EXCEPT ![j] = "failed"]
  /\ LeaveBody(j)
  /\ UNCHANGED <<attempt, answer, ready, waiters, proc, dbFaults>>

\* Mutant of HandlerAborts: the early return does not release the lock.
HandlerAbortsLocked(j) ==
  /\ phase = "up"
  /\ task[j] = "executing"
  /\ j \in cancelEvent
  /\ status' = [status EXCEPT ![j] = "cancelled"]
  /\ task' = [task EXCEPT ![j] = "none"]
  /\ cancelEvent' = cancelEvent \ {j}
  /\ UNCHANGED <<attempt, answer, ready, locks, proc, dbFaults>>

\* The handler calls signal.throw_if_aborted with its cancel event set.
HandlerAborts(j) ==
  /\ phase = "up"
  /\ task[j] = "executing"
  /\ j \in cancelEvent
  /\ status' = [status EXCEPT ![j] = "cancelled"]
  /\ LeaveBody(j)
  /\ UNCHANGED <<attempt, answer, ready, waiters, proc, dbFaults>>

\* Mutant of BackoffEnds: the retry does not count as an attempt.
BackoffEndsUncounted(j) ==
  /\ phase = "up"
  /\ task[j] = "backoff"
  /\ \/ /\ status[j] \in {"absent", "cancelled", "completed"}
        /\ LeaveBody(j)
        /\ UNCHANGED table
     \/ /\ status[j] \notin {"absent", "cancelled", "completed"}
        /\ BeginAttempt(j, attempt[j])
        /\ UNCHANGED <<holder, cancelEvent>>
  /\ UNCHANGED <<answer, ready, waiters, proc, dbFaults>>

\* The backoff sleep ends: reload the row and give up or try again.
BackoffEnds(j) ==
  /\ phase = "up"
  /\ task[j] = "backoff"
  /\ \/ /\ status[j] \in {"absent", "cancelled", "completed"}
        /\ LeaveBody(j)
        /\ UNCHANGED table
     \/ /\ status[j] \notin {"absent", "cancelled", "completed"}
        /\ BeginAttempt(j, attempt[j] + 1)
        /\ UNCHANGED <<holder, cancelEvent>>
  /\ UNCHANGED <<answer, ready, waiters, proc, dbFaults>>

-----------------------------------------------------------------------------
(* Cancellation                                                            *)

\* Mutant of ActiveJobs: no condition on the status.
JobsOfQueue(q) == {j \in Jobs : QueueOf[j] = q /\ status[j] # "absent"}

ActiveJobs(q) == {j \in Jobs : QueueOf[j] = q /\ status[j] \in Active}

\* cancel_job of every job of S: set the event of a registered handle, then
\* write the row in any case.
CancelJobs(S) ==
  /\ status' = [j \in Jobs |-> IF j \in S THEN "cancelled" ELSE status[j]]
  /\ cancelEvent' = cancelEvent \cup {j \in S : task[j] \in InBody}
  /\ UNCHANGED <<attempt, answer, task, ready, locks, proc, dbFaults>>

\* cancel_jobs_for_base, as delete_base calls it.
CancelJobsForBase(q) ==
  /\ phase = "up"
  /\ ActiveJobs(q) # {}
  /\ CancelJobs(ActiveJobs(q))

\* The handler of a delete-subtree job cancels the active jobs of its queue
\* that touch the items it deletes, itself excepted.
CancelJobsForItems(j, S) ==
  /\ phase = "up"
  /\ task[j] = "executing"
  /\ S # {}
  /\ S \subseteq ActiveJobs(QueueOf[j]) \ {j}
  /\ CancelJobs(S)

-----------------------------------------------------------------------------
(* Faults: the process ends, the database refuses a statement              *)

LoseMemory ==
  /\ task' = [j \in Jobs |-> "none"]
  /\ ready' = <<>>
  /\ waiters' = [q \in Queues |-> <<>>]
  /\ holder' = [q \in Queues |-> NoJob]
  /\ cancelEvent' = {}
  /\ toRecover' = {}
  /\ phase' = "down"
  /\ crashes' = crashes + 1

\* The process dies, possibly in the middle of its own recovery.
Crash ==
  /\ phase # "down"
  /\ crashes < MaxCrashes
  /\ LoseMemory
  /\ UNCHANGED <<table, answer, dbFaults>>

\* The shutdown handler cancels every task.  A task inside its handler
\* catches the CancelledError and writes its row, the others write nothing.
Shutdown ==
  /\ phase = "up"
  /\ crashes < MaxCrashes
  /\ status' = [j \in Jobs |-> IF task[j] = "executing" THEN "cancelled"
                                                        ELSE status[j]]
  /\ LoseMemory
  /\ UNCHANGED <<attempt, answer, dbFaults>>

\* Mutant of Boot: the recovery looks for the pending rows.
BootWithPending ==
  /\ phase = "down"
  /\ phase' = "recovering"
  /\ toRecover' = {j \in Jobs : status[j] = "pending"}
  /\ UNCHANGED <<table, answer, memory, crashes, dbFaults>>

\* start calls recover_stalled_jobs, which reads the running rows...
Boot ==
  /\ phase = "down"
  /\ phase' = "recovering"
  /\ toRecover' = {j \in Jobs : status[j] = "running"}
  /\ UNCHANGED <<table, answer, memory, crashes, dbFaults>>

\* ...makes them pending again and triggers them one by one...
RecoverJob(j) ==
  /\ phase = "recovering"
  /\ j \in toRecover
  /\ toRecover' = toRecover \ {j}
  /\ status' = [status EXCEPT ![j] = "pending"]
  /\ TriggerJob(j)
  /\ UNCHANGED <<attempt, answer, locks, cancelEvent, phase, crashes, dbFaults>>

\* ...before the event loop runs anything else.
FinishRecovery ==
  /\ phase = "recovering"
  /\ toRecover = {}
  /\ phase' = "up"
  /\ UNCHANGED <<table, answer, memory, toRecover, crashes, dbFaults>>

\* A database error escapes from _execute_job.  _on_job_done marks the row
\* failed, or logs that it cannot.
TaskDies(j) ==
  /\ phase = "up"
  /\ dbFaults < MaxDbFaults
  /\ dbFaults' = dbFaults + 1
  /\ \/ /\ ready # <<>>
        /\ j = Head(ready)
        /\ ready' = Tail(ready)
        /\ task' = [task EXCEPT ![j] = "none"]
        /\ UNCHANGED <<locks, cancelEvent>>
     \/ LET q == QueueOf[j]
        IN /\ holder[q] = NoJob
           /\ waiters[q] # <<>>
           /\ j = Head(waiters[q])
           /\ waiters' = [waiters EXCEPT ![q] = Tail(@)]
           /\ task' = [task EXCEPT ![j] = "none"]
           /\ UNCHANGED <<ready, holder, cancelEvent>>
     \/ /\ task[j] \in InBody
        /\ LeaveBody(j)
        /\ UNCHANGED <<ready, waiters>>
  /\ \/ /\ status[j] # "absent"
        /\ status' = [status EXCEPT ![j] = "failed"]
     \/ UNCHANGED status
  /\ UNCHANGED <<attempt, answer, proc>>

-----------------------------------------------------------------------------

HandlerEnds(j) ==
  HandlerReturns(j) \/ HandlerRaises(j) \/ HandlerGivesUp(j) \/ HandlerAborts(j)

Next ==
  \/ \E j \in Jobs, delayed \in BOOLEAN : Enqueue(j, delayed)
  \/ \E j \in Jobs : FireTimer(j)
  \/ StartTask
  \/ \E q \in Queues : GrantLock(q)
  \/ \E j \in Jobs : HandlerEnds(j)
  \/ \E j \in Jobs : BackoffEnds(j)
  \/ \E q \in Queues : CancelJobsForBase(q)
  \/ \E j \in Jobs, S \in SUBSET Jobs : CancelJobsForItems(j, S)
  \/ Crash
  \/ Shutdown
  \/ Boot
  \/ \E j \in Jobs : RecoverJob(j)
  \/ FinishRecovery
  \/ \E j \in Jobs : TaskDies(j)

Spec == Init /\ [][Next]_vars

\* The event loop runs every ready callback, timers and sleeps end, wait_for
\* bounds every handler, and the container is restarted after it stopped.
\* Nobody has to enqueue or cancel, and no fault has to happen.
Fairness ==
  /\ WF_vars(StartTask)
  /\ \A q \in Queues : WF_vars(GrantLock(q))
  /\ \A j \in Jobs : /\ WF_vars(FireTimer(j))
                     /\ WF_vars(HandlerEnds(j))
                     /\ WF_vars(BackoffEnds(j))
                     /\ WF_vars(RecoverJob(j))
  /\ WF_vars(Boot)
  /\ WF_vars(FinishRecovery)

FairSpec == Spec /\ Fairness

-----------------------------------------------------------------------------
(* Properties                                                              *)

\* "Serialised per queue": at any time the handler of at most one job of a
\* queue is running or asleep before its retry, whoever was cancelled,
\* retried, crashed or recovered before (_execute_job under its lock).
QueueSerialised ==
  \A i, j \in Jobs :
    /\ task[i] \in InBody
    /\ task[j] \in InBody
    /\ QueueOf[i] = QueueOf[j]
    => i = j

\* Every pending or running row of a live process belongs to a task, a timer
\* or the recovery that will end it: no job is forgotten (enqueue,
\* _trigger_job, _execute_job and recover_stalled_jobs together).
NoForgottenJob ==
  phase = "up" => \A j \in Jobs : status[j] \in Active => task[j] # "none"

\* The same for running rows only: after a restart no row is left "running"
\* by a task that died with its process (recover_stalled_jobs), unless the
\* database refused to write what became of it.
NoStalledJob ==
  phase = "up" /\ dbFaults = 0 => \A j \in Jobs : status[j] = "running" => task[j] = "executing"

\* A completed or failed job is never reopened: no second task, late handler,
\* cancellation of a base or recovery overwrites its row.
OutcomeIsFinal ==
  [][\A j \in Jobs : status[j] \in {"completed", "failed"}
                       => status'[j] = status[j]]_vars

\* Jobs of one queue begin in the order in which they were triggered: a task
\* that comes stands behind those that are in the line of its queue, be it
\* before the event loop or before the lock, and none that stands behind
\* another one passes it on the way from the one to the other or begins first.
InLine == {"created", "waiting"}
InOrder(s, i, j) == \E k, l \in DOMAIN s : k < l /\ s[k] = i /\ s[l] = j
Ahead(i, j) ==
  /\ QueueOf[i] = QueueOf[j]
  /\ \/ InOrder(waiters[QueueOf[i]], i, j)
     \/ InOrder(ready, i, j)
     \/ task[i] = "waiting" /\ task[j] = "created"
NoOvertaking ==
  [][\A i, j \in Jobs :
       /\ QueueOf[i] = QueueOf[j] /\ task[i] \in InLine /\ task[j] \notin InLine /\ task'[j] \in InLine
            => Ahead(i, j)'
       /\ Ahead(i, j) => Ahead(i, j)' \/ task'[i] \notin InLine \/ task'[j] = "none"]_vars

\* Every accepted job reaches a final status, through all its retries and
\* cancellations, unless the process ends or the database fails before.
EveryJobSettles ==
  \A j \in Jobs :
    status[j] = "pending" ~> status[j] \in Terminal \/ crashes + dbFaults > 0

\* No job blocks its queue: whatever happens to the job that holds the lock
\* (abort, retry, database error, crash), the lock is free again.
QueueNeverBlocked ==
  \A q \in Queues, j \in Jobs : holder[q] = j ~> holder[q] # j

\* What callers rely on: jobs of a queue are active one at a time, and a job
\* that is settled (its row final and its task out of the handler) stays so
\* through every retry, cancellation, crash and recovery.  A job cancelled
\* before its turn therefore never runs.
JobState(j) ==
  IF status[j] = "absent" THEN "absent"
  ELSE IF task[j] \in InBody THEN "active"
  ELSE IF status[j] \in Active THEN "queued"
  ELSE "settled"

Abstract == INSTANCE SerialJobs WITH state <- [j \in Jobs |-> JobState(j)]
ImplementsSerialJobs == Abstract!Spec

=============================================================================
