-------------------------- MODULE AnalysisWorkflow --------------------------
(***************************************************************************)
(* The workflow of an analysis task on the server (backend/app/api/        *)
(* analysis.py), as far as the pages of the frontend reach it: a task is   *)
(* created, its first agent is triggered, the workflow pauses after every  *)
(* agent until the user proceeds, and a running analysis is cancelled.     *)
(*                                                                         *)
(* A worker is an asyncio task.  Between two awaits it runs alone on the   *)
(* event loop, so an action of a worker goes from one await to the next.   *)
(* Cancelling happens in a thread of its own, in two steps.                *)
(***************************************************************************)
EXTENDS Naturals, Sequences, FiniteSets

CONSTANTS
  Tasks,      \* tasks of the user
  MaxWorkers  \* bound: workers ever started

ASSUME WorkflowAssumption == MaxWorkers \in Nat \ {0}

VARIABLES
  task,      \* the status column of each task
  wf,        \* its row in workflows: status, steps, and the rated agents
  worker,    \* the workers: their task, first agent, and where they are
  handle,    \* _task_map: the worker of a task that a cancellation reaches
  lock,      \* _running_workflows
  cancelling \* tasks for which a thread is between the two steps of cancel

server == <<task, wf, worker, handle, lock, cancelling>>

Order  == <<"agent1", "agent2", "agent5", "agent3", "agent4", "agent6">>
Agents == {Order[k] : k \in 1 .. Len(Order)}
Place(a) == CHOOSE k \in 1 .. Len(Order) : Order[k] = a

Workers == 1 .. MaxWorkers
NoWorker == 0

StepStatuses == {"pending", "running", "completed", "failed"}
TaskStatuses == {"unborn", "pending", "analyzing", "completed", "failed", "deleted"}
FlowStatuses == {"none", "idle", "running", "awaiting_rating", "completed", "failed"}

\* out: what the output of a step has: nothing that could be listed, a list for
\* the user to rate, or, for the second step, a diagram without such a list.
\* rated: steps whose output holds the ratings of the user.
Outputs == {"none", "nothing", "list", "diagram"}
Flow == [status : FlowStatuses, steps : [Agents -> StepStatuses],
         out : [Agents -> Outputs], rated : SUBSET Agents]
NoFlow == [status |-> "none", steps |-> [a \in Agents |-> "pending"],
           out |-> [a \in Agents |-> "none"], rated |-> {}]

Asleep == [task |-> "none", from |-> "agent1", at |-> "unborn", cancelled |-> FALSE]

ServerTypeOK ==
  /\ task \in [Tasks -> TaskStatuses]
  /\ wf \in [Tasks -> Flow]
  /\ worker \in [Workers -> [task : Tasks \cup {"none"}, from : Agents,
                             at : Agents \cup {"unborn", "new", "ended"},
                             cancelled : BOOLEAN]]
  /\ handle \in [Tasks -> Workers \cup {NoWorker}]
  /\ lock \subseteq Tasks
  /\ cancelling \subseteq Tasks

\* A workflow that paused after n agents, or whose next agent then failed, after
\* the last result was rated; none was created if nothing was done.
Reached(n, failed) ==
  [status |-> IF n = 0 /\ ~failed THEN "none" ELSE IF failed THEN "failed"
              ELSE IF n = Len(Order) THEN "completed" ELSE "awaiting_rating",
   steps  |-> [a \in Agents |-> IF Place(a) <= n THEN "completed"
                                ELSE IF failed /\ Place(a) = n + 1 THEN "failed"
                                ELSE "pending"],
   out    |-> [a \in Agents |-> IF Place(a) <= n THEN "list" ELSE "none"],
   rated  |-> {Order[k] : k \in {1, 2} \cap 1 .. (IF failed THEN n ELSE n - 1)}]

ServerInit(progress) ==
  /\ wf = [t \in Tasks |-> Reached(progress[t].done, progress[t].failed)]
  /\ task = [t \in Tasks |-> IF wf[t].status = "none" THEN "unborn"
                             ELSE IF wf[t].status = "awaiting_rating" THEN "pending"
                             ELSE wf[t].status]
  /\ worker = [w \in Workers |-> Asleep]
  /\ handle = [t \in Tasks |-> NoWorker]
  /\ lock = {}
  /\ cancelling = {}

Exists(t) == task[t] \notin {"unborn", "deleted"}
HasFlow(t) == wf[t].status # "none"
Alive(w) == worker[w].at \notin {"unborn", "ended"}

-----------------------------------------------------------------------------
(* The rows                                                                *)

\* update_workflow_step: the status of a workflow follows from its steps.
StatusOf(steps) ==
  IF \E a \in Agents : steps[a] = "failed" THEN "failed"
  ELSE IF \A a \in Agents : steps[a] = "completed" THEN "completed"
  ELSE "running"

WithStep(f, a, s) ==
  LET steps == [f.steps EXCEPT ![a] = s]
  IN [f EXCEPT !.steps = steps, !.status = StatusOf(steps)]

\* The step is completed with a new output.
Results(f, a) ==
  {[WithStep(f, a, "completed") EXCEPT !.out[a] = o, !.rated = @ \ {a}] :
     o \in {"nothing", "list"} \cup (IF a = "agent2" THEN {"diagram"} ELSE {})}

\* UPDATE statements change nothing when the row was deleted.
PutFlow(t, f)   == wf' = IF HasFlow(t) THEN [wf EXCEPT ![t] = f] ELSE wf
PutTask(t, s)   == task' = IF Exists(t) THEN [task EXCEPT ![t] = s] ELSE task

\* The analysis is not done, and the user is asked.
Await(t, f) ==
  /\ PutFlow(t, [f EXCEPT !.status = "awaiting_rating"])
  /\ PutTask(t, "pending")

-----------------------------------------------------------------------------
(* Routes                                                                  *)

\* asyncio.create_task, remembered in _task_map.
Start(t, from) ==
  \E w \in Workers :
    /\ worker[w].at = "unborn"
    /\ \A v \in Workers : worker[v].at = "unborn" => w <= v
    /\ worker' = [worker EXCEPT ![w] = [task |-> t, from |-> from, at |-> "new",
                                        cancelled |-> FALSE]]
    /\ handle' = [handle EXCEPT ![t] = w]

CreateTask(t) ==
  /\ task[t] = "unborn"
  /\ task' = [task EXCEPT ![t] = "pending"]
  /\ UNCHANGED <<wf, worker, handle, lock, cancelling>>

\* trigger_analysis without a step to start from: whatever the task does.
Trigger(t) ==
  /\ Exists(t)
  /\ task' = [task EXCEPT ![t] = "analyzing"]
  /\ wf' = IF HasFlow(t) THEN wf
           ELSE [wf EXCEPT ![t] = [NoFlow EXCEPT !.status = "idle"]]
  /\ Start(t, "agent1")
  /\ UNCHANGED <<lock, cancelling>>

\* The ratings go to the last completed step that has an output which can
\* hold them: the outputs of the later agents are lists.
Rated(f) ==
  LET done == {a \in Agents : f.steps[a] = "completed"}
      last == CHOOSE a \in done : \A b \in done : Place(b) <= Place(a)
  IN IF done # {} /\ last \in {"agent1", "agent2"}
     THEN [f EXCEPT !.rated = @ \cup {last}] ELSE f

\* The first agent after the portrait that is not at an end.
Unfinished(f) == {a \in Agents \ {"agent1"} : f.steps[a] \in {"pending", "running"}}
NextAgent(f)  == CHOOSE a \in Unfinished(f) : \A b \in Unfinished(f) : Place(a) <= Place(b)

CanProceed(t) == Exists(t) /\ wf[t].status = "awaiting_rating"

\* proceed_workflow.  The status of the task stays what it is.
Proceed(t) ==
  /\ CanProceed(t)
  /\ LET f == Rated(wf[t])
     IN IF Unfinished(f) = {}
        THEN /\ wf' = [wf EXCEPT ![t] = f]
             /\ UNCHANGED <<worker, handle>>
        ELSE /\ wf' = [wf EXCEPT ![t] = [f EXCEPT !.status = "running"]]
             /\ Start(t, NextAgent(f))
  /\ UNCHANGED <<task, lock, cancelling>>

CanCancel(t) == task[t] = "analyzing" /\ t \notin cancelling

\* cancel_analysis: the worker is cancelled and forgotten...
BeginCancel(t) ==
  /\ CanCancel(t)
  /\ worker' = [w \in Workers |->
       IF w = handle[t] /\ Alive(w) THEN [worker[w] EXCEPT !.cancelled = TRUE]
                                    ELSE worker[w]]
  /\ handle' = [handle EXCEPT ![t] = NoWorker]
  /\ lock' = lock \ {t}
  /\ cancelling' = cancelling \cup {t}
  /\ UNCHANGED <<task, wf>>

\* ...and the rows are written, whatever happened since.
EndCancel(t) ==
  /\ t \in cancelling
  /\ cancelling' = cancelling \ {t}
  /\ PutTask(t, "failed")
  /\ LET busy == {a \in Agents : wf[t].steps[a] = "running"}
         first == CHOOSE a \in busy : \A b \in busy : Place(a) <= Place(b)
     IN PutFlow(t, [wf[t] EXCEPT !.status = "failed",
          !.steps = IF busy = {} THEN @ ELSE [@ EXCEPT ![first] = "failed"]])
  /\ UNCHANGED <<worker, handle, lock>>

\* delete_task: the rows go, a worker does not.
DeleteTask(t) ==
  /\ Exists(t)
  /\ task' = [task EXCEPT ![t] = "deleted"]
  /\ wf' = [wf EXCEPT ![t] = NoFlow]
  /\ UNCHANGED <<worker, handle, lock, cancelling>>

-----------------------------------------------------------------------------
(* Workers                                                                 *)

\* The coroutine ends; _cleanup_task drops the handle of the task, even if it
\* is that of another worker.
Ends(w) ==
  /\ worker' = [worker EXCEPT ![w] = [Asleep EXCEPT !.at = "ended"]]
  /\ handle' = [handle EXCEPT ![worker[w].task] = NoWorker]

Waits(w, a) ==
  /\ worker' = [worker EXCEPT ![w].at = a]
  /\ UNCHANGED handle

\* A cancelled worker sees it at its next await; _cleanup_task fails the task.
WorkerCancelled(w) ==
  /\ Alive(w)
  /\ worker[w].cancelled
  /\ Ends(w)
  /\ PutTask(worker[w].task, "failed")
  /\ lock' = IF worker[w].at = "new" THEN lock ELSE lock \ {worker[w].task}
  /\ UNCHANGED <<wf, cancelling>>

\* run_demand_portrait, up to the answer of the model...
BeginPortrait(w) ==
  /\ worker[w].at = "new"
  /\ ~worker[w].cancelled
  /\ worker[w].from = "agent1"
  /\ PutFlow(worker[w].task, WithStep(wf[worker[w].task], "agent1", "running"))
  /\ Waits(w, "agent1")
  /\ UNCHANGED <<task, lock, cancelling>>

\* Mutant of EndPortrait: the handler of the exception forgets the task.
EndPortraitQuietly(w) ==
  /\ worker[w].at = "agent1"
  /\ ~worker[w].cancelled
  /\ LET t == worker[w].task
     IN \/ \E f \in Results(wf[t], "agent1") : Await(t, f)
        \/ PutFlow(t, WithStep(wf[t], "agent1", "failed")) /\ UNCHANGED task
  /\ Ends(w)
  /\ UNCHANGED <<lock, cancelling>>

\* ...and from there to its end.
EndPortrait(w) ==
  /\ worker[w].at = "agent1"
  /\ ~worker[w].cancelled
  /\ LET t == worker[w].task
     IN \/ \E f \in Results(wf[t], "agent1") : Await(t, f)
        \/ /\ PutFlow(t, WithStep(wf[t], "agent1", "failed"))
           /\ PutTask(t, "failed")
  /\ Ends(w)
  /\ UNCHANGED <<lock, cancelling>>

\* Steps that an earlier worker left running are pending again, but the one
\* this worker was started for.
Recovered(f, from) ==
  [f EXCEPT !.steps = [a \in Agents |-> IF @[a] = "running" /\ a # from THEN "pending"
                                                                        ELSE @[a]]]

Pending(f) == {a \in Agents \ {"agent1"} : f.steps[a] = "pending"}
FirstPending(f) == CHOOSE a \in Pending(f) : \A b \in Pending(f) : Place(a) <= Place(b)

\* run_analysis_background after a pause: one agent and the next pause.  The
\* patents are searched without an await; agent6 needs no further rating.
BeginAgent(w) ==
  LET t == worker[w].task
      f == Recovered(wf[t], worker[w].from)
      a == FirstPending(f)
  IN /\ worker[w].at = "new"
     /\ ~worker[w].cancelled
     /\ worker[w].from # "agent1"
     /\ \/ /\ t \in lock                       \* already running: skipped
           /\ Ends(w)
           /\ UNCHANGED <<task, wf, lock>>
        \/ /\ t \notin lock
           /\ HasFlow(t)
           /\ Pending(f) # {}
           /\ a # "agent5"
           /\ PutFlow(t, WithStep(f, a, "running"))
           /\ Waits(w, a)
           /\ lock' = lock \cup {t}
           /\ UNCHANGED task
        \/ /\ t \notin lock
           /\ HasFlow(t)
           /\ Pending(f) # {}
           /\ a = "agent5"
           /\ \E g \in Results(f, a) : Await(t, g)
           /\ Ends(w)
           /\ UNCHANGED lock
        \/ /\ t \notin lock                    \* nothing to do
           /\ ~HasFlow(t) \/ Pending(f) = {}
           /\ PutFlow(t, f)
           /\ PutTask(t, "completed")
           /\ Ends(w)
           /\ UNCHANGED lock
     /\ UNCHANGED cancelling

\* The model has answered or cannot be reached.  Only the last agent takes a
\* failure for a result; agent2 fails its step and leaves the task alone.
EndAgent(w) ==
  LET t == worker[w].task
      a == worker[w].at
      failed == WithStep(wf[t], a, "failed")
  IN /\ a \in Agents \ {"agent1", "agent5"}
     /\ ~worker[w].cancelled
     /\ \/ a # "agent6" /\ \E f \in Results(wf[t], a) : Await(t, f)
        \/ /\ a = "agent6"
           /\ \E f \in Results(wf[t], a) : PutFlow(t, f)
           /\ PutTask(t, "completed")
        \/ a = "agent2" /\ PutFlow(t, failed) /\ UNCHANGED task
        \/ a \in {"agent3", "agent4"} /\ PutFlow(t, failed) /\ PutTask(t, "failed")
     /\ lock' = lock \ {t}
     /\ Ends(w)
     /\ UNCHANGED cancelling

Work(w) ==
  BeginPortrait(w) \/ EndPortrait(w) \/ BeginAgent(w) \/ EndAgent(w) \/ WorkerCancelled(w)

-----------------------------------------------------------------------------

\* A task that says it is being analysed has a worker that will say otherwise,
\* or a cancellation that will: neither a second trigger, nor a cancellation
\* at any moment, nor the end of another worker leaves it that way for ever
\* (trigger_analysis, run_demand_portrait, cancel_analysis, _cleanup_task).
AnalyzingHasWorker ==
  \A t \in Tasks : task[t] = "analyzing" =>
    t \in cancelling \/ \E w \in Workers : Alive(w) /\ worker[w].task = t

\* The lock keeps several workers of a task from being at work at once, as the
\* comment above _running_workflows says.  It is not taken for the portrait,
\* and a task that had failed can be continued twice.
OneWorkerRuns ==
  \A v, w \in Workers :
    worker[v].at \in Agents /\ worker[w].at \in Agents /\ worker[v].task = worker[w].task
      => v = w
=============================================================================
