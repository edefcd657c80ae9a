---------------------------- MODULE WorkflowPage ----------------------------
(***************************************************************************)
(* The dashboard of the frontend: the stores of tasks and workflows with   *)
(* their polling (store/useTaskStore.ts, store/useWorkflowStore.ts), the   *)
(* input panel with its history of tasks, and the views in which the user  *)
(* rates the result of a step (features/dashboard, features/workflow).     *)
(*                                                                         *)
(* A call to the server is three steps: it is sent, the server answers     *)
(* from the state it has then, and the answer is delivered.  Answers come  *)
(* in any order, so that of a read may be old when it arrives.  Code after *)
(* an await runs when its answer is delivered, up to the next await.       *)
(***************************************************************************)
EXTENDS AnalysisWorkflow

CONSTANTS
  None,     \* no task is selected, shown or polled
  Bases,    \* knowledge bases that an analysis may use
  Scenarios \* how far the tasks have come when the page is opened, and bounds:
            \* how often the user and the network then do each thing

Doings == {"submit", "choose", "new", "history", "leave", "rename", "delete", "proceed",
           "manual", "lost"}

\* The search for patents and the last agent take a failure for a result.
ASSUME PageAssumption ==
  /\ None \notin Tasks
  /\ \A s \in Scenarios :
       /\ s.doings \in [Doings -> Nat]
       /\ s.progress \in [Tasks -> [done : 0 .. Len(Order), failed : BOOLEAN]]
       /\ \A t \in Tasks : s.progress[t].failed => s.progress[t].done \notin {2, 5, 6}

VARIABLES
  selected,  \* selectedTaskId
  listing,   \* loading of the task store: the page is a skeleton
  shown,     \* workflow of the workflow store, with the task it is of
  loading,   \* loading of the workflow store
  running,   \* isRunning
  error,     \* error of the workflow store
  pollTask,  \* pollingTaskId; polling is that there is one
  pollFlag,  \* pollingFlag
  expired,   \* more than MAX_POLL_MS have passed since pollStartTime
  timer,     \* the task whose timer pollTimer is, while it is armed
  strays,    \* armed timers that pollTimer no longer is: how many per task
  net,       \* requests and answers under way
  page,      \* whether the dashboard is mounted
  panel,     \* local state of the input panel
  rating,    \* local state of the view that is rendered
  left       \* what is left of the budget

store  == <<shown, loading, running, error>>
poller == <<pollTask, pollFlag, expired, timer, strays>>
client == <<selected, listing, store, poller, net, page, panel, rating, left>>
vars   == <<server, client>>

Nowhere == [task |-> None, flow |-> NoFlow]
Waiting == [kind |-> "waiting"]
Failure == [kind |-> "failure"]
Success(data) == [kind |-> "success", data |-> data]

ClosedPanel == [busy |-> FALSE, bases |-> {}, open |-> FALSE,
                list |-> [t \in Tasks |-> "unborn"], editing |-> None, deleting |-> None]

Kinds == {"create", "trigger", "poll", "fetch", "tasks", "history", "steps",
          "continue", "cancel", "proceed", "rename", "delete"}

\* ticket: the proceed request that the view waits for.
\* manual: a demand that the user added to those of the result.
NoView == [key |-> <<>>, stars |-> FALSE, manual |-> "none", ticket |-> <<>>, sent |-> FALSE]

TypeOK ==
  /\ ServerTypeOK
  /\ selected \in Tasks \cup {None}
  /\ shown \in [task : Tasks, flow : Flow] \cup {Nowhere}
  /\ {listing, loading, running, pollFlag, expired} \subseteq BOOLEAN
  /\ error \in {"", "load", "timeout"}
  /\ {pollTask, timer} \subseteq Tasks \cup {None}
  /\ strays \in [Tasks -> Nat]
  /\ \A m \in net : m.kind \in Kinds /\ m.task \in Tasks \cup {None}
  /\ page \in {"dashboard", "other"}
  /\ panel \in [busy : BOOLEAN, bases : SUBSET Bases, open : BOOLEAN,
                list : [Tasks -> TaskStatuses],
                editing : Tasks \cup {None}, deleting : Tasks \cup {None}]
  /\ {rating.stars, rating.sent} \subseteq BOOLEAN
  /\ rating.manual \in {"none", "unrated", "rated"}
  /\ left \in [Doings -> Nat]

Init ==
  /\ \E s \in Scenarios : ServerInit(s.progress) /\ left = s.doings
  /\ selected = None
  /\ listing = FALSE
  /\ shown = Nowhere
  /\ loading = FALSE /\ running = FALSE /\ error = ""
  /\ pollTask = None /\ pollFlag = FALSE /\ expired = FALSE
  /\ timer = None /\ strays = [t \in Tasks |-> 0]
  /\ net = {}
  /\ page = "dashboard"
  /\ panel = ClosedPanel
  /\ rating = NoView

Spend(d) == left[d] > 0 /\ left' = [left EXCEPT ![d] = @ - 1]

-----------------------------------------------------------------------------
(* Requests                                                                *)

\* n tells equal requests apart.  here is FALSE once the component that
\* waits for the answer was unmounted: its own state is gone.
Request(kind, t, others) ==
  LET taken == {m.n : m \in {m \in others : m.kind = kind /\ m.task = t}}
  IN [kind |-> kind, task |-> t, answer |-> Waiting, here |-> TRUE,
      n |-> CHOOSE k \in 0 .. Cardinality(taken) : k \notin taken]

With(others, kind, t) == others \cup {Request(kind, t, others)}

Orphaned(msgs, kinds) ==
  {IF m.kind \in kinds THEN [m EXCEPT !.here = FALSE] ELSE m : m \in msgs}

OfPanel == {"create", "trigger", "history", "rename", "delete"}

Answered(m) == m.answer.kind # "waiting"
Ok(m)       == m.answer.kind = "success"

\* The server answers a read from what is in the database.
AnswersRead(m) ==
  /\ m.kind \in {"poll", "fetch", "steps", "tasks", "history", "rename"}
  /\ net' = (net \ {m}) \cup
       {[m EXCEPT !.answer =
          IF m.kind \in {"tasks", "history"} THEN Success(task)
          ELSE IF m.kind = "rename" /\ Exists(m.task) THEN Success("renamed")
          ELSE IF m.kind # "rename" /\ HasFlow(m.task) THEN Success(wf[m.task])
          ELSE Failure]}
  /\ UNCHANGED server

Done(m, data) == net' = (net \ {m}) \cup {[m EXCEPT !.answer = Success(data)]}
Refused(m)    == net' = (net \ {m}) \cup {[m EXCEPT !.answer = Failure]}

AnswersWrite(m) ==
  \/ /\ m.kind = "create"
     /\ \E t \in Tasks : CreateTask(t) /\ Done(m, t)
  \/ /\ m.kind \in {"trigger", "continue"}
     /\ \/ Trigger(m.task) /\ Done(m, "analyzing")
        \/ ~Exists(m.task) /\ Refused(m) /\ UNCHANGED server
  \/ /\ m.kind = "proceed"
     /\ \/ Proceed(m.task) /\ Done(m, "proceeding")
        \/ ~CanProceed(m.task) /\ Refused(m) /\ UNCHANGED server
  \/ /\ m.kind = "cancel"
     /\ \/ m.task \notin cancelling /\ BeginCancel(m.task) /\ UNCHANGED net
        \/ EndCancel(m.task) /\ Done(m, "cancelled")
        \/ ~CanCancel(m.task) /\ m.task \notin cancelling /\ Refused(m) /\ UNCHANGED server
  \/ /\ m.kind = "delete"
     /\ \/ DeleteTask(m.task) /\ Done(m, "deleted")
        \/ ~Exists(m.task) /\ Refused(m) /\ UNCHANGED server

Serve(m) ==
  /\ ~Answered(m)
  /\ AnswersRead(m) \/ AnswersWrite(m)
  /\ UNCHANGED <<selected, listing, store, poller, page, panel, left>>

\* A request or its answer gets lost.
Lose(m) ==
  /\ Spend("lost")
  /\ m.answer # Failure
  /\ m.task \notin cancelling
  /\ net' = (net \ {m}) \cup {[m EXCEPT !.answer = Failure]}
  /\ UNCHANGED <<server, selected, listing, store, poller, page, panel>>

-----------------------------------------------------------------------------
(* The workflow store                                                      *)

\* stopPolling clears the timer that pollTimer is.
StopPolling ==
  /\ pollTask' = None /\ pollFlag' = FALSE /\ expired' = FALSE
  /\ timer' = None /\ UNCHANGED strays
  /\ running' = FALSE

\* startPolling polls at once, unless a poll of the task is under way.
StartPolling(t, msgs) ==
  IF pollTask = t /\ pollFlag
  THEN /\ net' = msgs
       /\ UNCHANGED <<poller, running>>
  ELSE /\ pollTask' = t /\ pollFlag' = TRUE /\ expired' = FALSE
       /\ timer' = IF pollTask = t THEN timer ELSE None
       /\ UNCHANGED strays
       /\ running' = TRUE
       /\ net' = With(msgs, "poll", t)

\* clearWorkflow, after stopPolling.
ClearWorkflow == StopPolling /\ shown' = Nowhere /\ error' = ""

\* The effect of DashboardPage when another task is selected: the old task is
\* no longer polled, the new one is read and polled.
OpenTask(t, msgs) ==
  /\ selected' = t
  /\ IF t = selected \/ page # "dashboard"
     THEN net' = msgs /\ UNCHANGED <<store, poller>>
     ELSE IF t = None
     THEN ClearWorkflow /\ net' = msgs /\ UNCHANGED loading
     ELSE /\ loading' = TRUE /\ error' = "" /\ running' = TRUE
          /\ pollTask' = t /\ pollFlag' = TRUE /\ expired' = FALSE
          /\ timer' = None
          /\ net' = With(With(msgs, "fetch", t), "poll", t)
          /\ UNCHANGED <<strays, shown>>

\* fetchTasks: the page shows a skeleton, the input panel is unmounted.
FetchTasks(msgs) ==
  /\ listing' = TRUE
  /\ panel' = ClosedPanel
  /\ net' = With(Orphaned(msgs, OfPanel), "tasks", None)

Received(m) == net \ {m}

\* Mutant of FetchAnswered: what was read is shown, and not followed.
FetchAnsweredOnly(m) ==
  /\ m.kind = "fetch"
  /\ loading' = FALSE
  /\ shown' = IF Ok(m) THEN [task |-> m.task, flow |-> m.answer.data] ELSE Nowhere
  /\ error' = IF Ok(m) THEN error ELSE "load"
  /\ net' = Received(m)
  /\ UNCHANGED <<running, poller, selected, listing, panel>>

\* The answer of fetchWorkflow, whichever task is selected by now.
FetchAnswered(m) ==
  /\ m.kind = "fetch"
  /\ loading' = FALSE
  /\ IF Ok(m)
     THEN LET f == m.answer.data
          IN /\ shown' = [task |-> m.task, flow |-> f]
             /\ UNCHANGED error
             /\ IF f.status = "running"
                THEN StartPolling(m.task, Received(m))
                ELSE running' = FALSE /\ net' = Received(m) /\ UNCHANGED poller
     ELSE /\ shown' = Nowhere
          /\ error' = "load"
          /\ net' = Received(m)
          /\ UNCHANGED <<running, poller>>
  /\ UNCHANGED <<selected, listing, panel>>

\* setTimeout at the end of a poll; a timer that was armed is forgotten.
ArmTimer(t) ==
  /\ timer' = t
  /\ strays' = IF timer = None THEN strays ELSE [strays EXCEPT ![timer] = @ + 1]

\* The answer of a poll.  One for a task that is no longer polled changes
\* nothing but the flag, which may be that of another request by now.
PollAnswered(m) ==
  /\ m.kind = "poll"
  /\ \/ /\ pollTask # m.task
        /\ pollFlag' = FALSE
        /\ net' = Received(m)
        /\ UNCHANGED <<store, pollTask, expired, timer, strays, listing, panel>>
     \/ /\ pollTask = m.task
        /\ ~Ok(m)
        /\ pollFlag' = FALSE
        /\ ArmTimer(m.task)
        /\ net' = Received(m)
        /\ UNCHANGED <<store, pollTask, expired, listing, panel>>
     \/ /\ pollTask = m.task
        /\ Ok(m)
        /\ shown' = [task |-> m.task, flow |-> m.answer.data]
        /\ error' = ""
        /\ IF m.answer.data.status = "running"
           THEN /\ running' = TRUE
                /\ pollFlag' = FALSE
                /\ ArmTimer(m.task)
                /\ net' = Received(m)
                /\ UNCHANGED <<pollTask, expired, listing, panel>>
           ELSE StopPolling /\ FetchTasks(Received(m))
        /\ UNCHANGED loading
  /\ UNCHANGED selected

\* Mutant of Poll: the time limit is reported, and polling goes on.
PollOn(t) ==
  IF pollTask # t \/ pollFlag
  THEN UNCHANGED <<pollFlag, pollTask, expired, running, error, net>>
  ELSE /\ pollFlag' = TRUE
       /\ net' = With(net, "poll", t)
       /\ error' = IF expired THEN "timeout" ELSE error
       /\ UNCHANGED <<pollTask, expired, running>>

\* Mutant of Poll: after the time limit it returns without stopping.
PollReturns(t) ==
  IF pollTask # t \/ pollFlag \/ expired
  THEN UNCHANGED <<pollFlag, pollTask, expired, running, error, net>>
  ELSE /\ pollFlag' = TRUE
       /\ net' = With(net, "poll", t)
       /\ UNCHANGED <<pollTask, expired, running, error>>

\* poll, called by a timer: nothing if the task was switched or another poll is
\* under way; after the time limit polling stops; else the next request.
Poll(t) ==
  IF pollTask # t \/ pollFlag
  THEN UNCHANGED <<pollFlag, pollTask, expired, running, error, net>>
  ELSE IF expired
  THEN /\ error' = "timeout"
       /\ pollTask' = None /\ pollFlag' = FALSE /\ expired' = FALSE
       /\ running' = FALSE
       /\ UNCHANGED net
  ELSE /\ pollFlag' = TRUE
       /\ net' = With(net, "poll", t)
       /\ UNCHANGED <<pollTask, expired, running, error>>

\* Mutant of TimerFires: a timer fires that was cleared.
TimerFiresCleared(t) ==
  /\ Poll(t)
  /\ strays' = [strays EXCEPT ![t] = @ - 1]
  /\ UNCHANGED <<server, selected, listing, shown, loading, timer, page, panel, left>>

\* Two seconds have passed.  A poll that stops also clears pollTimer, if that
\* is another timer.
TimerFires(t) ==
  /\ Poll(t)
  /\ \/ timer = t /\ timer' = None /\ UNCHANGED strays
     \/ /\ strays[t] > 0
        /\ strays' = [strays EXCEPT ![t] = @ - 1]
        /\ timer' = IF pollTask # None /\ pollTask' = None THEN None ELSE timer
  /\ UNCHANGED <<server, selected, listing, shown, loading, page, panel, left>>

\* Ten minutes have passed since polling started.
TimePasses ==
  /\ pollTask # None
  /\ ~expired
  /\ expired' = TRUE
  /\ UNCHANGED <<server, selected, listing, store, pollTask, pollFlag, timer, strays,
                 net, page, panel, left>>

\* cancelAnalysis after its await, whichever task is selected by now.
CancelAnswered(m) ==
  /\ m.kind = "cancel"
  /\ ClearWorkflow
  /\ FetchTasks(Received(m))
  /\ UNCHANGED <<selected, loading>>

\* fetchTasks is answered: the page is mounted again.
TasksAnswered(m) ==
  /\ m.kind = "tasks"
  /\ listing' = FALSE
  /\ net' = Received(m)
  /\ UNCHANGED <<selected, store, poller, panel>>

\* fetchWorkflow(t) before its await.
FetchWorkflow(t, msgs) ==
  /\ loading' = TRUE
  /\ error' = ""
  /\ net' = With(msgs, "fetch", t)
  /\ UNCHANGED <<shown, running, poller>>

-----------------------------------------------------------------------------
(* What is rendered                                                        *)

\* The page is there, and not its skeleton.
Mounted == page = "dashboard" /\ ~listing

\* syncPhaseStatus: one phase per agent, but the last agent completes a phase
\* that never runs.
PhaseStatus(f, a) ==
  IF a # "agent6" THEN f.steps[a]
  ELSE IF f.steps[a] = "completed" THEN "completed" ELSE "pending"

Phases(f, s)  == {a \in Agents : PhaseStatus(f, a) = s}
Earliest(S)   == CHOOSE a \in S : \A b \in S : Place(a) <= Place(b)
Latest(S)     == CHOOSE a \in S : \A b \in S : Place(b) <= Place(a)

\* determineCurrentPhase.
CurrentPhase(f) ==
  IF Phases(f, "running") # {} THEN Earliest(Phases(f, "running"))
  ELSE IF Phases(f, "failed") # {} THEN Earliest(Phases(f, "failed"))
  ELSE IF Phases(f, "pending") # {} THEN Earliest(Phases(f, "pending"))
  ELSE Latest(Phases(f, "completed"))

\* Mutant of DisplayPhase: the phase that comes next is shown at a pause.
DisplayNextPhase(f) == CurrentPhase(f)

\* WorkflowStepResults: at a pause and at the end the last result is shown.
DisplayPhase(f) ==
  LET results == Phases(f, "completed") \ {"agent6"}
  IN IF f.status \in {"awaiting_rating", "completed"} /\ results # {}
     THEN Latest(results) ELSE CurrentPhase(f)

\* AgentWorkflowPanel: the timeline beside the results, with a mark for every
\* step, or with the steps to come while no workflow is shown.
StepMark(status) == IF status \in {"completed", "running", "failed"} THEN status ELSE "number"

DefaultTimeline     == [a \in Agents |-> StepMark("pending")]
ProgressTimeline(f) == [a \in Agents |-> StepMark(PhaseStatus(f, a))]
Timeline == IF shown = Nowhere THEN DefaultTimeline ELSE ProgressTimeline(shown.flow)

\* getStepOutput.
HasOutput(f, a) == a # "agent6" /\ f.out[a] # "none"

\* One of the views of the steps is rendered, and not an empty state or the
\* animation of a step that runs.
StepRuns(f) ==
  /\ PhaseStatus(f, DisplayPhase(f)) \in {"running", "pending"}
  /\ f.status \in {"running", "idle"}
  /\ ~HasOutput(f, DisplayPhase(f))

ViewIsRendered ==
  /\ Mounted
  /\ selected # None
  /\ ~loading
  /\ shown # Nowhere
  /\ ~StepRuns(shown.flow)
  /\ DisplayPhase(shown.flow) # "agent6"

\* The first two views are mounted anew when their output changes.
ViewKey ==
  IF ~ViewIsRendered THEN <<>>
  ELSE LET a == DisplayPhase(shown.flow)
       IN IF a \in {"agent1", "agent2"}
          THEN <<a, shown.task, shown.flow.out[a], a \in shown.flow.rated>>
          ELSE <<a>>

\* A new view takes ratings in the output for ratings that were sent.
FreshView(key) == [NoView EXCEPT !.key = key, !.sent = Len(key) = 4 /\ key[Len(key)]]

\* Nothing but the rest of the page may unmount the view.
ViewFollows == rating' = IF ViewKey' = rating.key THEN rating ELSE FreshView(ViewKey')

-----------------------------------------------------------------------------
(* The views of the steps                                                  *)

ShownPhase == DisplayPhase(shown.flow)
Shows(a, contents) ==
  ViewIsRendered /\ ShownPhase = a /\ shown.flow.out[a] \in contents /\ ~rating.sent

\* What is rendered of a result that lists nothing, or that was submitted, is a
\* text or nothing.  The first three forms are there at any status; the last
\* two have stars and a button only while the workflow awaits a rating.
DemandForm     == Shows("agent1", {"list"})
ProblemForm    == Shows("agent2", {"list", "diagram"})
PatentForm     == Shows("agent5", {"list"})
SolutionForm   == Shows("agent3", {"list"}) /\ shown.flow.status = "awaiting_rating"
EvaluationForm == Shows("agent4", {"list"}) /\ shown.flow.status = "awaiting_rating"

InnovationsListed == shown.flow.out["agent2"] = "list"

Rateable == DemandForm \/ ProblemForm \/ PatentForm \/ SolutionForm \/ EvaluationForm

RestOfPage == <<server, selected, listing, store, poller, page, panel>>

\* The user gives stars to everything that is listed.
Rate ==
  /\ ~rating.stars
  /\ \/ DemandForm \/ PatentForm \/ SolutionForm
     \/ ProblemForm /\ InnovationsListed
  /\ rating' = [rating EXCEPT !.stars = TRUE]
  /\ UNCHANGED <<RestOfPage, net, left>>

\* A demand is added by hand, gets its stars, and may be removed again.
AddManualDemand ==
  /\ Spend("manual")
  /\ DemandForm
  /\ rating.manual = "none"
  /\ rating' = [rating EXCEPT !.manual = "unrated"]
  /\ UNCHANGED <<RestOfPage, net>>

TouchManualDemand ==
  /\ DemandForm
  /\ rating.manual # "none"
  /\ \E m \in {"none", "rated"} \ {rating.manual} : rating' = [rating EXCEPT !.manual = m]
  /\ UNCHANGED <<RestOfPage, net, left>>

\* handleSubmit: the ratings of the shown result go to the selected task.
Send ==
  /\ Spend("proceed")
  /\ rating.ticket = <<>>
  /\ net' = With(net, "proceed", selected)
  /\ LET new == CHOOSE m \in net' \ net : TRUE
     IN rating' = [rating EXCEPT !.ticket = <<new.task, new.n>>]
  /\ UNCHANGED RestOfPage

SubmitDemands     == DemandForm /\ rating.stars /\ rating.manual # "unrated" /\ Send
SubmitInnovations == ProblemForm /\ (InnovationsListed => rating.stars) /\ Send
SubmitPatents     == PatentForm /\ rating.stars /\ Send
SubmitSolutions   == SolutionForm /\ rating.stars /\ Send
SubmitEvaluation  == EvaluationForm /\ Send

\* The workflow is read again, which unmounts the view...
ProceedAnswered(m) ==
  /\ m.kind = "proceed"
  /\ Ok(m)
  /\ FetchWorkflow(m.task, Received(m))
  /\ UNCHANGED <<selected, listing, panel>>

\* ...or the view shows an error, if it is still the one that asked.
ProceedRefused(m) ==
  /\ m.kind = "proceed"
  /\ m.answer = Failure
  /\ rating' = IF rating.ticket = <<m.task, m.n>>
               THEN [rating EXCEPT !.ticket = <<>>] ELSE rating
  /\ net' = Received(m)
  /\ UNCHANGED <<server, selected, listing, store, poller, page, panel, left>>

-----------------------------------------------------------------------------
(* The input panel                                                         *)

InputIsOpen == Mounted /\ ~panel.busy /\ ~running

\* toggleBase: the analysis will search a knowledge base, or not.
ToggleBase(b) ==
  /\ Spend("choose")
  /\ Mounted
  /\ panel' = [panel EXCEPT !.bases = IF b \in @ THEN @ \ {b} ELSE @ \cup {b}]
  /\ UNCHANGED <<server, selected, listing, store, poller, net, page>>

\* handleSubmit: a task is created...
Submit ==
  /\ Spend("submit")
  /\ InputIsOpen
  /\ ~panel.open
  /\ panel' = [panel EXCEPT !.busy = TRUE]
  /\ net' = With(net, "create", None)
  /\ UNCHANGED <<server, selected, listing, store, poller, page>>

\* ...and selected, which makes the page read a workflow that is not there
\* yet, and its analysis is triggered...
CreateAnswered(m) ==
  /\ m.kind = "create"
  /\ IF Ok(m)
     THEN LET t == m.answer.data
          IN /\ OpenTask(t, {[r EXCEPT !.here = m.here] :
                             r \in {Request("trigger", t, net)}} \cup Received(m))
             /\ UNCHANGED panel
     ELSE /\ panel' = IF m.here THEN [panel EXCEPT !.busy = FALSE] ELSE panel
          /\ net' = Received(m)
          /\ UNCHANGED <<selected, store, poller>>
  /\ UNCHANGED listing

\* ...which ends the submission, with an error or without.
TriggerAnswered(m) ==
  /\ m.kind = "trigger"
  /\ panel' = IF m.here THEN [panel EXCEPT !.busy = FALSE] ELSE panel
  /\ net' = Received(m)
  /\ UNCHANGED <<selected, listing, store, poller>>

\* handleNewTask: a cancellation is sent, and the page is cleared at once.
NewTask ==
  /\ Spend("new")
  /\ Mounted
  /\ ~panel.open
  /\ LET msgs == IF running /\ selected # None THEN With(net, "cancel", selected)
                                               ELSE net
     IN net' = msgs
  /\ selected' = None
  /\ ClearWorkflow
  /\ UNCHANGED <<server, listing, loading, page, panel>>

\* The history is read whenever it is opened.
OpenHistory ==
  /\ Spend("history")
  /\ Mounted
  /\ ~panel.open
  /\ panel' = [panel EXCEPT !.open = TRUE]
  /\ net' = With(net, "history", None)
  /\ UNCHANGED <<server, selected, listing, store, poller, page>>

CloseHistory ==
  /\ Mounted
  /\ panel.open
  /\ panel.deleting = None
  /\ panel' = [panel EXCEPT !.open = FALSE]
  /\ UNCHANGED <<server, selected, listing, store, poller, net, page, left>>

\* A failed request leaves an empty list.
HistoryAnswered(m) ==
  /\ m.kind = "history"
  /\ panel' = IF ~m.here THEN panel
              ELSE [panel EXCEPT !.list =
                IF Ok(m) THEN [t \in Tasks |-> IF m.answer.data[t] = "deleted" THEN "unborn"
                                               ELSE m.answer.data[t]]
                ELSE [t \in Tasks |-> "unborn"]]
  /\ net' = Received(m)
  /\ UNCHANGED <<selected, listing, store, poller>>

\* The rows of the history that the filter lets through.
Filters == {"all", "pending", "analyzing", "completed", "failed"}
Listed(t, filter) ==
  /\ Mounted
  /\ panel.open
  /\ panel.list[t] # "unborn"
  /\ filter \in {"all", panel.list[t]}

\* A row can be clicked and has its buttons while its title is not edited and
\* no dialog is above it.
RowIsOpen(t, filter) ==
  Listed(t, filter) /\ panel.editing # t /\ panel.deleting = None

\* handleSelectHistoryTask: a task that had failed is continued.
SelectHistoryTask(t, filter) ==
  /\ RowIsOpen(t, filter)
  /\ panel' = [panel EXCEPT !.open = FALSE]
  /\ OpenTask(t, IF panel.list[t] = "failed" THEN With(net, "steps", t) ELSE net)
  /\ UNCHANGED <<server, listing, page, left>>

\* The failed step is looked up by a name that the answer does not have: the
\* analysis is triggered from its start.
StepsAnswered(m) ==
  /\ m.kind = "steps"
  /\ net' = IF Ok(m) THEN With(Received(m), "continue", m.task) ELSE Received(m)
  /\ UNCHANGED <<selected, listing, store, poller, panel>>

ContinueAnswered(m) ==
  /\ m.kind = "continue"
  /\ IF Ok(m) THEN FetchWorkflow(m.task, Received(m))
              ELSE net' = Received(m) /\ UNCHANGED <<store, poller>>
  /\ UNCHANGED <<selected, listing, panel>>

StartEdit(t, filter) ==
  /\ left["rename"] > 0
  /\ RowIsOpen(t, filter)
  /\ panel' = [panel EXCEPT !.editing = t]
  /\ UNCHANGED <<server, selected, listing, store, poller, net, page, left>>

\* handleSaveEdit on Enter and when the field loses the focus; Escape, or an
\* empty title, ends the editing at once.
SaveEdit ==
  /\ Mounted
  /\ panel.editing # None
  /\ \/ /\ Spend("rename")
        /\ net' = With(net, "rename", panel.editing)
        /\ UNCHANGED panel
     \/ /\ panel' = [panel EXCEPT !.editing = None]
        /\ UNCHANGED <<net, left>>
  /\ UNCHANGED <<server, selected, listing, store, poller, page>>

\* The editing ends, even if it is that of another title by now.
RenameAnswered(m) ==
  /\ m.kind = "rename"
  /\ panel' = IF m.here THEN [panel EXCEPT !.editing = None] ELSE panel
  /\ net' = Received(m)
  /\ UNCHANGED <<selected, listing, store, poller>>

AskDelete(t, filter) ==
  /\ left["delete"] > 0
  /\ RowIsOpen(t, filter)
  /\ panel' = [panel EXCEPT !.deleting = t]
  /\ UNCHANGED <<server, selected, listing, store, poller, net, page, left>>

\* The dialog above the history: handleDeleteConfirmed, or not.
AnswerDelete ==
  /\ Mounted
  /\ panel.deleting # None
  /\ panel' = [panel EXCEPT !.deleting = None]
  /\ \/ Spend("delete") /\ net' = With(net, "delete", panel.deleting)
     \/ UNCHANGED <<net, left>>
  /\ UNCHANGED <<server, selected, listing, store, poller, page>>

\* The task disappears from the history, and stays selected.
DeleteAnswered(m) ==
  /\ m.kind = "delete"
  /\ panel' = IF m.here /\ Ok(m) THEN [panel EXCEPT !.list[m.task] = "unborn"] ELSE panel
  /\ net' = Received(m)
  /\ UNCHANGED <<selected, listing, store, poller>>

-----------------------------------------------------------------------------
(* The page                                                                *)

\* The user goes to another page: what is selected is no longer polled.
LeavePage ==
  /\ Spend("leave")
  /\ page = "dashboard"
  /\ page' = "other"
  /\ IF selected = None THEN UNCHANGED <<poller, running>> ELSE StopPolling
  /\ panel' = ClosedPanel
  /\ net' = Orphaned(net, OfPanel)
  /\ UNCHANGED <<server, selected, listing, shown, loading, error>>

\* The effect of the page when it is mounted.
ReturnToPage ==
  /\ page = "other"
  /\ page' = "dashboard"
  /\ IF selected = None
     THEN ClearWorkflow /\ UNCHANGED <<net, loading>>
     ELSE /\ loading' = TRUE
          /\ error' = ""
          /\ StartPolling(selected, With(net, "fetch", selected))
          /\ UNCHANGED shown
  /\ UNCHANGED <<server, selected, listing, panel, left>>

Deliver(m) ==
  /\ Answered(m)
  /\ \/ FetchAnswered(m) \/ PollAnswered(m) \/ CancelAnswered(m) \/ TasksAnswered(m)
     \/ CreateAnswered(m) \/ TriggerAnswered(m) \/ HistoryAnswered(m)
     \/ StepsAnswered(m) \/ ContinueAnswered(m) \/ RenameAnswered(m) \/ DeleteAnswered(m)
     \/ ProceedAnswered(m)
  /\ UNCHANGED <<server, page, left>>

User ==
  \/ Submit \/ NewTask \/ OpenHistory \/ CloseHistory \/ SaveEdit \/ AnswerDelete
  \/ \E t \in Tasks, filter \in Filters :
       SelectHistoryTask(t, filter) \/ StartEdit(t, filter) \/ AskDelete(t, filter)
  \/ \E b \in Bases : ToggleBase(b)
  \/ LeavePage \/ ReturnToPage

WorkerSteps ==
  /\ \E w \in Workers : Work(w)
  /\ UNCHANGED <<selected, listing, store, poller, net, page, panel, left>>

Timers == TimePasses \/ \E t \in Tasks : TimerFires(t)

Next ==
  \/ /\ User \/ WorkerSteps \/ Timers \/ \E m \in net : Serve(m) \/ Lose(m) \/ Deliver(m)
     /\ ViewFollows
  \/ Rate \/ AddManualDemand \/ TouchManualDemand
  \/ SubmitDemands \/ SubmitInnovations \/ SubmitPatents \/ SubmitSolutions
  \/ SubmitEvaluation
  \/ \E m \in net : ProceedRefused(m)

Spec == Init /\ [][Next]_vars

\* The network and the server answer, workers end, and time passes.
Fairness ==
  /\ WF_vars(\E m \in net : Serve(m) /\ ViewFollows)
  /\ WF_vars(\E m \in net : Deliver(m) /\ ViewFollows)
  /\ WF_vars(TimePasses /\ ViewFollows)
  /\ WF_vars((\E t \in Tasks : TimerFires(t)) /\ ViewFollows)

FairSpec == Spec /\ Fairness

-----------------------------------------------------------------------------
(* Properties                                                              *)

Quiet == net = {} /\ pollTask = None /\ \A w \in Workers : ~Alive(w)
AtPause ==
  /\ Quiet /\ Mounted /\ selected # None
  /\ shown = [task |-> selected, flow |-> wf[selected]]
  /\ wf[selected].status = "awaiting_rating"

PollUnderWay(t) == \E m \in net : m.kind = "poll" /\ m.task = t

\* A task that is polled has a request under way or a timer that will send
\* one: no switch between tasks, late answer, error or second chain of polls
\* breaks the chain silently (startPolling, stopPolling).
ChainAlive ==
  pollTask # None => PollUnderWay(pollTask) \/ timer = pollTask \/ strays[pollTask] > 0

\* A workflow that is shown as running is followed: unless it is being read
\* again or the user was told that it takes too long, the task that is shown
\* is the one that is polled, whatever answers came late.
RunningIsFollowed ==
  page = "dashboard" /\ ~loading /\ shown.flow.status = "running"
    => pollTask = shown.task \/ error = "timeout"

\* The input of the dashboard does not stay closed: every analysis that is
\* followed ends, is given up after ten minutes, or is left.
InputReturns == running ~> ~running

\* A workflow whose status is not running has its results: no step is marked as
\* being at work, for nobody polls any more (startPolling says so where it
\* stops).  The status of a continued workflow is failed while it has a step
\* that had failed.
StoppedIsReady ==
  shown.flow.status \in {"awaiting_rating", "completed", "failed"}
    => \A a \in Agents : Timeline[a] # "running"

\* When page and server are at rest, a page that shows a pause with a result to
\* rate has the view in which the user ends it: no stale answer, lost request
\* or rating that was sent before leaves it without a button.
PauseWithResultCanEnd ==
  AtPause /\ shown.flow.out[ShownPhase] # "nothing" => Rateable

=============================================================================
