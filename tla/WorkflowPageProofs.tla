------------------------- MODULE WorkflowPageProofs -------------------------
(***************************************************************************)
(* What holds of the dashboard and of the workflow behind it for every     *)
(* number of tasks and workers, and however often the user and the network *)
(* do each thing: the variables have their types, an analysis that says it *)
(* runs has a worker, polling goes on, and what runs is followed.          *)
(*                                                                         *)
(* The invariant PageOK is the conjunction of what the server keeps        *)
(* (ServerOK), of what the stores, the panel and the requests keep         *)
(* (ClientOK), and of the types of the rest.  It is inductive.             *)
(*                                                                         *)
(* That a pause can end needs more, in the second half: what the rows of a *)
(* paused workflow hold, that the lock orders the later agents, and that   *)
(* the view and the reads belong to what is shown (PauseOK).               *)
(***************************************************************************)
EXTENDS WorkflowPage, TLAPS

-----------------------------------------------------------------------------
(* Agents and workflows                                                    *)

LEMMA AgentNames == Agents = {"agent1", "agent2", "agent3", "agent4", "agent5", "agent6"}
  BY DEF Agents, Order

LEMMA Places ==
  /\ Place("agent1") = 1 /\ Place("agent2") = 2 /\ Place("agent5") = 3
  /\ Place("agent3") = 4 /\ Place("agent4") = 5 /\ Place("agent6") = 6
  <1>1. /\ 1 .. Len(Order) = 1 .. 6
        /\ Order[1] = "agent1" /\ Order[2] = "agent2" /\ Order[3] = "agent5"
        /\ Order[4] = "agent3" /\ Order[5] = "agent4" /\ Order[6] = "agent6"
    BY DEF Order
  <1>2. ASSUME NEW j \in 1 .. 6
        PROVE  Place(Order[j]) = j
    <2>1. \A k \in 1 .. 6 : Order[k] = Order[j] <=> k = j
      BY <1>1
    <2> HIDE DEF Order
    <2> QED
      BY <1>1, <2>1 DEF Place
  <1> QED
    BY <1>1, <1>2

\* What NextAgent and FirstPending choose is there.
LEMMA FirstOfAgents ==
  ASSUME NEW S \in SUBSET Agents, S # {}
  PROVE  \E a \in S : \A b \in S : Place(a) <= Place(b)
  <1>1. CASE "agent1" \in S
    BY <1>1, AgentNames, Places
  <1>2. CASE "agent1" \notin S /\ "agent2" \in S
    BY <1>2, AgentNames, Places
  <1>3. CASE S \cap {"agent1", "agent2"} = {} /\ "agent5" \in S
    BY <1>3, AgentNames, Places
  <1>4. CASE S \cap {"agent1", "agent2", "agent5"} = {} /\ "agent3" \in S
    BY <1>4, AgentNames, Places
  <1>5. CASE S \cap {"agent1", "agent2", "agent5", "agent3"} = {} /\ "agent4" \in S
    BY <1>5, AgentNames, Places
  <1>6. CASE S = {"agent6"}
    BY <1>6, Places
  <1> QED
    BY <1>1, <1>2, <1>3, <1>4, <1>5, <1>6, AgentNames

LEMMA StatusIsKnown ==
  ASSUME NEW steps PROVE StatusOf(steps) \in FlowStatuses
  BY DEF StatusOf, FlowStatuses

LEMMA StepKeepsFlow ==
  ASSUME NEW f \in Flow, NEW a, NEW s \in StepStatuses
  PROVE  WithStep(f, a, s) \in Flow
  <1> DEFINE steps == [f.steps EXCEPT ![a] = s]
  <1>1. steps \in [Agents -> StepStatuses]
    BY DEF Flow
  <1>2. StatusOf(steps) \in FlowStatuses
    BY StatusIsKnown
  <1> QED
    BY <1>1, <1>2 DEF WithStep, Flow

LEMMA ResultsAreFlows ==
  ASSUME NEW f \in Flow, NEW a
  PROVE  Results(f, a) \subseteq Flow
  <1> SUFFICES ASSUME NEW o \in {"nothing", "list", "diagram"}
               PROVE  [WithStep(f, a, "completed") EXCEPT !.out[a] = o, !.rated = @ \ {a}] \in Flow
    BY DEF Results
  <1>1. WithStep(f, a, "completed") \in Flow
    BY StepKeepsFlow DEF StepStatuses
  <1>2. o \in Outputs
    BY DEF Outputs
  <1> HIDE DEF WithStep
  <1> QED
    BY <1>1, <1>2 DEF Flow

LEMMA RecoveredIsFlow ==
  ASSUME NEW f \in Flow, NEW a
  PROVE  Recovered(f, a) \in Flow
  BY DEF Recovered, Flow, StepStatuses

LEMMA RatedIsFlow ==
  ASSUME NEW f \in Flow
  PROVE  Rated(f) \in Flow
  BY AgentNames DEF Rated, Flow

LEMMA NewStatus ==
  ASSUME NEW f \in Flow, NEW s \in FlowStatuses
  PROVE  [f EXCEPT !.status = s] \in Flow
  BY DEF Flow

LEMMA NoFlowIsFlow == NoFlow \in Flow
  BY DEF NoFlow, Flow, FlowStatuses, StepStatuses, Outputs

-----------------------------------------------------------------------------
(* The server                                                              *)

\* A worker that lives works for a task; one that was started for the portrait
\* does nothing else.
WorkersAreOfTasks ==
  \A w \in Workers : Alive(w) =>
    /\ worker[w].task \in Tasks
    /\ worker[w].from = "agent1" => worker[w].at \in {"new", "agent1"}

PortraitAhead(t) == \E w \in Workers : Alive(w) /\ worker[w].task = t /\ worker[w].from = "agent1"

\* Only a trigger makes a task say that it is analysed, and it starts with the
\* portrait; what the workers of later agents do says nothing of that.
AnalyzingHasPortrait ==
  \A t \in Tasks : task[t] = "analyzing" => t \in cancelling \/ PortraitAhead(t)

ServerOK == ServerTypeOK /\ WorkersAreOfTasks /\ AnalyzingHasPortrait

LEMMA PutFlowTyped ==
  ASSUME ServerTypeOK, NEW t, NEW f \in Flow, PutFlow(t, f)
  PROVE  wf' \in [Tasks -> Flow]
  BY DEF ServerTypeOK, PutFlow

\* A status that is written takes analyzing away and never brings it.
LEMMA PutTaskTyped ==
  ASSUME ServerTypeOK, NEW t, NEW s \in TaskStatuses \ {"analyzing"}, PutTask(t, s)
  PROVE  /\ task' \in [Tasks -> TaskStatuses]
         /\ \A u \in Tasks : task'[u] = "analyzing" => task[u] = "analyzing" /\ u # t
  BY DEF ServerTypeOK, PutTask, Exists

LEMMA AwaitTyped ==
  ASSUME ServerTypeOK, NEW t, NEW f \in Flow, Await(t, f)
  PROVE  /\ wf' \in [Tasks -> Flow]
         /\ task' \in [Tasks -> TaskStatuses]
         /\ \A u \in Tasks : task'[u] = "analyzing" => task[u] = "analyzing" /\ u # t
  <1>1. [f EXCEPT !.status = "awaiting_rating"] \in Flow
    BY NewStatus DEF FlowStatuses
  <1> QED
    BY <1>1, PutFlowTyped, PutTaskTyped DEF Await, TaskStatuses

\* A new worker takes the place of none that lives.
LEMMA StartTyped ==
  ASSUME ServerOK, NEW t \in Tasks, NEW a \in Agents, Start(t, a)
  PROVE  /\ worker' \in [Workers -> [task : Tasks \cup {"none"}, from : Agents,
                                     at : Agents \cup {"unborn", "new", "ended"},
                                     cancelled : BOOLEAN]]
         /\ handle' \in [Tasks -> Workers \cup {NoWorker}]
         /\ WorkersAreOfTasks'
         /\ \A u \in Tasks : PortraitAhead(u) => PortraitAhead(u)'
         /\ a = "agent1" => PortraitAhead(t)'
  BY DEF ServerOK, ServerTypeOK, WorkersAreOfTasks, PortraitAhead, Start, Alive

\* Nor does the end of a worker end another one.
LEMMA EndsTyped ==
  ASSUME ServerOK, NEW w \in Workers, Ends(w)
  PROVE  /\ worker' \in [Workers -> [task : Tasks \cup {"none"}, from : Agents,
                                     at : Agents \cup {"unborn", "new", "ended"},
                                     cancelled : BOOLEAN]]
         /\ handle' \in [Tasks -> Workers \cup {NoWorker}]
         /\ WorkersAreOfTasks'
         /\ \A u \in Tasks : u # worker[w].task /\ PortraitAhead(u) => PortraitAhead(u)'
         /\ worker[w].from # "agent1" =>
              \A u \in Tasks : PortraitAhead(u) => PortraitAhead(u)'
  BY AgentNames DEF ServerOK, ServerTypeOK, WorkersAreOfTasks, PortraitAhead, Ends, Alive, Asleep

LEMMA WaitsTyped ==
  ASSUME ServerOK, NEW w \in Workers, NEW a \in Agents, Waits(w, a), Alive(w),
         worker[w].from = "agent1" => a = "agent1"
  PROVE  /\ worker' \in [Workers -> [task : Tasks \cup {"none"}, from : Agents,
                                     at : Agents \cup {"unborn", "new", "ended"},
                                     cancelled : BOOLEAN]]
         /\ handle' \in [Tasks -> Workers \cup {NoWorker}]
         /\ WorkersAreOfTasks'
         /\ \A u \in Tasks : PortraitAhead(u) => PortraitAhead(u)'
  BY AgentNames DEF ServerOK, ServerTypeOK, WorkersAreOfTasks, PortraitAhead, Waits, Alive

LEMMA CreateTaskOK ==
  ASSUME ServerOK, NEW t \in Tasks, CreateTask(t)
  PROVE  ServerOK'
  BY DEF ServerOK, ServerTypeOK, WorkersAreOfTasks, AnalyzingHasPortrait, PortraitAhead,
         CreateTask, Alive, TaskStatuses

LEMMA TriggerOK ==
  ASSUME ServerOK, NEW t \in Tasks, Trigger(t)
  PROVE  ServerOK'
  <1>1. /\ task' = [task EXCEPT ![t] = "analyzing"]
        /\ wf' = IF HasFlow(t) THEN wf
                 ELSE [wf EXCEPT ![t] = [NoFlow EXCEPT !.status = "idle"]]
        /\ Start(t, "agent1")
        /\ UNCHANGED <<lock, cancelling>>
    BY DEF Trigger
  <1>2. [NoFlow EXCEPT !.status = "idle"] \in Flow
    BY NoFlowIsFlow, NewStatus DEF FlowStatuses
  <1>3. /\ wf' \in [Tasks -> Flow]
        /\ task' \in [Tasks -> TaskStatuses]
        /\ lock' \subseteq Tasks /\ cancelling' \subseteq Tasks
    BY <1>1, <1>2 DEF ServerOK, ServerTypeOK, TaskStatuses
  <1>4. "agent1" \in Agents
    BY AgentNames
  <1>5. \A u \in Tasks : task'[u] = "analyzing" => task[u] = "analyzing" \/ u = t
    BY <1>1 DEF ServerOK, ServerTypeOK
  <1> QED
    BY <1>1, <1>3, <1>4, <1>5, StartTyped DEF ServerOK, ServerTypeOK, AnalyzingHasPortrait

LEMMA NextAgentIsAgent ==
  ASSUME NEW f, Unfinished(f) # {}
  PROVE  NextAgent(f) \in Agents
  BY FirstOfAgents DEF NextAgent, Unfinished

LEMMA ProceedOK ==
  ASSUME ServerOK, NEW t \in Tasks, Proceed(t)
  PROVE  ServerOK'
  <1>1. Rated(wf[t]) \in Flow
    BY RatedIsFlow DEF ServerOK, ServerTypeOK
  <1>2. [Rated(wf[t]) EXCEPT !.status = "running"] \in Flow
    BY <1>1, NewStatus DEF FlowStatuses
  <1>3. UNCHANGED <<task, lock, cancelling>> /\ wf' \in [Tasks -> Flow]
    BY <1>1, <1>2 DEF Proceed, ServerOK, ServerTypeOK
  <1>4. CASE Unfinished(Rated(wf[t])) = {}
    <2>1. UNCHANGED <<worker, handle>>
      BY <1>4 DEF Proceed
    <2> QED
      BY <2>1, <1>3 DEF ServerOK, ServerTypeOK, WorkersAreOfTasks, AnalyzingHasPortrait,
                        PortraitAhead, Alive
  <1>5. CASE Unfinished(Rated(wf[t])) # {}
    <2>1. Start(t, NextAgent(Rated(wf[t]))) /\ NextAgent(Rated(wf[t])) \in Agents
      BY <1>5, NextAgentIsAgent DEF Proceed
    <2> QED
      BY <2>1, <1>3, StartTyped DEF ServerOK, ServerTypeOK, AnalyzingHasPortrait
  <1> QED
    BY <1>4, <1>5

LEMMA BeginCancelOK ==
  ASSUME ServerOK, NEW t \in Tasks, BeginCancel(t)
  PROVE  ServerOK'
  <1>1. \A w \in Workers : /\ worker'[w].task = worker[w].task
                           /\ worker'[w].from = worker[w].from
                           /\ worker'[w].at = worker[w].at
    BY DEF ServerOK, ServerTypeOK, BeginCancel
  <1>2. ServerTypeOK'
    BY DEF ServerOK, ServerTypeOK, BeginCancel, CanCancel, NoWorker
  <1>3. WorkersAreOfTasks'
    BY <1>1 DEF ServerOK, WorkersAreOfTasks, Alive
  <1>4. \A u : PortraitAhead(u) => PortraitAhead(u)'
    BY <1>1 DEF PortraitAhead, Alive
  <1> QED
    BY <1>2, <1>3, <1>4 DEF ServerOK, AnalyzingHasPortrait, BeginCancel

LEMMA EndCancelOK ==
  ASSUME ServerOK, NEW t \in Tasks, EndCancel(t)
  PROVE  ServerOK'
  <1> DEFINE busy  == {a \in Agents : wf[t].steps[a] = "running"}
             first == CHOOSE a \in busy : \A b \in busy : Place(a) <= Place(b)
             f     == [wf[t] EXCEPT !.status = "failed",
                         !.steps = IF busy = {} THEN @ ELSE [@ EXCEPT ![first] = "failed"]]
  <1>1. PutTask(t, "failed") /\ PutFlow(t, f) /\ cancelling' = cancelling \ {t}
        /\ UNCHANGED <<worker, handle, lock>>
    BY DEF EndCancel
  <1>2. f \in Flow
    <2> HIDE DEF first, busy
    <2> QED
      BY DEF ServerOK, ServerTypeOK, Flow, FlowStatuses, StepStatuses
  <1> HIDE DEF f
  <1>3. wf' \in [Tasks -> Flow]
    BY <1>1, <1>2, PutFlowTyped DEF ServerOK
  <1>4. /\ task' \in [Tasks -> TaskStatuses]
        /\ \A u \in Tasks : task'[u] = "analyzing" => task[u] = "analyzing" /\ u # t
    BY <1>1, PutTaskTyped DEF ServerOK, TaskStatuses
  <1> QED
    BY <1>1, <1>3, <1>4 DEF ServerOK, ServerTypeOK, WorkersAreOfTasks, AnalyzingHasPortrait,
                            PortraitAhead, Alive

LEMMA DeleteTaskOK ==
  ASSUME ServerOK, NEW t \in Tasks, DeleteTask(t)
  PROVE  ServerOK'
  BY NoFlowIsFlow DEF ServerOK, ServerTypeOK, WorkersAreOfTasks, AnalyzingHasPortrait,
     PortraitAhead, DeleteTask, Alive, TaskStatuses

\* What a worker writes when it ends, and the rest of what an end does.
LEMMA EndingOK ==
  ASSUME ServerOK, NEW w \in Workers, Ends(w), UNCHANGED cancelling, lock' \subseteq Tasks,
         wf' \in [Tasks -> Flow], task' \in [Tasks -> TaskStatuses],
         \A u \in Tasks : task'[u] = "analyzing" =>
           task[u] = "analyzing" /\ (worker[w].from = "agent1" => u # worker[w].task)
  PROVE  ServerOK'
  BY EndsTyped DEF ServerOK, ServerTypeOK, AnalyzingHasPortrait

LEMMA WorkerCancelledOK ==
  ASSUME ServerOK, NEW w \in Workers, WorkerCancelled(w)
  PROVE  ServerOK'
  <1>1. Ends(w) /\ PutTask(worker[w].task, "failed") /\ UNCHANGED <<wf, cancelling>>
    BY DEF WorkerCancelled
  <1>2. lock' \subseteq Tasks
    BY DEF WorkerCancelled, ServerOK, ServerTypeOK
  <1> QED
    BY <1>1, <1>2, PutTaskTyped, EndingOK DEF ServerOK, ServerTypeOK, TaskStatuses

LEMMA BeginPortraitOK ==
  ASSUME ServerOK, NEW w \in Workers, BeginPortrait(w)
  PROVE  ServerOK'
  <1> DEFINE t == worker[w].task
             f == WithStep(wf[t], "agent1", "running")
  <1>1. Alive(w) /\ Waits(w, "agent1") /\ PutFlow(t, f) /\ UNCHANGED <<task, lock, cancelling>>
    BY DEF BeginPortrait, Alive
  <1>2. t \in Tasks
    BY <1>1 DEF ServerOK, WorkersAreOfTasks
  <1>3. f \in Flow
    BY <1>2, StepKeepsFlow DEF ServerOK, ServerTypeOK, StepStatuses
  <1> HIDE DEF f
  <1>4. wf' \in [Tasks -> Flow]
    BY <1>1, <1>3, PutFlowTyped DEF ServerOK
  <1> QED
    BY <1>1, <1>4, WaitsTyped, AgentNames DEF ServerOK, ServerTypeOK, AnalyzingHasPortrait

LEMMA EndPortraitOK ==
  ASSUME ServerOK, NEW w \in Workers, EndPortrait(w)
  PROVE  ServerOK'
  <1> DEFINE t == worker[w].task
             f == WithStep(wf[t], "agent1", "failed")
  <1>1. /\ Alive(w) /\ Ends(w) /\ UNCHANGED <<lock, cancelling>>
        /\ \/ \E g \in Results(wf[t], "agent1") : Await(t, g)
           \/ PutFlow(t, f) /\ PutTask(t, "failed")
    BY DEF EndPortrait, Alive
  <1>2. t \in Tasks
    BY <1>1 DEF ServerOK, WorkersAreOfTasks
  <1>3. f \in Flow /\ Results(wf[t], "agent1") \subseteq Flow
    BY <1>2, StepKeepsFlow, ResultsAreFlows DEF ServerOK, ServerTypeOK, StepStatuses
  <1> HIDE DEF f
  <1>4. /\ wf' \in [Tasks -> Flow]
        /\ task' \in [Tasks -> TaskStatuses]
        /\ \A u \in Tasks : task'[u] = "analyzing" => task[u] = "analyzing" /\ u # t
    BY <1>1, <1>3, AwaitTyped, PutFlowTyped, PutTaskTyped DEF ServerOK, TaskStatuses
  <1>5. lock' \subseteq Tasks
    BY <1>1 DEF ServerOK, ServerTypeOK
  <1> HIDE DEF t
  <1> QED
    BY <1>1, <1>4, <1>5, EndingOK DEF t

LEMMA FirstPendingIsAgent ==
  ASSUME NEW f, Pending(f) # {}
  PROVE  FirstPending(f) \in Agents \ {"agent1"}
  BY FirstOfAgents DEF FirstPending, Pending

LEMMA BeginAgentOK ==
  ASSUME ServerOK, NEW w \in Workers, BeginAgent(w)
  PROVE  ServerOK'
  <1> DEFINE t == worker[w].task
             f == Recovered(wf[t], worker[w].from)
             a == FirstPending(f)
  <1>1. /\ worker[w].from # "agent1" /\ Alive(w) /\ UNCHANGED cancelling
        /\ \/ Ends(w) /\ UNCHANGED <<task, wf, lock>>
           \/ /\ Pending(f) # {} /\ PutFlow(t, WithStep(f, a, "running")) /\ Waits(w, a)
              /\ lock' = lock \cup {t} /\ UNCHANGED task
           \/ (\E g \in Results(f, a) : Await(t, g)) /\ Ends(w) /\ UNCHANGED lock
           \/ PutFlow(t, f) /\ PutTask(t, "completed") /\ Ends(w) /\ UNCHANGED lock
    BY DEF BeginAgent, Alive
  <1>2. t \in Tasks
    BY <1>1 DEF ServerOK, WorkersAreOfTasks
  <1>3. f \in Flow
    BY <1>2, RecoveredIsFlow DEF ServerOK, ServerTypeOK
  <1> HIDE DEF f
  <1>4. WithStep(f, a, "running") \in Flow /\ Results(f, a) \subseteq Flow
    BY <1>3, StepKeepsFlow, ResultsAreFlows DEF StepStatuses
  <1>5. CASE Ends(w) /\ UNCHANGED <<task, wf, lock>>
    BY <1>1, <1>5, EndingOK DEF ServerOK, ServerTypeOK
  <1>6. CASE /\ Pending(f) # {} /\ PutFlow(t, WithStep(f, a, "running")) /\ Waits(w, a)
             /\ lock' = lock \cup {t} /\ UNCHANGED task
    <2>1. a \in Agents
      BY <1>6, FirstPendingIsAgent
    <2>2. wf' \in [Tasks -> Flow]
      BY <1>4, <1>6, PutFlowTyped DEF ServerOK
    <2> HIDE DEF a
    <2>3. lock' \subseteq Tasks
      BY <1>2, <1>6 DEF ServerOK, ServerTypeOK
    <2> QED
      BY <1>1, <1>6, <2>1, <2>2, <2>3, WaitsTyped
      DEF ServerOK, ServerTypeOK, AnalyzingHasPortrait
  <1>7. CASE (\E g \in Results(f, a) : Await(t, g)) /\ Ends(w) /\ UNCHANGED lock
    <2>1. /\ wf' \in [Tasks -> Flow]
          /\ task' \in [Tasks -> TaskStatuses]
          /\ \A u \in Tasks : task'[u] = "analyzing" => task[u] = "analyzing" /\ u # t
      BY <1>4, <1>7, AwaitTyped DEF ServerOK
    <2> QED
      BY <1>1, <1>7, <2>1, EndingOK DEF ServerOK, ServerTypeOK
  <1>8. CASE PutFlow(t, f) /\ PutTask(t, "completed") /\ Ends(w) /\ UNCHANGED lock
    <2>1. /\ wf' \in [Tasks -> Flow]
          /\ task' \in [Tasks -> TaskStatuses]
          /\ \A u \in Tasks : task'[u] = "analyzing" => task[u] = "analyzing" /\ u # t
      BY <1>3, <1>8, PutFlowTyped, PutTaskTyped DEF ServerOK, TaskStatuses
    <2> QED
      BY <1>1, <1>8, <2>1, EndingOK DEF ServerOK, ServerTypeOK
  <1> QED
    BY <1>1, <1>5, <1>6, <1>7, <1>8

LEMMA EndAgentOK ==
  ASSUME ServerOK, NEW w \in Workers, EndAgent(w)
  PROVE  ServerOK'
  <1> DEFINE t == worker[w].task
             a == worker[w].at
             failed == WithStep(wf[t], a, "failed")
  <1>1. /\ a \in Agents \ {"agent1"} /\ Ends(w) /\ lock' = lock \ {t} /\ UNCHANGED cancelling
        /\ \/ \E f \in Results(wf[t], a) : Await(t, f)
           \/ (\E f \in Results(wf[t], a) : PutFlow(t, f)) /\ PutTask(t, "completed")
           \/ PutFlow(t, failed) /\ UNCHANGED task
           \/ PutFlow(t, failed) /\ PutTask(t, "failed")
    BY DEF EndAgent
  <1>2. t \in Tasks /\ worker[w].from # "agent1"
    BY <1>1, AgentNames DEF ServerOK, WorkersAreOfTasks, Alive
  <1>3. failed \in Flow /\ Results(wf[t], a) \subseteq Flow
    BY <1>2, StepKeepsFlow, ResultsAreFlows DEF ServerOK, ServerTypeOK, StepStatuses
  <1> HIDE DEF failed
  <1>4. /\ wf' \in [Tasks -> Flow]
        /\ task' \in [Tasks -> TaskStatuses]
        /\ \A u \in Tasks : task'[u] = "analyzing" => task[u] = "analyzing"
    BY <1>1, <1>3, AwaitTyped, PutFlowTyped, PutTaskTyped
    DEF ServerOK, ServerTypeOK, TaskStatuses
  <1>5. lock' \subseteq Tasks
    BY <1>1 DEF ServerOK, ServerTypeOK
  <1> HIDE DEF t
  <1> QED
    BY <1>1, <1>2, <1>4, <1>5, EndingOK

LEMMA WorkOK ==
  ASSUME ServerOK, NEW w \in Workers, Work(w)
  PROVE  ServerOK'
  BY BeginPortraitOK, EndPortraitOK, BeginAgentOK, EndAgentOK, WorkerCancelledOK DEF Work

LEMMA ServerInitOK ==
  ASSUME NEW progress, ServerInit(progress)
  PROVE  ServerOK
  <1>1. \A t \in Tasks : Reached(progress[t].done, progress[t].failed) \in Flow
    BY AgentNames DEF Reached, Flow, FlowStatuses, StepStatuses, Outputs, Order
  <1>2. /\ wf \in [Tasks -> Flow]
        /\ \A t \in Tasks : wf[t].status \in {"none", "failed", "completed", "awaiting_rating"}
    BY <1>1 DEF ServerInit, Reached
  <1>3. /\ task \in [Tasks -> TaskStatuses]
        /\ \A t \in Tasks : task[t] # "analyzing"
    BY <1>2 DEF ServerInit, TaskStatuses
  <1>4. \A w \in Workers : worker[w] = Asleep /\ ~Alive(w)
    BY DEF ServerInit, Alive, Asleep
  <1>5. ServerTypeOK
    BY <1>2, <1>3, AgentNames DEF ServerInit, ServerTypeOK, Asleep
  <1> QED
    BY <1>3, <1>4, <1>5 DEF ServerOK, WorkersAreOfTasks, AnalyzingHasPortrait

-----------------------------------------------------------------------------
(* Requests                                                                *)

Fields(m) == DOMAIN m = {"kind", "task", "answer", "here", "n"}

\* What a request is about, and what an answer brings.
RequestOK(m) ==
  /\ Fields(m)
  /\ m.kind \in Kinds
  /\ m.task \in IF m.kind \in {"create", "tasks", "history"} THEN {None} ELSE Tasks
  /\ m.answer.kind = "success" =>
       /\ m.kind \in {"poll", "fetch", "steps"} => m.answer.data \in Flow
       /\ m.kind \in {"tasks", "history"} => m.answer.data \in [Tasks -> TaskStatuses]
       /\ m.kind = "create" => m.answer.data \in Tasks

AllOK(msgs) == \A m \in msgs : RequestOK(m)

Polled(msgs, t) == \E m \in msgs : m.kind = "poll" /\ m.task = t

KeepsPolls(msgs) == \A t : Polled(net, t) => Polled(msgs, t)

LEMMA RequestIsOK ==
  ASSUME NEW kind \in Kinds, NEW others,
         NEW t \in IF kind \in {"create", "tasks", "history"} THEN {None} ELSE Tasks
  PROVE  /\ RequestOK(Request(kind, t, others))
         /\ Request(kind, t, others).kind = kind
         /\ Request(kind, t, others).task = t
  BY DEF Request, RequestOK, Fields, Waiting

LEMMA WithOK ==
  ASSUME NEW kind \in Kinds, NEW msgs, AllOK(msgs),
         NEW t \in IF kind \in {"create", "tasks", "history"} THEN {None} ELSE Tasks
  PROVE  /\ AllOK(With(msgs, kind, t))
         /\ kind = "poll" => Polled(With(msgs, kind, t), t)
         /\ KeepsPolls(msgs) => KeepsPolls(With(msgs, kind, t))
         /\ \A u : Polled(msgs, u) => Polled(With(msgs, kind, t), u)
  BY RequestIsOK DEF AllOK, With, Polled, KeepsPolls

LEMMA ReceivedOK ==
  ASSUME AllOK(net), NEW m
  PROVE  /\ AllOK(Received(m))
         /\ m.kind # "poll" => KeepsPolls(Received(m))
         /\ \A t : m.task # t => (Polled(net, t) => Polled(Received(m), t))
  BY DEF AllOK, Received, Polled, KeepsPolls

LEMMA OrphanedOK ==
  ASSUME NEW msgs, AllOK(msgs), NEW kinds
  PROVE  /\ AllOK(Orphaned(msgs, kinds))
         /\ KeepsPolls(msgs) => KeepsPolls(Orphaned(msgs, kinds))
  <1> DEFINE gone(m) == IF m.kind \in kinds THEN [m EXCEPT !.here = FALSE] ELSE m
  <1>1. ASSUME NEW m \in msgs
        PROVE  RequestOK(gone(m)) /\ gone(m).kind = m.kind /\ gone(m).task = m.task
    BY DEF AllOK, RequestOK, Fields
  <1> HIDE DEF gone
  <1>2. Orphaned(msgs, kinds) = {gone(m) : m \in msgs}
    BY DEF Orphaned, gone
  <1> QED
    BY <1>1, <1>2 DEF AllOK, KeepsPolls, Polled

\* An answer changes nothing else of a request.
LEMMA AnswerOK ==
  ASSUME AllOK(net), NEW m \in net, NEW answer,
         net' = (net \ {m}) \cup {[m EXCEPT !.answer = answer]},
         answer.kind = "success" =>
           /\ m.kind \in {"poll", "fetch", "steps"} => answer.data \in Flow
           /\ m.kind \in {"tasks", "history"} => answer.data \in [Tasks -> TaskStatuses]
           /\ m.kind = "create" => answer.data \in Tasks
  PROVE  AllOK(net') /\ KeepsPolls(net')
  <1> DEFINE a == [m EXCEPT !.answer = answer]
  <1>1. RequestOK(m)
    BY DEF AllOK
  <1>2. RequestOK(a) /\ a.kind = m.kind /\ a.task = m.task
    BY <1>1 DEF RequestOK, Fields
  <1> HIDE DEF a
  <1>3. net' = (net \ {m}) \cup {a}
    BY DEF a
  <1> QED
    BY <1>2, <1>3 DEF AllOK, KeepsPolls, Polled

-----------------------------------------------------------------------------
(* The stores                                                              *)

PlaceOK == selected \in Tasks \cup {None} /\ listing \in BOOLEAN /\ page \in {"dashboard", "other"}

StoreOK ==
  /\ shown \in [task : Tasks, flow : Flow] \cup {Nowhere}
  /\ loading \in BOOLEAN
  /\ running \in BOOLEAN
  /\ error \in {"", "load", "timeout"}

PollerOK ==
  /\ pollTask \in Tasks \cup {None}
  /\ pollFlag \in BOOLEAN
  /\ expired \in BOOLEAN
  /\ timer \in Tasks \cup {None}
  /\ strays \in [Tasks -> Nat]

PanelOK ==
  panel \in [busy : BOOLEAN, bases : SUBSET Bases, open : BOOLEAN, list : [Tasks -> TaskStatuses],
             editing : Tasks \cup {None}, deleting : Tasks \cup {None}]

\* The flag may be taken away from a request by the answer of another one, but
\* it is never there without a request of the task that is polled.
Chain ==
  pollTask # None =>
    /\ pollFlag => PollUnderWay(pollTask)
    /\ PollUnderWay(pollTask) \/ timer = pollTask \/ strays[pollTask] > 0

ClientOK ==
  PlaceOK /\ StoreOK /\ PollerOK /\ PanelOK /\ AllOK(net) /\ Chain /\ RunningIsFollowed

LEMMA ChainKept ==
  ASSUME Chain, UNCHANGED poller, KeepsPolls(net')
  PROVE  Chain'
  BY DEF Chain, poller, PollUnderWay, KeepsPolls, Polled

LEMMA FollowedKept ==
  ASSUME RunningIsFollowed, UNCHANGED <<shown, loading, error, pollTask, page>>
  PROVE  RunningIsFollowed'
  BY DEF RunningIsFollowed

LEMMA StopPollingOK ==
  ASSUME PollerOK, StopPolling
  PROVE  PollerOK' /\ running' \in BOOLEAN /\ Chain'
  BY DEF PollerOK, StopPolling, Chain

LEMMA StartPollingOK ==
  ASSUME PollerOK, StoreOK, Chain, NEW t \in Tasks, NEW msgs, AllOK(msgs), KeepsPolls(msgs),
         StartPolling(t, msgs)
  PROVE  PollerOK' /\ running' \in BOOLEAN /\ AllOK(net') /\ Chain' /\ pollTask' = t
  <1>1. CASE pollTask = t /\ pollFlag
    <2>1. net' = msgs /\ UNCHANGED <<poller, running>>
      BY <1>1 DEF StartPolling
    <2> QED
      BY <2>1, <1>1, ChainKept DEF PollerOK, StoreOK, poller
  <1>2. CASE ~(pollTask = t /\ pollFlag)
    <2>1. /\ pollTask' = t /\ pollFlag' = TRUE /\ expired' = FALSE
          /\ timer' = (IF pollTask = t THEN timer ELSE None)
          /\ UNCHANGED strays /\ running' = TRUE
          /\ net' = With(msgs, "poll", t)
      BY <1>2 DEF StartPolling
    <2>2. AllOK(net') /\ Polled(net', t)
      BY <2>1, WithOK DEF Kinds
    <2> QED
      BY <2>1, <2>2 DEF PollerOK, Chain, PollUnderWay, Polled
  <1> QED
    BY <1>1, <1>2

LEMMA NowhereIsFollowed ==
  ASSUME shown' = Nowhere
  PROVE  RunningIsFollowed'
  BY DEF RunningIsFollowed, Nowhere, NoFlow

LEMMA OpenTaskOK ==
  ASSUME ClientOK, NEW t \in Tasks \cup {None}, NEW msgs, AllOK(msgs), KeepsPolls(msgs),
         OpenTask(t, msgs), page' = page
  PROVE  /\ selected' \in Tasks \cup {None}
         /\ StoreOK' /\ PollerOK' /\ AllOK(net') /\ Chain' /\ RunningIsFollowed'
  <1>1. CASE t = selected \/ page # "dashboard"
    <2>1. net' = msgs /\ UNCHANGED <<store, poller>> /\ selected' = t
      BY <1>1 DEF OpenTask
    <2> QED
      BY <2>1, ChainKept, FollowedKept DEF ClientOK, StoreOK, PollerOK, store, poller
  <1>2. CASE ~(t = selected \/ page # "dashboard") /\ t = None
    <2>1. ClearWorkflow /\ net' = msgs /\ UNCHANGED loading /\ selected' = t
      BY <1>2 DEF OpenTask
    <2> QED
      BY <2>1, StopPollingOK, NowhereIsFollowed DEF ClientOK, StoreOK, ClearWorkflow
  <1>3. CASE ~(t = selected \/ page # "dashboard") /\ t # None
    <2>1. /\ loading' = TRUE /\ error' = "" /\ running' = TRUE
          /\ pollTask' = t /\ pollFlag' = TRUE /\ expired' = FALSE
          /\ timer' = None /\ selected' = t
          /\ net' = With(With(msgs, "fetch", t), "poll", t)
          /\ UNCHANGED <<strays, shown>>
      BY <1>3 DEF OpenTask
    <2>2. AllOK(net') /\ Polled(net', t)
      BY <2>1, <1>3, WithOK DEF Kinds
    <2> QED
      BY <2>1, <2>2
      DEF ClientOK, StoreOK, PollerOK, Chain, PollUnderWay, Polled, RunningIsFollowed
  <1> QED
    BY <1>1, <1>2, <1>3

LEMMA FetchTasksOK ==
  ASSUME NEW msgs, AllOK(msgs), FetchTasks(msgs)
  PROVE  listing' \in BOOLEAN /\ PanelOK' /\ AllOK(net') /\ (KeepsPolls(msgs) => KeepsPolls(net'))
  <1>1. AllOK(Orphaned(msgs, OfPanel))
        /\ (KeepsPolls(msgs) => KeepsPolls(Orphaned(msgs, OfPanel)))
    BY OrphanedOK
  <1>2. PanelOK'
    BY DEF FetchTasks, PanelOK, ClosedPanel, TaskStatuses
  <1> QED
    BY <1>1, <1>2, WithOK DEF FetchTasks, Kinds

LEMMA FetchWorkflowOK ==
  ASSUME ClientOK, NEW t \in Tasks, NEW msgs, AllOK(msgs), KeepsPolls(msgs),
         FetchWorkflow(t, msgs)
  PROVE  StoreOK' /\ PollerOK' /\ AllOK(net') /\ Chain' /\ RunningIsFollowed'
  <1>1. /\ loading' = TRUE /\ error' = "" /\ net' = With(msgs, "fetch", t)
        /\ UNCHANGED <<shown, running, poller>>
    BY DEF FetchWorkflow
  <1>2. AllOK(net') /\ KeepsPolls(net')
    BY <1>1, WithOK DEF Kinds
  <1> QED
    BY <1>1, <1>2, ChainKept DEF ClientOK, StoreOK, PollerOK, poller, RunningIsFollowed

LEMMA FetchAnsweredOK ==
  ASSUME ClientOK, NEW m \in net, FetchAnswered(m), page' = page
  PROVE  ClientOK'
  <1>1. /\ m.kind = "fetch" /\ m.task \in Tasks /\ RequestOK(m)
        /\ loading' = FALSE /\ UNCHANGED <<selected, listing, panel>>
        /\ AllOK(Received(m)) /\ KeepsPolls(Received(m))
    BY ReceivedOK DEF FetchAnswered, ClientOK, AllOK, RequestOK
  <1>2. CASE Ok(m) /\ m.answer.data.status = "running"
    <2>1. /\ m.answer.data \in Flow
          /\ shown' = [task |-> m.task, flow |-> m.answer.data]
          /\ UNCHANGED error
          /\ StartPolling(m.task, Received(m))
      BY <1>1, <1>2 DEF FetchAnswered, RequestOK, Ok
    <2>2. PollerOK' /\ running' \in BOOLEAN /\ AllOK(net') /\ Chain' /\ pollTask' = m.task
      BY <1>1, <2>1, StartPollingOK DEF ClientOK
    <2> QED
      BY <1>1, <2>1, <2>2 DEF ClientOK, PlaceOK, StoreOK, PanelOK, RunningIsFollowed
  <1>3. CASE Ok(m) /\ m.answer.data.status # "running"
    <2>1. /\ m.answer.data \in Flow
          /\ shown' = [task |-> m.task, flow |-> m.answer.data]
          /\ UNCHANGED error /\ running' = FALSE /\ net' = Received(m) /\ UNCHANGED poller
      BY <1>1, <1>3 DEF FetchAnswered, RequestOK, Ok
    <2>2. Chain' /\ AllOK(net')
      BY <1>1, <2>1, ChainKept DEF ClientOK
    <2>3. StoreOK' /\ RunningIsFollowed'
      BY <1>1, <1>3, <2>1 DEF ClientOK, StoreOK, RunningIsFollowed
    <2>4. PlaceOK' /\ PollerOK' /\ PanelOK'
      BY <1>1, <2>1 DEF ClientOK, PlaceOK, PollerOK, poller, PanelOK
    <2> QED
      BY <2>2, <2>3, <2>4 DEF ClientOK
  <1>4. CASE ~Ok(m)
    <2>1. /\ shown' = Nowhere /\ error' = "load" /\ net' = Received(m)
          /\ UNCHANGED <<running, poller>>
      BY <1>4 DEF FetchAnswered
    <2>2. Chain' /\ RunningIsFollowed' /\ AllOK(net')
      BY <1>1, <2>1, ChainKept, NowhereIsFollowed DEF ClientOK
    <2>3. StoreOK'
      BY <1>1, <2>1 DEF ClientOK, StoreOK
    <2>4. PlaceOK' /\ PollerOK' /\ PanelOK'
      BY <1>1, <2>1 DEF ClientOK, PlaceOK, PollerOK, poller, PanelOK
    <2> QED
      BY <2>2, <2>3, <2>4 DEF ClientOK
  <1> QED
    BY <1>2, <1>3, <1>4

LEMMA ArmTimerOK ==
  ASSUME PollerOK, NEW t \in Tasks, ArmTimer(t)
  PROVE  timer' = t /\ strays' \in [Tasks -> Nat]
  BY DEF PollerOK, ArmTimer

LEMMA PollAnsweredOK ==
  ASSUME ClientOK, NEW m \in net, PollAnswered(m), page' = page
  PROVE  ClientOK'
  <1>1. /\ m.kind = "poll" /\ m.task \in Tasks /\ RequestOK(m) /\ selected' = selected
        /\ AllOK(Received(m))
        /\ \A t : m.task # t => (Polled(net, t) => Polled(Received(m), t))
    BY ReceivedOK DEF PollAnswered, ClientOK, AllOK, RequestOK
  <1>2. CASE pollTask # m.task
    <2>1. /\ pollFlag' = FALSE /\ net' = Received(m)
          /\ UNCHANGED <<store, pollTask, expired, timer, strays, listing, panel>>
      BY <1>2 DEF PollAnswered
    <2>2. Chain'
      BY <1>1, <1>2, <2>1 DEF ClientOK, Chain, PollUnderWay, Polled
    <2>3. RunningIsFollowed' /\ AllOK(net')
      BY <1>1, <2>1, FollowedKept DEF ClientOK, store
    <2>4. StoreOK'
      BY <2>1 DEF ClientOK, StoreOK, store
    <2>5. PlaceOK' /\ PollerOK' /\ PanelOK'
      BY <1>1, <2>1 DEF ClientOK, PlaceOK, PollerOK, PanelOK
    <2> QED
      BY <2>2, <2>3, <2>4, <2>5 DEF ClientOK
  <1>3. CASE pollTask = m.task /\ ~Ok(m)
    <2>1. /\ pollFlag' = FALSE /\ ArmTimer(m.task) /\ net' = Received(m)
          /\ UNCHANGED <<store, pollTask, expired, listing, panel>>
      BY <1>3 DEF PollAnswered
    <2>2. timer' = m.task /\ strays' \in [Tasks -> Nat]
      BY <1>1, <2>1, ArmTimerOK DEF ClientOK
    <2>3. RunningIsFollowed' /\ AllOK(net')
      BY <1>1, <2>1, FollowedKept DEF ClientOK, store
    <2>4. StoreOK'
      BY <2>1 DEF ClientOK, StoreOK, store
    <2>5. PlaceOK' /\ PollerOK' /\ PanelOK'
      BY <1>1, <2>1, <2>2 DEF ClientOK, PlaceOK, PollerOK, PanelOK
    <2>6. Chain'
      BY <1>3, <2>1, <2>2 DEF Chain
    <2> QED
      BY <2>3, <2>4, <2>5, <2>6 DEF ClientOK
  <1>4. CASE pollTask = m.task /\ Ok(m) /\ m.answer.data.status = "running"
    <2>1. /\ m.answer.data \in Flow
          /\ shown' = [task |-> m.task, flow |-> m.answer.data] /\ error' = ""
          /\ running' = TRUE /\ pollFlag' = FALSE /\ ArmTimer(m.task) /\ net' = Received(m)
          /\ UNCHANGED <<loading, pollTask, expired, listing, panel>>
      BY <1>1, <1>4 DEF PollAnswered, RequestOK, Ok
    <2>2. timer' = m.task /\ strays' \in [Tasks -> Nat]
      BY <1>1, <2>1, ArmTimerOK DEF ClientOK
    <2> QED
      BY <1>1, <1>4, <2>1, <2>2
      DEF ClientOK, PlaceOK, StoreOK, PollerOK, PanelOK, Chain, RunningIsFollowed
  <1>5. CASE pollTask = m.task /\ Ok(m) /\ m.answer.data.status # "running"
    <2>1. /\ m.answer.data \in Flow
          /\ shown' = [task |-> m.task, flow |-> m.answer.data] /\ error' = ""
          /\ StopPolling /\ FetchTasks(Received(m)) /\ UNCHANGED loading
      BY <1>1, <1>5 DEF PollAnswered, RequestOK, Ok
    <2>2. PollerOK' /\ running' \in BOOLEAN /\ Chain'
      BY <2>1, StopPollingOK DEF ClientOK
    <2>3. listing' \in BOOLEAN /\ PanelOK' /\ AllOK(net')
      BY <1>1, <2>1, FetchTasksOK
    <2> QED
      BY <1>1, <1>5, <2>1, <2>2, <2>3 DEF ClientOK, PlaceOK, StoreOK, RunningIsFollowed
  <1> QED
    BY <1>2, <1>3, <1>4, <1>5

LEMMA CancelAnsweredOK ==
  ASSUME ClientOK, NEW m \in net, CancelAnswered(m), page' = page
  PROVE  ClientOK'
  <1>1. /\ StopPolling /\ shown' = Nowhere /\ error' = "" /\ FetchTasks(Received(m))
        /\ UNCHANGED <<selected, loading>> /\ AllOK(Received(m))
    BY ReceivedOK DEF CancelAnswered, ClearWorkflow, ClientOK
  <1>2. PollerOK' /\ running' \in BOOLEAN /\ Chain'
    BY <1>1, StopPollingOK DEF ClientOK
  <1>3. listing' \in BOOLEAN /\ PanelOK' /\ AllOK(net')
    BY <1>1, FetchTasksOK
  <1> QED
    BY <1>1, <1>2, <1>3, NowhereIsFollowed DEF ClientOK, PlaceOK, StoreOK

\* What only the request and the panel change.
LEMMA QuietOK ==
  ASSUME ClientOK, AllOK(net'), KeepsPolls(net'), PanelOK', listing' \in BOOLEAN,
         UNCHANGED <<selected, page, store, poller>>
  PROVE  ClientOK'
  BY ChainKept, FollowedKept DEF ClientOK, PlaceOK, StoreOK, PollerOK, store, poller

LEMMA TasksAnsweredOK ==
  ASSUME ClientOK, NEW m \in net, TasksAnswered(m), page' = page
  PROVE  ClientOK'
  <1>1. AllOK(Received(m)) /\ KeepsPolls(Received(m))
    BY ReceivedOK DEF TasksAnswered, ClientOK
  <1> QED
    BY <1>1, QuietOK DEF TasksAnswered, ClientOK, PanelOK

LEMMA CreateAnsweredOK ==
  ASSUME ClientOK, NEW m \in net, CreateAnswered(m), page' = page
  PROVE  ClientOK'
  <1>1. /\ m.kind = "create" /\ RequestOK(m) /\ UNCHANGED listing
        /\ AllOK(Received(m)) /\ KeepsPolls(Received(m))
    BY ReceivedOK DEF CreateAnswered, ClientOK, AllOK
  <1>2. CASE Ok(m)
    <2> DEFINE t == m.answer.data
               r == Request("trigger", t, net)
               msgs == {[q EXCEPT !.here = m.here] : q \in {r}} \cup Received(m)
    <2>1. t \in Tasks /\ OpenTask(t, msgs) /\ UNCHANGED panel
      BY <1>1, <1>2 DEF CreateAnswered, RequestOK, Ok
    <2>2. RequestOK(r)
      BY <2>1, RequestIsOK DEF Kinds
    <2>3. RequestOK([r EXCEPT !.here = m.here])
      BY <2>2 DEF RequestOK, Fields
    <2>4. AllOK(msgs) /\ KeepsPolls(msgs)
      <3> HIDE DEF r
      <3> QED
        BY <1>1, <2>3 DEF AllOK, KeepsPolls, Polled
    <2> HIDE DEF msgs
    <2> QED
      BY <1>1, <2>1, <2>4, OpenTaskOK DEF ClientOK, PlaceOK, PanelOK
  <1>3. CASE ~Ok(m)
    <2>1. /\ panel' = IF m.here THEN [panel EXCEPT !.busy = FALSE] ELSE panel
          /\ net' = Received(m) /\ UNCHANGED <<selected, store, poller>>
      BY <1>3 DEF CreateAnswered
    <2>2. PanelOK'
      BY <2>1 DEF ClientOK, PanelOK
    <2> QED
      BY <1>1, <2>1, <2>2, QuietOK DEF ClientOK, PlaceOK
  <1> QED
    BY <1>2, <1>3

\* The answers that only the panel takes.
LEMMA PanelAnsweredOK ==
  ASSUME ClientOK, NEW m \in net, page' = page,
         TriggerAnswered(m) \/ HistoryAnswered(m) \/ RenameAnswered(m) \/ DeleteAnswered(m)
  PROVE  ClientOK'
  <1>1. /\ m.kind # "poll" /\ RequestOK(m) /\ net' = Received(m)
        /\ UNCHANGED <<selected, listing, store, poller>>
    BY DEF ClientOK, AllOK, TriggerAnswered, HistoryAnswered, RenameAnswered, DeleteAnswered
  <1>2. AllOK(net') /\ KeepsPolls(net')
    BY <1>1, ReceivedOK DEF ClientOK
  <1>3. PanelOK'
    <2>1. CASE TriggerAnswered(m)
      BY <2>1 DEF TriggerAnswered, ClientOK, PanelOK
    <2>2. CASE HistoryAnswered(m)
      <3>1. Ok(m) => m.answer.data \in [Tasks -> TaskStatuses]
        BY <1>1, <2>2 DEF HistoryAnswered, RequestOK, Ok
      <3> QED
        BY <2>2, <3>1 DEF HistoryAnswered, ClientOK, PanelOK, TaskStatuses
    <2>3. CASE RenameAnswered(m)
      BY <2>3 DEF RenameAnswered, ClientOK, PanelOK
    <2>4. CASE DeleteAnswered(m)
      BY <2>4 DEF DeleteAnswered, ClientOK, PanelOK, TaskStatuses
    <2> QED
      BY <2>1, <2>2, <2>3, <2>4
  <1> QED
    BY <1>1, <1>2, <1>3, QuietOK DEF ClientOK, PlaceOK

LEMMA StepsAnsweredOK ==
  ASSUME ClientOK, NEW m \in net, StepsAnswered(m), page' = page
  PROVE  ClientOK'
  <1>1. /\ m.kind = "steps" /\ m.task \in Tasks
        /\ AllOK(Received(m)) /\ KeepsPolls(Received(m))
    BY ReceivedOK DEF StepsAnswered, ClientOK, AllOK, RequestOK
  <1>2. AllOK(net') /\ KeepsPolls(net')
    BY <1>1, WithOK DEF StepsAnswered, Kinds
  <1> QED
    BY <1>2, QuietOK DEF StepsAnswered, ClientOK, PlaceOK, PanelOK

\* The answers after which the workflow is read again.
LEMMA ReadAgainOK ==
  ASSUME ClientOK, NEW m \in net, page' = page, ContinueAnswered(m) \/ ProceedAnswered(m)
  PROVE  ClientOK'
  <1>1. /\ m.kind \in {"continue", "proceed"} /\ m.task \in Tasks
        /\ AllOK(Received(m)) /\ KeepsPolls(Received(m))
        /\ UNCHANGED <<selected, listing, panel>>
    BY ReceivedOK DEF ContinueAnswered, ProceedAnswered, ClientOK, AllOK, RequestOK
  <1>2. CASE FetchWorkflow(m.task, Received(m))
    BY <1>1, <1>2, FetchWorkflowOK DEF ClientOK, PlaceOK, PanelOK
  <1>3. CASE net' = Received(m) /\ UNCHANGED <<store, poller>>
    BY <1>1, <1>3, QuietOK DEF ClientOK, PlaceOK, PanelOK
  <1> QED
    BY <1>2, <1>3 DEF ContinueAnswered, ProceedAnswered

LEMMA DeliverOK ==
  ASSUME ClientOK, NEW m \in net, Deliver(m)
  PROVE  ClientOK'
  BY FetchAnsweredOK, PollAnsweredOK, CancelAnsweredOK, TasksAnsweredOK, CreateAnsweredOK,
     PanelAnsweredOK, StepsAnsweredOK, ReadAgainOK DEF Deliver

-----------------------------------------------------------------------------
(* Timers, the network and the server                                      *)

LEMMA TimerFiresOK ==
  ASSUME ClientOK, NEW t \in Tasks, TimerFires(t)
  PROVE  ClientOK'
  <1>1. /\ Poll(t)
        /\ \/ timer = t /\ timer' = None /\ UNCHANGED strays
           \/ /\ strays[t] > 0
              /\ strays' = [strays EXCEPT ![t] = @ - 1]
              /\ timer' = IF pollTask # None /\ pollTask' = None THEN None ELSE timer
        /\ UNCHANGED <<server, selected, listing, shown, loading, page, panel, left>>
    BY DEF TimerFires
  <1>2. /\ timer' \in Tasks \cup {None} /\ strays' \in [Tasks -> Nat]
        /\ \A u \in Tasks \ {t} : strays'[u] = strays[u]
    BY <1>1 DEF ClientOK, PollerOK
  <1>3. PlaceOK' /\ PanelOK' /\ shown' = shown /\ loading' = loading /\ page' = page
    BY <1>1 DEF ClientOK, PlaceOK, PanelOK
  <1>4. CASE pollTask # t \/ pollFlag
    <2>1. UNCHANGED <<pollFlag, pollTask, expired, running, error, net>>
      BY <1>1, <1>4 DEF Poll
    <2>2. StoreOK'
      BY <1>3, <2>1 DEF ClientOK, StoreOK
    <2>3. PollerOK' /\ AllOK(net')
      BY <1>2, <2>1 DEF ClientOK, PollerOK
    <2>4. RunningIsFollowed'
      BY <1>3, <2>1, FollowedKept DEF ClientOK
    <2>5. Chain'
      <3>1. CASE pollFlag
        BY <3>1, <2>1 DEF ClientOK, Chain, PollUnderWay
      <3>2. CASE ~pollFlag /\ pollTask # t
        BY <3>2, <1>1, <1>2, <2>1 DEF ClientOK, Chain, PollUnderWay, PollerOK
      <3> QED
        BY <1>4, <3>1, <3>2
    <2> QED
      BY <1>3, <2>2, <2>3, <2>4, <2>5 DEF ClientOK
  <1>5. CASE ~(pollTask # t \/ pollFlag) /\ expired
    <2>1. /\ error' = "timeout" /\ pollTask' = None /\ pollFlag' = FALSE /\ expired' = FALSE
          /\ running' = FALSE /\ UNCHANGED net
      BY <1>1, <1>5 DEF Poll
    <2>2. StoreOK'
      BY <1>3, <2>1 DEF ClientOK, StoreOK
    <2>3. PollerOK' /\ AllOK(net')
      BY <1>2, <2>1 DEF ClientOK, PollerOK
    <2> QED
      BY <1>3, <2>1, <2>2, <2>3 DEF ClientOK, Chain, RunningIsFollowed
  <1>6. CASE ~(pollTask # t \/ pollFlag) /\ ~expired
    <2>1. /\ pollFlag' = TRUE /\ net' = With(net, "poll", t)
          /\ UNCHANGED <<pollTask, expired, running, error>>
      BY <1>1, <1>6 DEF Poll
    <2>2. AllOK(net') /\ Polled(net', t)
      BY <2>1, WithOK DEF ClientOK, Kinds
    <2>3. StoreOK'
      BY <1>3, <2>1 DEF ClientOK, StoreOK
    <2>4. PollerOK'
      BY <1>2, <2>1 DEF ClientOK, PollerOK
    <2>5. RunningIsFollowed'
      BY <1>3, <2>1, FollowedKept DEF ClientOK
    <2>6. Chain'
      BY <1>6, <2>1, <2>2 DEF Chain, PollUnderWay, Polled
    <2> QED
      BY <1>3, <2>2, <2>3, <2>4, <2>5, <2>6 DEF ClientOK
  <1> QED
    BY <1>4, <1>5, <1>6

LEMMA TimePassesOK ==
  ASSUME ClientOK, TimePasses
  PROVE  ClientOK'
  <1>1. /\ expired' = TRUE
        /\ UNCHANGED <<selected, listing, shown, loading, running, error, pollTask, pollFlag,
                       timer, strays, net, page, panel>>
    BY DEF TimePasses, store
  <1>2. PlaceOK' /\ PanelOK' /\ PollerOK' /\ AllOK(net')
    BY <1>1 DEF ClientOK, PlaceOK, PanelOK, PollerOK
  <1>3. StoreOK'
    BY <1>1 DEF ClientOK, StoreOK
  <1>4. RunningIsFollowed' /\ Chain'
    BY <1>1, FollowedKept DEF ClientOK, Chain, PollUnderWay
  <1> QED
    BY <1>2, <1>3, <1>4 DEF ClientOK

\* Only the requests change.
LEMMA NetOK ==
  ASSUME ClientOK, AllOK(net'), KeepsPolls(net'),
         UNCHANGED <<selected, listing, store, poller, page, panel>>
  PROVE  ClientOK'
  BY QuietOK DEF ClientOK, PanelOK, PlaceOK

LEMMA LoseOK ==
  ASSUME ClientOK, NEW m \in net, Lose(m)
  PROVE  ClientOK'
  <1>1. Failure.kind # "success"
    BY DEF Failure
  <1>2. /\ net' = (net \ {m}) \cup {[m EXCEPT !.answer = Failure]}
        /\ UNCHANGED <<selected, listing, store, poller, page, panel>>
    BY DEF Lose
  <1> QED
    BY <1>1, <1>2, AnswerOK, NetOK DEF ClientOK

LEMMA DoneOK ==
  ASSUME AllOK(net), NEW m \in net, NEW d, Done(m, d),
         m.kind \notin {"poll", "fetch", "steps", "tasks", "history"},
         m.kind = "create" => d \in Tasks
  PROVE  AllOK(net') /\ KeepsPolls(net')
  <1>1. Success(d).data = d
    BY DEF Success
  <1> QED
    BY <1>1, AnswerOK DEF Done

LEMMA RefusedOK ==
  ASSUME AllOK(net), NEW m \in net, Refused(m)
  PROVE  AllOK(net') /\ KeepsPolls(net')
  <1>1. Failure.kind # "success"
    BY DEF Failure
  <1> QED
    BY <1>1, AnswerOK DEF Refused

LEMMA UnchangedOK ==
  ASSUME AllOK(net), UNCHANGED net
  PROVE  AllOK(net') /\ KeepsPolls(net')
  BY DEF KeepsPolls, Polled

LEMMA ServerKept ==
  ASSUME ServerOK, UNCHANGED server
  PROVE  ServerOK'
  BY DEF ServerOK, ServerTypeOK, WorkersAreOfTasks, AnalyzingHasPortrait, PortraitAhead, Alive,
         server

LEMMA AnswersReadOK ==
  ASSUME ServerOK, AllOK(net), NEW m \in net, AnswersRead(m)
  PROVE  ServerOK' /\ AllOK(net') /\ KeepsPolls(net')
  <1> DEFINE answer == IF m.kind \in {"tasks", "history"} THEN Success(task)
                       ELSE IF m.kind = "rename" /\ Exists(m.task) THEN Success("renamed")
                       ELSE IF m.kind # "rename" /\ HasFlow(m.task) THEN Success(wf[m.task])
                       ELSE Failure
  <1>1. m.kind \in {"poll", "fetch", "steps", "tasks", "history", "rename"}
        /\ net' = (net \ {m}) \cup {[m EXCEPT !.answer = answer]} /\ UNCHANGED server
    BY DEF AnswersRead
  <1>2. m.kind \in {"poll", "fetch", "steps"} => m.task \in Tasks
    BY DEF AllOK, RequestOK
  <1>3. task \in [Tasks -> TaskStatuses] /\ wf \in [Tasks -> Flow]
    BY DEF ServerOK, ServerTypeOK
  <1>4. answer.kind = "success" =>
          /\ m.kind \in {"poll", "fetch", "steps"} => answer.data \in Flow
          /\ m.kind \in {"tasks", "history"} => answer.data \in [Tasks -> TaskStatuses]
          /\ m.kind = "create" => answer.data \in Tasks
    BY <1>1, <1>2, <1>3 DEF Success, Failure
  <1> HIDE DEF answer
  <1> QED
    BY <1>1, <1>4, AnswerOK, ServerKept

LEMMA AnswersWriteOK ==
  ASSUME ServerOK, AllOK(net), NEW m \in net, AnswersWrite(m)
  PROVE  ServerOK' /\ AllOK(net') /\ KeepsPolls(net')
  <1>1. m.kind \in {"trigger", "continue", "proceed", "cancel", "delete"} => m.task \in Tasks
    BY DEF AllOK, RequestOK
  <1>2. CASE m.kind = "create" /\ \E t \in Tasks : CreateTask(t) /\ Done(m, t)
    BY <1>2, CreateTaskOK, DoneOK
  <1>3. CASE /\ m.kind \in {"trigger", "continue"}
             /\ \/ Trigger(m.task) /\ Done(m, "analyzing")
                \/ ~Exists(m.task) /\ Refused(m) /\ UNCHANGED server
    BY <1>1, <1>3, TriggerOK, DoneOK, RefusedOK, ServerKept
  <1>4. CASE /\ m.kind = "proceed"
             /\ \/ Proceed(m.task) /\ Done(m, "proceeding")
                \/ ~CanProceed(m.task) /\ Refused(m) /\ UNCHANGED server
    BY <1>1, <1>4, ProceedOK, DoneOK, RefusedOK, ServerKept
  <1>5. CASE /\ m.kind = "cancel"
             /\ \/ m.task \notin cancelling /\ BeginCancel(m.task) /\ UNCHANGED net
                \/ EndCancel(m.task) /\ Done(m, "cancelled")
                \/ ~CanCancel(m.task) /\ m.task \notin cancelling /\ Refused(m)
                   /\ UNCHANGED server
    BY <1>1, <1>5, BeginCancelOK, EndCancelOK, DoneOK, RefusedOK, UnchangedOK, ServerKept
  <1>6. CASE /\ m.kind = "delete"
             /\ \/ DeleteTask(m.task) /\ Done(m, "deleted")
                \/ ~Exists(m.task) /\ Refused(m) /\ UNCHANGED server
    BY <1>1, <1>6, DeleteTaskOK, DoneOK, RefusedOK, ServerKept
  <1> QED
    BY <1>2, <1>3, <1>4, <1>5, <1>6 DEF AnswersWrite

LEMMA ServeOK ==
  ASSUME ServerOK, ClientOK, NEW m \in net, Serve(m)
  PROVE  ServerOK' /\ ClientOK'
  <1>1. ServerOK' /\ AllOK(net') /\ KeepsPolls(net')
    BY AnswersReadOK, AnswersWriteOK DEF Serve, ClientOK
  <1> QED
    BY <1>1, NetOK DEF Serve

-----------------------------------------------------------------------------
(* The user                                                                *)

LEMMA WithKeeps ==
  ASSUME AllOK(net), NEW kind \in Kinds,
         NEW t \in IF kind \in {"create", "tasks", "history"} THEN {None} ELSE Tasks
  PROVE  AllOK(With(net, kind, t)) /\ KeepsPolls(With(net, kind, t))
  <1>1. KeepsPolls(net)
    BY DEF KeepsPolls
  <1> QED
    BY <1>1, WithOK

\* What is done in the panel: at most one request, and nothing but the panel.
LEMMA PanelStepOK ==
  ASSUME ClientOK,
         \/ Submit \/ OpenHistory \/ CloseHistory \/ SaveEdit \/ AnswerDelete
         \/ \E b \in Bases : ToggleBase(b)
         \/ \E t \in Tasks, filter \in Filters : StartEdit(t, filter) \/ AskDelete(t, filter)
  PROVE  ClientOK'
  <1>1. UNCHANGED <<selected, listing, store, poller, page>>
    BY DEF Submit, OpenHistory, CloseHistory, SaveEdit, AnswerDelete, ToggleBase, StartEdit,
           AskDelete
  <1>2. panel.editing \in Tasks \cup {None} /\ panel.deleting \in Tasks \cup {None}
    BY DEF ClientOK, PanelOK
  <1>3. \/ UNCHANGED net
        \/ net' = With(net, "create", None) \/ net' = With(net, "history", None)
        \/ \E t \in Tasks : net' = With(net, "rename", t) \/ net' = With(net, "delete", t)
    BY <1>2 DEF Submit, OpenHistory, CloseHistory, SaveEdit, AnswerDelete, ToggleBase, StartEdit,
           AskDelete
  <1>4. AllOK(net') /\ KeepsPolls(net')
    BY <1>3, WithKeeps, UnchangedOK DEF ClientOK, Kinds
  <1>5. PanelOK'
    <2>1. CASE Submit
      BY <2>1 DEF Submit, ClientOK, PanelOK
    <2>2. CASE OpenHistory \/ CloseHistory
      BY <2>2 DEF OpenHistory, CloseHistory, ClientOK, PanelOK
    <2>3. CASE SaveEdit \/ AnswerDelete
      BY <2>3 DEF SaveEdit, AnswerDelete, ClientOK, PanelOK
    <2>4. ASSUME NEW b \in Bases, ToggleBase(b)
          PROVE  PanelOK'
      BY <2>4 DEF ToggleBase, ClientOK, PanelOK
    <2>5. ASSUME NEW t \in Tasks, NEW filter \in Filters, StartEdit(t, filter) \/ AskDelete(t, filter)
          PROVE  PanelOK'
      BY <2>5 DEF StartEdit, AskDelete, ClientOK, PanelOK
    <2> QED
      BY <2>1, <2>2, <2>3, <2>4, <2>5
  <1> QED
    BY <1>1, <1>4, <1>5, QuietOK DEF ClientOK, PlaceOK

LEMMA NewTaskOK ==
  ASSUME ClientOK, NewTask
  PROVE  ClientOK'
  <1>1. /\ selected' = None /\ StopPolling /\ shown' = Nowhere /\ error' = ""
        /\ UNCHANGED <<listing, loading, page, panel>>
    BY DEF NewTask, ClearWorkflow
  <1>2. AllOK(net')
    BY WithKeeps DEF NewTask, ClientOK, PlaceOK, Kinds
  <1>3. PollerOK' /\ running' \in BOOLEAN /\ Chain' /\ RunningIsFollowed'
    BY <1>1, StopPollingOK, NowhereIsFollowed DEF ClientOK
  <1> QED
    BY <1>1, <1>2, <1>3 DEF ClientOK, PlaceOK, StoreOK, PanelOK

LEMMA SelectHistoryTaskOK ==
  ASSUME ClientOK, NEW t \in Tasks, NEW filter, SelectHistoryTask(t, filter)
  PROVE  ClientOK'
  <1> DEFINE msgs == IF panel.list[t] = "failed" THEN With(net, "steps", t) ELSE net
  <1>1. /\ panel' = [panel EXCEPT !.open = FALSE] /\ OpenTask(t, msgs)
        /\ UNCHANGED <<listing, page>>
    BY DEF SelectHistoryTask
  <1>2. AllOK(msgs) /\ KeepsPolls(msgs)
    BY WithKeeps DEF ClientOK, Kinds, KeepsPolls
  <1>3. PanelOK'
    BY <1>1 DEF ClientOK, PanelOK
  <1> HIDE DEF msgs
  <1>4. /\ selected' \in Tasks \cup {None}
        /\ StoreOK' /\ PollerOK' /\ AllOK(net') /\ Chain' /\ RunningIsFollowed'
    BY <1>1, <1>2, OpenTaskOK
  <1> QED
    BY <1>1, <1>3, <1>4 DEF ClientOK, PlaceOK

LEMMA LeavePageOK ==
  ASSUME ClientOK, LeavePage
  PROVE  ClientOK'
  <1>1. /\ page' = "other" /\ panel' = ClosedPanel /\ net' = Orphaned(net, OfPanel)
        /\ UNCHANGED <<selected, listing, shown, loading, error>>
        /\ StopPolling \/ UNCHANGED <<poller, running>>
    BY DEF LeavePage
  <1>2. KeepsPolls(net)
    BY DEF KeepsPolls
  <1>3. AllOK(net') /\ KeepsPolls(net')
    BY <1>1, <1>2, OrphanedOK DEF ClientOK
  <1>4. PanelOK'
    BY <1>1 DEF PanelOK, ClosedPanel, TaskStatuses
  <1>5. PollerOK' /\ running' \in BOOLEAN /\ Chain'
    <2>1. CASE StopPolling
      BY <2>1, StopPollingOK DEF ClientOK
    <2>2. CASE UNCHANGED <<poller, running>>
      <3>1. Chain'
        BY <2>2, <1>3, ChainKept DEF ClientOK
      <3> QED
        BY <2>2, <3>1 DEF ClientOK, PollerOK, StoreOK, poller
    <2> QED
      BY <1>1, <2>1, <2>2
  <1>6. StoreOK' /\ PlaceOK'
    BY <1>1, <1>5 DEF ClientOK, StoreOK, PlaceOK
  <1> QED
    BY <1>1, <1>3, <1>4, <1>5, <1>6 DEF ClientOK, RunningIsFollowed

LEMMA ReturnToPageOK ==
  ASSUME ClientOK, ReturnToPage
  PROVE  ClientOK'
  <1>1. page' = "dashboard" /\ UNCHANGED <<selected, listing, panel>>
    BY DEF ReturnToPage
  <1>2. PlaceOK' /\ PanelOK'
    BY <1>1 DEF ClientOK, PlaceOK, PanelOK
  <1>3. CASE selected = None
    <2>1. StopPolling /\ shown' = Nowhere /\ error' = "" /\ UNCHANGED <<net, loading>>
      BY <1>3 DEF ReturnToPage, ClearWorkflow
    <2>2. PollerOK' /\ running' \in BOOLEAN /\ Chain' /\ RunningIsFollowed'
      BY <2>1, StopPollingOK, NowhereIsFollowed DEF ClientOK
    <2> QED
      BY <1>2, <2>1, <2>2 DEF ClientOK, StoreOK
  <1>4. CASE selected # None
    <2>1. /\ loading' = TRUE /\ error' = "" /\ UNCHANGED shown
          /\ StartPolling(selected, With(net, "fetch", selected))
      BY <1>4 DEF ReturnToPage
    <2>2. AllOK(With(net, "fetch", selected)) /\ KeepsPolls(With(net, "fetch", selected))
      BY <1>4, WithKeeps DEF ClientOK, PlaceOK, Kinds
    <2>3. PollerOK' /\ running' \in BOOLEAN /\ AllOK(net') /\ Chain'
      BY <1>4, <2>1, <2>2, StartPollingOK DEF ClientOK, PlaceOK
    <2> QED
      BY <1>2, <2>1, <2>3 DEF ClientOK, StoreOK, RunningIsFollowed
  <1> QED
    BY <1>3, <1>4

LEMMA UserOK ==
  ASSUME ClientOK, User
  PROVE  ClientOK'
  BY PanelStepOK, NewTaskOK, SelectHistoryTaskOK, LeavePageOK, ReturnToPageOK DEF User

-----------------------------------------------------------------------------
(* The views, the budget, and the whole                                    *)

RatingOK ==
  /\ DOMAIN rating = {"key", "stars", "manual", "ticket", "sent"}
  /\ rating.stars \in BOOLEAN /\ rating.sent \in BOOLEAN
  /\ rating.manual \in {"none", "unrated", "rated"}

BudgetOK == left \in [Doings -> Nat]

PageOK == ServerOK /\ ClientOK /\ RatingOK /\ BudgetOK

LEMMA SpendOK ==
  ASSUME BudgetOK, NEW d, Spend(d)
  PROVE  BudgetOK'
  <1>1. left \in [Doings -> Nat] /\ left[d] > 0 /\ left' = [left EXCEPT ![d] = @ - 1]
    BY DEF BudgetOK, Spend
  <1>2. ASSUME NEW e \in Doings
        PROVE  left'[e] \in Nat
    BY <1>1
  <1> QED
    BY <1>1, <1>2 DEF BudgetOK

LEMMA ViewFollowsOK ==
  ASSUME RatingOK, ViewFollows
  PROVE  RatingOK'
  <1>1. ASSUME NEW key
        PROVE  /\ DOMAIN FreshView(key) = {"key", "stars", "manual", "ticket", "sent"}
               /\ FreshView(key).stars \in BOOLEAN /\ FreshView(key).sent \in BOOLEAN
               /\ FreshView(key).manual \in {"none", "unrated", "rated"}
    BY DEF FreshView, NoView
  <1>2. rating' = rating \/ \E key : rating' = FreshView(key)
    BY DEF ViewFollows
  <1> HIDE DEF FreshView
  <1> QED
    BY <1>1, <1>2 DEF RatingOK

LEMMA BudgetStep ==
  ASSUME BudgetOK, User \/ WorkerSteps \/ Timers \/ \E m \in net : Serve(m) \/ Lose(m) \/ Deliver(m)
  PROVE  BudgetOK'
  <1>1. CASE User
    <2>1. left' = left \/ \E d : Spend(d)
      BY <1>1 DEF User, Submit, NewTask, OpenHistory, CloseHistory, SaveEdit, AnswerDelete,
         SelectHistoryTask, StartEdit, AskDelete, ToggleBase, LeavePage, ReturnToPage
    <2> QED
      BY <2>1, SpendOK DEF BudgetOK
  <1>2. CASE WorkerSteps \/ Timers \/ \E m \in net : Serve(m) \/ Lose(m) \/ Deliver(m)
    <2>1. left' = left \/ \E d : Spend(d)
      BY <1>2 DEF WorkerSteps, Timers, TimePasses, TimerFires, Serve, Lose, Deliver
    <2> QED
      BY <2>1, SpendOK DEF BudgetOK
  <1> QED
    BY <1>1, <1>2

LEMMA ClientKept ==
  ASSUME ClientOK, UNCHANGED <<selected, listing, store, poller, net, page, panel>>
  PROVE  ClientOK'
  BY UnchangedOK, NetOK DEF ClientOK

LEMMA PageStep ==
  ASSUME ServerOK, ClientOK,
         User \/ WorkerSteps \/ Timers \/ \E m \in net : Serve(m) \/ Lose(m) \/ Deliver(m)
  PROVE  ServerOK' /\ ClientOK'
  <1>1. CASE User
    <2>1. UNCHANGED server
      BY <1>1 DEF User, Submit, NewTask, OpenHistory, CloseHistory, SaveEdit, AnswerDelete,
         SelectHistoryTask, StartEdit, AskDelete, ToggleBase, LeavePage, ReturnToPage
    <2> QED
      BY <1>1, <2>1, UserOK, ServerKept
  <1>2. CASE WorkerSteps
    BY <1>2, WorkOK, ClientKept DEF WorkerSteps
  <1>3. CASE Timers
    <2>1. UNCHANGED server
      BY <1>3 DEF Timers, TimePasses, TimerFires
    <2> QED
      BY <1>3, <2>1, TimerFiresOK, TimePassesOK, ServerKept DEF Timers
  <1>4. ASSUME NEW m \in net, Serve(m)
        PROVE  ServerOK' /\ ClientOK'
    BY <1>4, ServeOK
  <1>5. ASSUME NEW m \in net, Lose(m) \/ Deliver(m)
        PROVE  ServerOK' /\ ClientOK'
    <2>1. UNCHANGED server
      BY <1>5 DEF Lose, Deliver
    <2> QED
      BY <1>5, <2>1, LoseOK, DeliverOK, ServerKept
  <1> QED
    BY <1>1, <1>2, <1>3, <1>4, <1>5

\* The user rates: only the view, the budget and one request change.
LEMMA RateStep ==
  ASSUME PageOK,
         \/ Rate \/ AddManualDemand \/ TouchManualDemand
         \/ SubmitDemands \/ SubmitInnovations \/ SubmitPatents \/ SubmitSolutions
         \/ SubmitEvaluation
  PROVE  PageOK'
  <1>1. RestOfPage' = RestOfPage
    BY DEF Rate, AddManualDemand, TouchManualDemand, SubmitDemands, SubmitInnovations,
           SubmitPatents, SubmitSolutions, SubmitEvaluation, Send
  <1>2. ServerOK'
    BY <1>1, ServerKept DEF PageOK, RestOfPage
  <1>3. /\ left' = left \/ \E d : Spend(d)
        /\ \/ net' = net
           \/ net' = With(net, "proceed", selected) /\ ViewIsRendered
        /\ \/ rating' = [rating EXCEPT !.stars = TRUE]
           \/ \E k \in {"none", "unrated", "rated"} : rating' = [rating EXCEPT !.manual = k]
           \/ \E k : rating' = [rating EXCEPT !.ticket = k]
    BY DEF Rate, AddManualDemand, TouchManualDemand, SubmitDemands, SubmitInnovations,
           SubmitPatents, SubmitSolutions, SubmitEvaluation, Send, Shows, DemandForm,
           ProblemForm, PatentForm, SolutionForm, EvaluationForm
  <1>4. BudgetOK'
    BY <1>3, SpendOK DEF PageOK, BudgetOK
  <1>5. RatingOK'
    BY <1>3 DEF PageOK, RatingOK
  <1>6. AllOK(net') /\ KeepsPolls(net')
    <2>1. CASE net' = net
      BY <2>1, UnchangedOK DEF PageOK, ClientOK
    <2>2. CASE net' = With(net, "proceed", selected) /\ ViewIsRendered
      BY <2>2, WithKeeps DEF PageOK, ClientOK, PlaceOK, Kinds, ViewIsRendered
    <2> QED
      BY <1>3, <2>1, <2>2
  <1>7. ClientOK'
    BY <1>1, <1>6, NetOK DEF PageOK, RestOfPage
  <1> QED
    BY <1>2, <1>4, <1>5, <1>7 DEF PageOK

LEMMA ProceedRefusedOK ==
  ASSUME PageOK, NEW m \in net, ProceedRefused(m)
  PROVE  PageOK'
  <1>1. /\ m.kind = "proceed" /\ net' = Received(m)
        /\ rating' = rating \/ rating' = [rating EXCEPT !.ticket = <<>>]
        /\ UNCHANGED <<server, selected, listing, store, poller, page, panel, left>>
    BY DEF ProceedRefused
  <1>2. AllOK(net') /\ KeepsPolls(net')
    BY <1>1, ReceivedOK DEF PageOK, ClientOK
  <1>3. RatingOK' /\ BudgetOK'
    BY <1>1 DEF PageOK, RatingOK, BudgetOK
  <1> QED
    BY <1>1, <1>2, <1>3, NetOK, ServerKept DEF PageOK

LEMMA InitOK ==
  ASSUME Init
  PROVE  PageOK
  <1>1. PICK s \in Scenarios : ServerInit(s.progress) /\ left = s.doings
    BY DEF Init
  <1>2. ServerOK /\ BudgetOK
    BY <1>1, ServerInitOK, PageAssumption DEF BudgetOK
  <1>3. PlaceOK /\ StoreOK /\ PollerOK /\ PanelOK /\ AllOK(net) /\ Chain
    BY DEF Init, PlaceOK, StoreOK, PollerOK, PanelOK, ClosedPanel, AllOK, Chain, TaskStatuses
  <1>4. RunningIsFollowed /\ RatingOK
    BY DEF Init, RunningIsFollowed, Nowhere, NoFlow, RatingOK, NoView
  <1> QED
    BY <1>2, <1>3, <1>4 DEF PageOK, ClientOK

LEMMA StepOK ==
  ASSUME PageOK, [Next]_vars
  PROVE  PageOK'
  <1>1. CASE UNCHANGED vars
    <2>1. /\ UNCHANGED server /\ UNCHANGED <<selected, listing, store, poller, net, page, panel>>
          /\ rating' = rating /\ left' = left
      BY <1>1 DEF vars, client
    <2> QED
      BY <2>1, ServerKept, ClientKept DEF PageOK, RatingOK, BudgetOK
  <1>2. CASE /\ User \/ WorkerSteps \/ Timers \/ \E m \in net : Serve(m) \/ Lose(m) \/ Deliver(m)
             /\ ViewFollows
    BY <1>2, PageStep, BudgetStep, ViewFollowsOK DEF PageOK
  <1> QED
    BY <1>1, <1>2, RateStep, ProceedRefusedOK DEF Next

\* Every step of the users, the workers, the network and the server keeps the
\* invariant.
THEOREM PageIsSound == Spec => []PageOK
  BY InitOK, StepOK, PTL DEF Spec

\* Every variable has its type: what is read from the rows and from answers is
\* a workflow, and a poll is always for a task.
THEOREM TypeCorrect == Spec => []TypeOK
  <1>1. PageOK => TypeOK
    BY DEF PageOK, ServerOK, ClientOK, PlaceOK, StoreOK, PollerOK, PanelOK, AllOK, RequestOK,
           RatingOK, BudgetOK, TypeOK
  <1> QED
    BY <1>1, PageIsSound, PTL

\* A task that says it is analysed has a worker that will say otherwise, or a
\* cancellation that will (trigger_analysis, cancel_analysis, _cleanup_task).
THEOREM AnalysesHaveWorkers == Spec => []AnalyzingHasWorker
  <1>1. PageOK => AnalyzingHasWorker
    BY DEF PageOK, ServerOK, AnalyzingHasPortrait, PortraitAhead, AnalyzingHasWorker
  <1> QED
    BY <1>1, PageIsSound, PTL

\* A task that is polled has a request under way or a timer that will send one
\* (startPolling, stopPolling).
THEOREM PollingGoesOn == Spec => []ChainAlive
  <1>1. PageOK => ChainAlive
    BY DEF PageOK, ClientOK, Chain, ChainAlive
  <1> QED
    BY <1>1, PageIsSound, PTL

\* A workflow that is shown as running is polled, is being read again, or the
\* user was told that it takes too long (fetchWorkflow, startPolling).
THEOREM RunningTasksAreFollowed == Spec => []RunningIsFollowed
  <1>1. PageOK => RunningIsFollowed
    BY DEF PageOK, ClientOK
  <1> QED
    BY <1>1, PageIsSound, PTL

-----------------------------------------------------------------------------
(* Ratings and pauses                                                      *)

\* What a step has that is completed; a pause has a result to rate: not the
\* last agent's alone, and not the rated portrait alone.
SoundFlow(f) ==
  /\ f.status = "none" => f.rated = {}
  /\ \A a \in Agents : f.steps[a] = "completed" => f.out[a] # "none"
  /\ \A a \in Agents : f.out[a] = "diagram" => a = "agent2"
  /\ f.steps["agent5"] \in {"pending", "completed"}
  /\ f.status = "awaiting_rating" =>
       \/ f.steps["agent1"] = "completed" /\ "agent1" \notin f.rated
       \/ \E a \in {"agent2", "agent5", "agent3", "agent4"} : f.steps[a] = "completed"

\* The innovations are rated, and the search that follows has no result yet.
Overtaken(f) ==
  /\ "agent2" \in f.rated
  /\ f.steps["agent2"] = "completed"
  /\ f.steps["agent5"] # "completed"

LEMMA StepIsSound ==
  ASSUME NEW f \in Flow, SoundFlow(f), NEW a \in Agents \ {"agent5"}, NEW s \in {"running", "failed"}
  PROVE  LET g == WithStep(f, a, s)
         IN /\ SoundFlow(g)
            /\ Overtaken(g) => Overtaken(f)
            /\ g.steps = [f.steps EXCEPT ![a] = s]
            /\ g.status \notin {"none", "awaiting_rating"}
  <1> DEFINE g == WithStep(f, a, s)
  <1>1. /\ g.steps = [f.steps EXCEPT ![a] = s] /\ g.out = f.out /\ g.rated = f.rated
        /\ g.status \notin {"none", "awaiting_rating"}
    BY DEF WithStep, StatusOf, Flow
  <1>2. \A b \in Agents : g.steps[b] = IF b = a THEN s ELSE f.steps[b]
    BY <1>1 DEF Flow
  <1> HIDE DEF g
  <1>3. SoundFlow(g)
    BY <1>1, <1>2, AgentNames DEF SoundFlow
  <1>4. Overtaken(g) => Overtaken(f)
    BY <1>1, <1>2, AgentNames DEF Overtaken
  <1> QED
    BY <1>1, <1>3, <1>4 DEF g

\* A result that is awaited is one to rate, unless it is the last agent's.
LEMMA ResultsAreSound ==
  ASSUME NEW f \in Flow, SoundFlow(f), NEW a \in Agents, NEW g \in Results(f, a)
  PROVE  LET h == [g EXCEPT !.status = "awaiting_rating"]
         IN /\ SoundFlow(g) /\ (a # "agent6" => SoundFlow(h))
            /\ Overtaken(g) \/ Overtaken(h) => Overtaken(f)
            /\ h.steps = [f.steps EXCEPT ![a] = "completed"]
            /\ g.status # "none" /\ h.status # "none"
  <1> DEFINE h == [g EXCEPT !.status = "awaiting_rating"]
  <1>1. PICK o \in {"nothing", "list"} \cup (IF a = "agent2" THEN {"diagram"} ELSE {}) :
          g = [WithStep(f, a, "completed") EXCEPT !.out[a] = o, !.rated = @ \ {a}]
    BY DEF Results
  <1>2. /\ g.steps = [f.steps EXCEPT ![a] = "completed"]
        /\ g.out = [f.out EXCEPT ![a] = o]
        /\ g.rated = f.rated \ {a}
        /\ g.status \notin {"none", "awaiting_rating"}
    BY <1>1 DEF WithStep, StatusOf, Flow
  <1>3. /\ h.steps = g.steps /\ h.out = g.out /\ h.rated = g.rated
        /\ h.status = "awaiting_rating"
    <2>1. g \in Flow
      BY ResultsAreFlows
    <2> QED
      BY <2>1 DEF Flow
  <1> HIDE DEF h
  <1>4. \A b \in Agents : /\ g.steps[b] = IF b = a THEN "completed" ELSE f.steps[b]
                          /\ g.out[b] = IF b = a THEN o ELSE f.out[b]
    BY <1>2 DEF Flow
  <1>5. SoundFlow(g) /\ (a # "agent6" => SoundFlow(h))
    <2>1. SoundFlow(g)
      BY <1>1, <1>2, <1>4, AgentNames DEF SoundFlow
    <2>2. a # "agent6" => \/ g.steps["agent1"] = "completed" /\ "agent1" \notin g.rated
                          \/ \E b \in {"agent2", "agent5", "agent3", "agent4"} :
                               g.steps[b] = "completed"
      BY <1>2, <1>4, AgentNames
    <2> QED
      BY <1>3, <2>1, <2>2 DEF SoundFlow
  <1>6. Overtaken(g) \/ Overtaken(h) => Overtaken(f)
    BY <1>2, <1>3, <1>4, AgentNames DEF Overtaken
  <1> QED
    BY <1>2, <1>3, <1>5, <1>6 DEF h

LEMMA RecoveredIsSound ==
  ASSUME NEW f \in Flow, SoundFlow(f), NEW from
  PROVE  LET g == Recovered(f, from)
         IN /\ SoundFlow(g)
            /\ Overtaken(g) => Overtaken(f)
            /\ g.status = f.status
  <1> DEFINE g == Recovered(f, from)
  <1>1. /\ g.out = f.out /\ g.rated = f.rated /\ g.status = f.status
        /\ \A b \in Agents : g.steps[b] = IF f.steps[b] = "running" /\ b # from THEN "pending"
                                                                              ELSE f.steps[b]
    BY DEF Recovered, Flow
  <1> HIDE DEF g
  <1>2. SoundFlow(g)
    BY <1>1, AgentNames DEF SoundFlow
  <1>3. Overtaken(g) => Overtaken(f)
    BY <1>1, AgentNames DEF Overtaken
  <1> QED
    BY <1>1, <1>2, <1>3 DEF g

\* The ratings are in the last result: it was not agent2's if the search has one.
LEMMA RatedIsSound ==
  ASSUME NEW f \in Flow, SoundFlow(f), f.status = "awaiting_rating"
  PROVE  LET g == Rated(f)
             h == [g EXCEPT !.status = "running"]
         IN /\ Unfinished(g) = {} => SoundFlow(g) /\ ~Overtaken(g)
            /\ SoundFlow(h)
            /\ g.status = f.status /\ g.steps = f.steps /\ h.steps = f.steps
            /\ h.status = "running"
  <1> DEFINE g == Rated(f)
             h == [g EXCEPT !.status = "running"]
  <1>1. /\ g \in Flow /\ g.status = f.status /\ g.steps = f.steps /\ g.out = f.out
    BY RatedIsFlow DEF Rated, Flow
  <1> HIDE DEF g
  <1>2. h.steps = f.steps /\ h.out = f.out /\ h.status = "running"
    BY <1>1 DEF Flow
  <1> HIDE DEF h
  <1>3. SoundFlow(h)
    BY <1>1, <1>2 DEF SoundFlow
  <1>4. ASSUME Unfinished(g) = {}
        PROVE  SoundFlow(g) /\ ~Overtaken(g)
    <2>1. g.steps["agent5"] = "completed"
      BY <1>1, <1>4, AgentNames DEF Unfinished, SoundFlow
    <2> QED
      BY <1>1, <2>1 DEF SoundFlow, Overtaken
  <1> QED
    BY <1>1, <1>2, <1>3, <1>4 DEF g, h

LEMMA OthersAreSound ==
  /\ SoundFlow(NoFlow) /\ ~Overtaken(NoFlow)
  /\ LET f == [NoFlow EXCEPT !.status = "idle"]
     IN SoundFlow(f) /\ ~Overtaken(f) /\ f.status = "idle"
  BY AgentNames DEF NoFlow, SoundFlow, Overtaken

LEMMA ReachedIsSound ==
  ASSUME NEW n \in 0 .. Len(Order), NEW failed \in BOOLEAN, failed => n \notin {2, 5, 6}
  PROVE  SoundFlow(Reached(n, failed)) /\ ~Overtaken(Reached(n, failed))
  <1> DEFINE f == Reached(n, failed)
  <1>1. n \in 0 .. 6 /\ Len(Order) = 6 /\ Order[1] = "agent1" /\ Order[2] = "agent2"
    BY DEF Order
  <1>2. /\ f.status = "awaiting_rating" => ~failed /\ n \in 1 .. 5
        /\ f.status = "none" => ~failed /\ n = 0
        /\ \A a \in Agents : f.steps[a] = "completed" <=> Place(a) <= n
        /\ \A a \in Agents : f.steps[a] = "failed" => failed /\ Place(a) = n + 1
        /\ \A a \in Agents : f.steps[a] \in {"completed", "failed", "pending"}
        /\ \A a \in Agents : f.out[a] = IF Place(a) <= n THEN "list" ELSE "none"
    BY <1>1 DEF Reached
  <1>3. f.rated = {Order[k] : k \in {1, 2} \cap 1 .. (IF failed THEN n ELSE n - 1)}
    BY DEF Reached
  <1>4. /\ "agent1" \in f.rated => n >= 2 \/ failed
        /\ "agent2" \in f.rated => n >= 3
        /\ f.rated # {} => n >= 1
    BY <1>1, <1>3
  <1> HIDE DEF f
  <1>5. SoundFlow(f)
    <2>1. f.status = "none" => f.rated = {}
      BY <1>2, <1>4
    <2>2. f.steps["agent5"] \in {"pending", "completed"}
      BY <1>1, <1>2, Places, AgentNames
    <2>3. f.status = "awaiting_rating" =>
            \/ f.steps["agent1"] = "completed" /\ "agent1" \notin f.rated
            \/ f.steps["agent2"] = "completed"
      BY <1>1, <1>2, <1>4, Places, AgentNames
    <2>4. \A a \in Agents : f.steps[a] = "completed" => f.out[a] # "none"
      BY <1>2
    <2>5. \A a \in Agents : f.out[a] = "diagram" => a = "agent2"
      BY <1>2
    <2> QED
      BY <2>1, <2>2, <2>3, <2>4, <2>5 DEF SoundFlow
  <1>6. ~Overtaken(f)
    BY <1>1, <1>2, <1>4, Places, AgentNames DEF Overtaken
  <1> QED
    BY <1>5, <1>6 DEF f

-----------------------------------------------------------------------------
(* The lock, while nothing is cancelled                                    *)

FlowsOK == \A t \in Tasks : SoundFlow(wf[t])

NoOvertaking == \A t \in Tasks : Overtaken(wf'[t]) => Overtaken(wf[t])

\* A worker that was started for a later agent and has not begun.
Ahead(t) ==
  \E w \in Workers : worker[w].at = "new" /\ worker[w].task = t /\ worker[w].from # "agent1"

\* The agents that are waited for under the lock.
Late == {"agent2", "agent3", "agent4", "agent6"}

Uncancelled == cancelling = {} /\ \A w \in Workers : ~worker[w].cancelled

\* The lock is held by the one worker of a later agent; while it waits, the
\* second step runs or the search has its result.
LockOK ==
  /\ \A w \in Workers : worker[w].at \in Late => worker[w].task \in lock
  /\ \A v, w \in Workers :
       worker[v].at \in Late /\ worker[w].at \in Late /\ worker[v].task = worker[w].task => v = w
  /\ \A t \in lock : \E w \in Workers : worker[w].at \in Late /\ worker[w].task = t

Stands(t, at) == IF at = "agent2" THEN wf[t].steps["agent2"] = "running"
                                  ELSE wf[t].steps["agent5"] = "completed"

LateStands ==
  \A w \in Workers : worker[w].at \in Late /\ HasFlow(worker[w].task) =>
    Stands(worker[w].task, worker[w].at)

\* What is not deleted has its row as long as somebody works for it.
LiveHasFlow ==
  \A w \in Workers : Alive(w) => HasFlow(worker[w].task) \/ task[worker[w].task] = "deleted"

Locked ==
  /\ Uncancelled /\ LockOK /\ LateStands /\ LiveHasFlow
  /\ \A t \in Tasks : Overtaken(wf[t]) => Ahead(t)

LEMMA PutIsSound ==
  ASSUME ServerTypeOK, FlowsOK, NEW t \in Tasks, NEW f, PutFlow(t, f), f \in Flow,
         SoundFlow(f), f.status # "none", Overtaken(f) => Overtaken(wf[t])
  PROVE  /\ FlowsOK' /\ NoOvertaking
         /\ \A u \in Tasks : (HasFlow(u)' <=> HasFlow(u)) /\ (u # t => wf'[u] = wf[u])
         /\ wf'[t] = IF HasFlow(t) THEN f ELSE wf[t]
  BY DEF ServerTypeOK, FlowsOK, NoOvertaking, PutFlow, HasFlow

LEMMA AwaitIsSound ==
  ASSUME ServerTypeOK, FlowsOK, NEW t \in Tasks, NEW f \in Flow, SoundFlow(f),
         NEW a \in Agents \ {"agent6"}, NEW g \in Results(f, a), Await(t, g),
         Overtaken(f) => Overtaken(wf[t])
  PROVE  /\ FlowsOK' /\ NoOvertaking
         /\ \A u \in Tasks : (HasFlow(u)' <=> HasFlow(u)) /\ (u # t => wf'[u] = wf[u])
         /\ \/ wf'[t] = wf[t] /\ ~HasFlow(t)
            \/ wf'[t].steps = [f.steps EXCEPT ![a] = "completed"]
  <1> DEFINE h == [g EXCEPT !.status = "awaiting_rating"]
  <1>1. PutFlow(t, h)
    BY DEF Await
  <1>2. h \in Flow
    BY ResultsAreFlows, NewStatus DEF FlowStatuses
  <1>3. /\ SoundFlow(h)
        /\ Overtaken(h) => Overtaken(f)
        /\ h.steps = [f.steps EXCEPT ![a] = "completed"]
        /\ h.status # "none"
    BY ResultsAreSound
  <1> HIDE DEF h
  <1> QED
    BY <1>1, <1>2, <1>3, PutIsSound

\* What a deleted task is said to be is not overwritten.
LEMMA DeletedStays ==
  ASSUME NEW t, NEW s, PutTask(t, s), ServerTypeOK
  PROVE  \A u \in Tasks : task[u] = "deleted" => task'[u] = "deleted"
  BY DEF PutTask, Exists, ServerTypeOK

LEMMA EndKeepsLock ==
  ASSUME ServerOK, Locked, NEW w \in Workers, Alive(w), Ends(w), UNCHANGED cancelling,
         lock' = lock \ (IF worker[w].at \in Late THEN {worker[w].task} ELSE {}),
         \A u \in Tasks : task[u] = "deleted" => task'[u] = "deleted",
         \A u \in Tasks : HasFlow(u)' <=> HasFlow(u),
         \A u \in Tasks :
            \/ \A a \in {"agent2", "agent5"} : wf'[u].steps[a] = wf[u].steps[a]
            \/ u = worker[w].task /\ (worker[w].at \in Late \/ u \notin lock),
         \A u \in Tasks : Overtaken(wf'[u]) =>
            /\ Overtaken(wf[u])
            /\ u = worker[w].task => worker[w].at # "new" \/ worker[w].from = "agent1"
  PROVE  Locked'
  <1>1. /\ \A v \in Workers \ {w} : worker'[v] = worker[v]
        /\ worker'[w].at = "ended" /\ worker'[w].cancelled = FALSE
    BY DEF Ends, Asleep, ServerOK, ServerTypeOK
  <1>2. Uncancelled'
    BY <1>1 DEF Locked, Uncancelled
  <1>3. "ended" \notin Late
    BY DEF Late
  <1>4. \A v \in Workers : worker'[v].at \in Late =>
           v # w /\ worker'[v] = worker[v] /\ worker[v].task \in lock /\ Alive(v)
           /\ worker[v].task \in Tasks
    BY <1>1, <1>3 DEF Locked, LockOK, Late, Alive, ServerOK, WorkersAreOfTasks
  <1>5. \A v \in Workers : worker'[v].at \in Late => worker'[v].task \in lock'
    BY <1>4 DEF Locked, LockOK
  <1>6. \A v, x \in Workers :
          worker'[v].at \in Late /\ worker'[x].at \in Late /\ worker'[v].task = worker'[x].task => v = x
    BY <1>4 DEF Locked, LockOK
  <1>7. \A t \in lock' : \E v \in Workers : worker'[v].at \in Late /\ worker'[v].task = t
    BY <1>1 DEF Locked, LockOK
  <1>8. ASSUME NEW v \in Workers, worker'[v].at \in Late, HasFlow(worker[v].task)'
        PROVE  Stands(worker[v].task, worker[v].at)'
    <2>1. /\ v # w /\ worker'[v] = worker[v] /\ worker[v].task \in lock
          /\ worker[v].task \in Tasks
      BY <1>4, <1>8
    <2>2. worker[w].task = worker[v].task => worker[w].at \notin Late
      BY <2>1, <1>8 DEF Locked, LockOK
    <2>3. \A a \in {"agent2", "agent5"} : wf'[worker[v].task].steps[a] = wf[worker[v].task].steps[a]
      BY <2>1, <2>2
    <2>4. HasFlow(worker[v].task)
      BY <1>8, <2>1
    <2> QED
      BY <1>8, <2>1, <2>3, <2>4 DEF Locked, LateStands, Stands
  <1>9. \A v \in Workers : Alive(v)' => HasFlow(worker[v].task)' \/ task'[worker'[v].task] = "deleted"
    <2> SUFFICES ASSUME NEW v \in Workers, Alive(v)'
                 PROVE  HasFlow(worker[v].task)' \/ task'[worker'[v].task] = "deleted"
      OBVIOUS
    <2>1. v # w /\ worker'[v] = worker[v] /\ Alive(v)
      BY <1>1 DEF Alive
    <2>2. worker[v].task \in Tasks
      BY <2>1 DEF ServerOK, WorkersAreOfTasks
    <2> QED
      BY <2>1, <2>2 DEF Locked, LiveHasFlow
  <1>10. LockOK' /\ LateStands' /\ LiveHasFlow'
    BY <1>5, <1>6, <1>7, <1>8, <1>9 DEF LockOK, LateStands, LiveHasFlow
  <1>11. \A t \in Tasks : Overtaken(wf'[t]) => Ahead(t)'
    BY <1>1 DEF Locked, Ahead
  <1> QED
    BY <1>2, <1>10, <1>11 DEF Locked

LEMMA StartKeepsLock ==
  ASSUME ServerOK, Locked, NEW t \in Tasks, NEW a \in Agents, Start(t, a),
         UNCHANGED <<cancelling, lock>>, Exists(t),
         \A u \in Tasks : task[u] = "deleted" => task'[u] = "deleted",
         HasFlow(t)', \A u \in Tasks \ {t} : wf'[u] = wf[u],
         HasFlow(t) => wf'[t].steps = wf[t].steps,
         \A u \in Tasks : Overtaken(wf'[u]) => Overtaken(wf[u]) \/ (u = t /\ a # "agent1")
  PROVE  Locked'
  <1>1. PICK w \in Workers :
          /\ worker[w].at = "unborn"
          /\ worker' = [worker EXCEPT ![w] = [task |-> t, from |-> a, at |-> "new",
                                              cancelled |-> FALSE]]
    BY DEF Start
  <1>2. /\ \A v \in Workers \ {w} : worker'[v] = worker[v]
        /\ worker'[w].at = "new" /\ worker'[w].cancelled = FALSE
        /\ worker'[w].task = t /\ worker'[w].from = a
    BY <1>1 DEF ServerOK, ServerTypeOK
  <1>3. Uncancelled'
    BY <1>2 DEF Locked, Uncancelled
  <1>4. "new" \notin Late /\ "unborn" \notin Late
    BY DEF Late
  <1>5. \A v \in Workers : worker'[v].at \in Late => 
           v # w /\ worker'[v] = worker[v] /\ Alive(v) /\ worker[v].task \in Tasks
    BY <1>2, <1>4 DEF Late, Alive, ServerOK, WorkersAreOfTasks
  <1>6. \A v \in Workers : Alive(v) /\ worker[v].task = t => HasFlow(t)
    BY DEF Locked, LiveHasFlow, Exists
  <1>7. ASSUME NEW v \in Workers, worker'[v].at \in Late, HasFlow(worker[v].task)'
        PROVE  Stands(worker[v].task, worker[v].at)'
    <2>1. worker'[v] = worker[v] /\ Alive(v) /\ worker[v].task \in Tasks
      BY <1>5, <1>7
    <2>2. HasFlow(worker[v].task) /\ wf'[worker[v].task].steps = wf[worker[v].task].steps
      BY <1>6, <1>7, <2>1 DEF HasFlow
    <2> QED
      BY <1>7, <2>1, <2>2 DEF Locked, LateStands, Stands
  <1>8. ASSUME NEW v \in Workers, Alive(v)'
        PROVE  HasFlow(worker[v].task)' \/ task'[worker'[v].task] = "deleted"
    <2>1. CASE v = w
      BY <2>1, <1>2
    <2>2. CASE v # w
      <3>1. worker'[v] = worker[v] /\ Alive(v) /\ worker[v].task \in Tasks
        BY <1>2, <1>8, <2>2 DEF Alive, ServerOK, WorkersAreOfTasks
      <3>2. HasFlow(worker[v].task) \/ task[worker[v].task] = "deleted"
        BY <3>1 DEF Locked, LiveHasFlow
      <3>3. HasFlow(worker[v].task) => HasFlow(worker[v].task)'
        BY <3>1 DEF HasFlow
      <3> QED
        BY <3>1, <3>2, <3>3
    <2> QED
      BY <2>1, <2>2
  <1>9. LockOK' /\ LateStands' /\ LiveHasFlow'
    <2>1. \A v \in Workers : worker'[v].at \in Late => worker'[v].task \in lock'
      BY <1>5 DEF Locked, LockOK
    <2>2. \A v, x \in Workers :
            worker'[v].at \in Late /\ worker'[x].at \in Late /\ worker'[v].task = worker'[x].task
              => v = x
      BY <1>5 DEF Locked, LockOK
    <2>3. \A u \in lock' : \E v \in Workers : worker'[v].at \in Late /\ worker'[v].task = u
      BY <1>1, <1>2, <1>4 DEF Locked, LockOK
    <2> QED
      BY <1>7, <1>8, <2>1, <2>2, <2>3 DEF LockOK, LateStands, LiveHasFlow
  <1>10. \A u \in Tasks : Overtaken(wf'[u]) => Ahead(u)'
    BY <1>1, <1>2, <1>4 DEF Locked, Ahead
  <1> QED
    BY <1>3, <1>9, <1>10 DEF Locked

-----------------------------------------------------------------------------
(* The steps of the server                                                 *)

ServerSound == FlowsOK' /\ NoOvertaking /\ (Locked => Locked')

LEMMA CreateTaskSound ==
  ASSUME ServerOK, FlowsOK, NEW t \in Tasks, CreateTask(t)
  PROVE  ServerSound
  <1>1. /\ UNCHANGED <<wf, worker, handle, lock, cancelling>>
        /\ \A u \in Tasks : task[u] = "deleted" => task'[u] = "deleted"
    BY DEF CreateTask, ServerOK, ServerTypeOK
  <1>2. FlowsOK' /\ NoOvertaking
    BY <1>1 DEF FlowsOK, NoOvertaking
  <1>3. ASSUME Locked PROVE Locked'
    <2>1. LiveHasFlow'
      BY <1>1, <1>3 DEF Locked, LiveHasFlow, Alive, HasFlow, ServerOK, WorkersAreOfTasks
    <2> QED
      BY <1>1, <1>3, <2>1 DEF Locked, Uncancelled, LockOK, LateStands, Stands, HasFlow, Ahead
  <1> QED
    BY <1>2, <1>3 DEF ServerSound

LEMMA TriggerSound ==
  ASSUME ServerOK, FlowsOK, NEW t \in Tasks, Trigger(t)
  PROVE  ServerSound
  <1> DEFINE f == [NoFlow EXCEPT !.status = "idle"]
  <1>1. /\ Exists(t) /\ task' = [task EXCEPT ![t] = "analyzing"]
        /\ wf' = IF HasFlow(t) THEN wf ELSE [wf EXCEPT ![t] = f]
        /\ Start(t, "agent1")
        /\ UNCHANGED <<lock, cancelling>>
    BY DEF Trigger
  <1>2. SoundFlow(f) /\ ~Overtaken(f) /\ f.status = "idle"
    BY OthersAreSound
  <1> HIDE DEF f
  <1>3. /\ FlowsOK' /\ NoOvertaking /\ HasFlow(t)'
        /\ \A u \in Tasks \ {t} : wf'[u] = wf[u]
        /\ HasFlow(t) => wf'[t] = wf[t]
    BY <1>1, <1>2 DEF FlowsOK, NoOvertaking, HasFlow, ServerOK, ServerTypeOK
  <1>4. \A u \in Tasks : task[u] = "deleted" => task'[u] = "deleted"
    BY <1>1 DEF Exists, ServerOK, ServerTypeOK
  <1>5. Locked => Locked'
    BY <1>1, <1>3, <1>4, StartKeepsLock, AgentNames DEF NoOvertaking
  <1> QED
    BY <1>3, <1>5 DEF ServerSound

LEMMA NextAgentIsLater ==
  ASSUME NEW f, Unfinished(f) # {}
  PROVE  NextAgent(f) \in Agents \ {"agent1"}
  BY FirstOfAgents DEF NextAgent, Unfinished

\* The only step that brings ratings brings the worker of the next agent.
LEMMA ProceedSound ==
  ASSUME ServerOK, FlowsOK, NEW t \in Tasks, Proceed(t)
  PROVE  FlowsOK' /\ (Locked => Locked')
  <1> DEFINE g == Rated(wf[t])
             h == [g EXCEPT !.status = "running"]
  <1>1. /\ wf[t] \in Flow /\ SoundFlow(wf[t]) /\ wf[t].status = "awaiting_rating"
        /\ Exists(t) /\ HasFlow(t)
    BY DEF Proceed, CanProceed, HasFlow, FlowsOK, ServerOK, ServerTypeOK
  <1>2. /\ Unfinished(g) = {} => SoundFlow(g) /\ ~Overtaken(g)
        /\ SoundFlow(h)
        /\ g.status = wf[t].status /\ g.steps = wf[t].steps /\ h.steps = wf[t].steps
        /\ h.status = "running"
    BY <1>1, RatedIsSound
  <1>3. /\ UNCHANGED <<task, lock, cancelling>>
        /\ IF Unfinished(g) = {}
           THEN wf' = [wf EXCEPT ![t] = g] /\ UNCHANGED <<worker, handle>>
           ELSE wf' = [wf EXCEPT ![t] = h] /\ Start(t, NextAgent(g))
    BY DEF Proceed
  <1> HIDE DEF g, h
  <1>4. CASE Unfinished(g) = {}
    <2>1. /\ wf'[t] = g /\ \A u \in Tasks \ {t} : wf'[u] = wf[u]
          /\ UNCHANGED <<task, worker, lock, cancelling>>
      BY <1>3, <1>4 DEF ServerOK, ServerTypeOK
    <2>2. FlowsOK'
      BY <1>2, <1>4, <2>1 DEF FlowsOK
    <2>3. \A u \in Tasks : (HasFlow(u)' <=> HasFlow(u)) /\ wf'[u].steps = wf[u].steps
      BY <1>2, <2>1 DEF HasFlow
    <2>4. \A u \in Tasks : Overtaken(wf'[u]) => Overtaken(wf[u])
      BY <1>2, <1>4, <2>1
    <2>5. ASSUME Locked PROVE Locked'
      <3>1. Uncancelled' /\ LockOK'
        BY <2>1, <2>5 DEF Locked, Uncancelled, LockOK
      <3>2. LateStands' /\ LiveHasFlow'
        BY <2>1, <2>3, <2>5, AgentNames
        DEF Locked, LateStands, Stands, LiveHasFlow, Alive, Late, ServerOK, WorkersAreOfTasks
      <3>3. \A u \in Tasks : Overtaken(wf'[u]) => Ahead(u)'
        BY <2>1, <2>4, <2>5 DEF Locked, Ahead
      <3> QED
        BY <3>1, <3>2, <3>3 DEF Locked
    <2> QED
      BY <2>2, <2>5
  <1>5. CASE Unfinished(g) # {}
    <2>1. NextAgent(g) \in Agents \ {"agent1"}
      BY <1>5, NextAgentIsLater
    <2>2. /\ wf'[t] = h /\ \A u \in Tasks \ {t} : wf'[u] = wf[u]
          /\ UNCHANGED <<task, lock, cancelling>> /\ Start(t, NextAgent(g))
      BY <1>3, <1>5 DEF ServerOK, ServerTypeOK
    <2>3. FlowsOK' /\ HasFlow(t)'
      BY <1>2, <2>2 DEF FlowsOK, HasFlow
    <2>4. Locked => Locked'
      BY <1>1, <1>2, <2>1, <2>2, <2>3, StartKeepsLock
    <2> QED
      BY <2>3, <2>4
  <1> QED
    BY <1>4, <1>5

LEMMA BeginCancelSound ==
  ASSUME FlowsOK, NEW t, BeginCancel(t)
  PROVE  FlowsOK' /\ NoOvertaking
  BY DEF FlowsOK, NoOvertaking, BeginCancel

\* A cancellation fails what runs, which is never the search for patents.
LEMMA EndCancelSound ==
  ASSUME ServerOK, FlowsOK, NEW t \in Tasks, EndCancel(t)
  PROVE  ServerSound
  <1> DEFINE busy  == {a \in Agents : wf[t].steps[a] = "running"}
             first == CHOOSE a \in busy : \A b \in busy : Place(a) <= Place(b)
             f     == [wf[t] EXCEPT !.status = "failed",
                         !.steps = IF busy = {} THEN @ ELSE [@ EXCEPT ![first] = "failed"]]
  <1>1. PutFlow(t, f) /\ t \in cancelling
    BY DEF EndCancel
  <1>2. wf[t] \in Flow /\ SoundFlow(wf[t])
    BY DEF FlowsOK, ServerOK, ServerTypeOK
  <1>3. busy # {} => first \in busy
    BY FirstOfAgents
  <1> HIDE DEF first
  <1>4. /\ f \in Flow /\ f.status = "failed" /\ f.out = wf[t].out /\ f.rated = wf[t].rated
        /\ f.steps = IF busy = {} THEN wf[t].steps ELSE [wf[t].steps EXCEPT ![first] = "failed"]
    BY <1>2 DEF Flow, FlowStatuses, StepStatuses
  <1> HIDE DEF f
  <1>5. \A a \in Agents : f.steps[a] = IF busy # {} /\ a = first THEN "failed" ELSE wf[t].steps[a]
    BY <1>2, <1>4 DEF Flow
  <1>6. busy # {} => wf[t].steps[first] = "running"
    BY <1>3
  <1> HIDE DEF busy
  <1>7. SoundFlow(f) /\ (Overtaken(f) => Overtaken(wf[t]))
    BY <1>2, <1>4, <1>5, <1>6, AgentNames DEF SoundFlow, Overtaken
  <1>8. FlowsOK' /\ NoOvertaking
    BY <1>1, <1>4, <1>7, PutIsSound DEF ServerOK
  <1> QED
    BY <1>1, <1>8 DEF ServerSound, Locked, Uncancelled

LEMMA DeleteTaskSound ==
  ASSUME ServerOK, FlowsOK, NEW t \in Tasks, DeleteTask(t)
  PROVE  ServerSound
  <1>1. /\ wf'[t] = NoFlow /\ \A u \in Tasks \ {t} : wf'[u] = wf[u]
        /\ task'[t] = "deleted" /\ \A u \in Tasks \ {t} : task'[u] = task[u]
        /\ UNCHANGED <<worker, lock, cancelling>>
    BY DEF DeleteTask, ServerOK, ServerTypeOK
  <1>2. FlowsOK' /\ NoOvertaking
    BY <1>1, OthersAreSound DEF FlowsOK, NoOvertaking
  <1>3. ~HasFlow(t)'
    BY <1>1 DEF HasFlow, NoFlow
  <1>4. ASSUME Locked PROVE Locked'
    <2>1. Uncancelled' /\ LockOK'
      BY <1>1, <1>4 DEF Locked, Uncancelled, LockOK
    <2>2. LateStands'
      BY <1>1, <1>3, <1>4 DEF Locked, LateStands, Stands, HasFlow, Late, Alive, ServerOK,
                              WorkersAreOfTasks
    <2>3. LiveHasFlow'
      BY <1>1, <1>4 DEF Locked, LiveHasFlow, HasFlow, Alive, ServerOK, WorkersAreOfTasks
    <2>4. \A u \in Tasks : Overtaken(wf'[u]) => Ahead(u)'
      BY <1>1, <1>2, <1>4 DEF Locked, Ahead, NoOvertaking
    <2> QED
      BY <2>1, <2>2, <2>3, <2>4 DEF Locked
  <1> QED
    BY <1>2, <1>4 DEF ServerSound

LEMMA WorkerCancelledSound ==
  ASSUME FlowsOK, NEW w \in Workers, WorkerCancelled(w)
  PROVE  ServerSound
  BY DEF ServerSound, FlowsOK, NoOvertaking, WorkerCancelled, Locked, Uncancelled

LEMMA BeginPortraitSound ==
  ASSUME ServerOK, FlowsOK, NEW w \in Workers, BeginPortrait(w)
  PROVE  ServerSound
  <1> DEFINE t == worker[w].task
             f == WithStep(wf[t], "agent1", "running")
  <1>1. /\ Alive(w) /\ Waits(w, "agent1") /\ PutFlow(t, f) /\ UNCHANGED <<task, lock, cancelling>>
        /\ worker[w].at = "new" /\ worker[w].from = "agent1"
    BY DEF BeginPortrait, Alive
  <1>2. t \in Tasks
    BY <1>1 DEF ServerOK, WorkersAreOfTasks
  <1>3. wf[t] \in Flow /\ SoundFlow(wf[t]) /\ f \in Flow
    BY <1>2, StepKeepsFlow DEF FlowsOK, ServerOK, ServerTypeOK, StepStatuses
  <1>4. /\ SoundFlow(f) /\ (Overtaken(f) => Overtaken(wf[t]))
        /\ f.steps = [wf[t].steps EXCEPT !["agent1"] = "running"] /\ f.status # "none"
    BY <1>3, StepIsSound, AgentNames
  <1> HIDE DEF f
  <1>5. /\ FlowsOK' /\ NoOvertaking
        /\ \A u \in Tasks : (HasFlow(u)' <=> HasFlow(u)) /\ (u # t => wf'[u] = wf[u])
        /\ wf'[t] = IF HasFlow(t) THEN f ELSE wf[t]
    BY <1>1, <1>2, <1>3, <1>4, PutIsSound DEF ServerOK
  <1>6. \A u \in Tasks : /\ wf'[u].steps["agent2"] = wf[u].steps["agent2"]
                         /\ wf'[u].steps["agent5"] = wf[u].steps["agent5"]
    BY <1>2, <1>3, <1>4, <1>5, AgentNames DEF Flow
  <1>7. /\ worker'[w] = [worker[w] EXCEPT !.at = "agent1"]
        /\ \A v \in Workers \ {w} : worker'[v] = worker[v]
    BY <1>1 DEF Waits, ServerOK, ServerTypeOK
  <1>8. /\ worker'[w].at = "agent1" /\ worker'[w].task = t /\ worker'[w].from = "agent1"
        /\ worker'[w].cancelled = worker[w].cancelled
    BY <1>1, <1>7 DEF ServerOK, ServerTypeOK
  <1> HIDE DEF t
  <1>9. \A v \in Workers : worker'[v].at \in Late =>
          v # w /\ worker'[v] = worker[v] /\ worker[v].task \in Tasks
    BY <1>7, <1>8 DEF Late, Alive, ServerOK, WorkersAreOfTasks
  <1>10. \A v \in Workers : worker[v].at \in Late => v # w /\ worker'[v] = worker[v]
    BY <1>1, <1>7 DEF Late
  <1>11. ASSUME Locked PROVE Locked'
    <2>1. Uncancelled'
      BY <1>1, <1>7, <1>8, <1>11 DEF Locked, Uncancelled
    <2>2. LockOK'
      BY <1>1, <1>9, <1>10, <1>11 DEF Locked, LockOK
    <2>3. LateStands'
      <3> SUFFICES ASSUME NEW v \in Workers, (worker[v].at \in Late)', HasFlow(worker[v].task)'
                   PROVE  Stands(worker[v].task, worker[v].at)'
        BY DEF LateStands
      <3>1. worker'[v] = worker[v] /\ worker[v].task \in Tasks /\ HasFlow(worker[v].task)
        BY <1>5, <1>9
      <3> QED
        BY <1>6, <1>11, <3>1 DEF Locked, LateStands, Stands
    <2>4. LiveHasFlow'
      <3> SUFFICES ASSUME NEW v \in Workers, Alive(v)'
                   PROVE  (HasFlow(worker[v].task) \/ task[worker[v].task] = "deleted")'
        BY DEF LiveHasFlow
      <3>1. worker'[v].task = worker[v].task /\ Alive(v) /\ worker[v].task \in Tasks
        BY <1>1, <1>7, <1>8 DEF Alive, t, ServerOK, WorkersAreOfTasks
      <3> QED
        BY <1>1, <1>5, <1>11, <3>1 DEF Locked, LiveHasFlow
    <2>5. \A u \in Tasks : Overtaken(wf'[u]) => Ahead(u)'
      BY <1>1, <1>5, <1>7, <1>8, <1>11 DEF Locked, Ahead, NoOvertaking
    <2> QED
      BY <2>1, <2>2, <2>3, <2>4, <2>5 DEF Locked
  <1> QED
    BY <1>5, <1>11 DEF ServerSound

LEMMA EndPortraitSound ==
  ASSUME ServerOK, FlowsOK, NEW w \in Workers, EndPortrait(w)
  PROVE  ServerSound
  <1> DEFINE t == worker[w].task
             f == WithStep(wf[t], "agent1", "failed")
  <1>1. /\ Alive(w) /\ Ends(w) /\ UNCHANGED <<lock, cancelling>> /\ worker[w].at = "agent1"
        /\ \/ \E g \in Results(wf[t], "agent1") : Await(t, g)
           \/ PutFlow(t, f) /\ PutTask(t, "failed")
    BY DEF EndPortrait, Alive
  <1>2. t \in Tasks
    BY <1>1 DEF ServerOK, WorkersAreOfTasks
  <1>3. wf[t] \in Flow /\ SoundFlow(wf[t]) /\ f \in Flow
    BY <1>2, StepKeepsFlow DEF FlowsOK, ServerOK, ServerTypeOK, StepStatuses
  <1>4. /\ SoundFlow(f) /\ (Overtaken(f) => Overtaken(wf[t]))
        /\ f.steps = [wf[t].steps EXCEPT !["agent1"] = "failed"] /\ f.status # "none"
    BY <1>3, StepIsSound, AgentNames
  <1> HIDE DEF f
  <1>5. /\ FlowsOK' /\ NoOvertaking
        /\ \A u \in Tasks : (HasFlow(u)' <=> HasFlow(u)) /\ (u # t => wf'[u] = wf[u])
        /\ \/ wf'[t] = wf[t]
           \/ \E s : wf'[t].steps = [wf[t].steps EXCEPT !["agent1"] = s]
    <2>1. CASE \E g \in Results(wf[t], "agent1") : Await(t, g)
      BY <1>2, <1>3, <2>1, AwaitIsSound, AgentNames DEF ServerOK
    <2>2. CASE PutFlow(t, f)
      BY <1>2, <1>3, <1>4, <2>2, PutIsSound DEF ServerOK
    <2> QED
      BY <1>1, <2>1, <2>2
  <1>6. \A u \in Tasks, a \in {"agent2", "agent5"} : wf'[u].steps[a] = wf[u].steps[a]
    BY <1>2, <1>3, <1>5, AgentNames DEF Flow
  <1>7. \A u \in Tasks : task[u] = "deleted" => task'[u] = "deleted"
    BY <1>1, DeletedStays DEF Await, ServerOK
  <1>8. lock' = lock \ (IF worker[w].at \in Late THEN {t} ELSE {})
    BY <1>1 DEF Late
  <1> HIDE DEF t
  <1>9. Locked => Locked'
    BY <1>1, <1>5, <1>6, <1>7, <1>8, EndKeepsLock DEF t, NoOvertaking
  <1> QED
    BY <1>5, <1>9 DEF ServerSound

\* Whoever holds the lock of a task has seen to it that nothing is overtaken.
LEMMA LockedIsNotOvertaken ==
  ASSUME Locked, ServerOK, FlowsOK, NEW t \in lock
  PROVE  ~Overtaken(wf[t])
  <1>1. PICK w \in Workers : worker[w].at \in Late /\ worker[w].task = t
    BY DEF Locked, LockOK
  <1>2. t \in Tasks
    BY DEF ServerOK, ServerTypeOK
  <1>3. CASE HasFlow(t)
    BY <1>1, <1>3 DEF Locked, LateStands, Stands, Overtaken
  <1>4. CASE ~HasFlow(t)
    BY <1>2, <1>4 DEF FlowsOK, SoundFlow, HasFlow, Overtaken
  <1> QED
    BY <1>3, <1>4

LEMMA FirstPendingIsFirst ==
  ASSUME NEW f, Pending(f) # {}
  PROVE  /\ FirstPending(f) \in Pending(f)
         /\ \A a \in Pending(f) : Place(FirstPending(f)) <= Place(a)
  BY FirstOfAgents DEF FirstPending, Pending

\* The worker goes on with the agent a: it takes the lock.
LEMMA TakeLock ==
  ASSUME ServerOK, FlowsOK, Locked, NEW w \in Workers, NEW t, t = worker[w].task,
         worker[w].at = "new", NEW f \in Flow, NEW a \in Late, Waits(w, a),
         t \notin lock, HasFlow(t), lock' = lock \cup {t}, UNCHANGED <<task, cancelling>>,
         SoundFlow(f), a = FirstPending(f), Pending(f) # {},
         \A u \in Tasks : (HasFlow(u)' <=> HasFlow(u)) /\ (u # t => wf'[u] = wf[u]),
         wf'[t].steps = [f.steps EXCEPT ![a] = "running"]
  PROVE  Locked'
  <1>1. /\ worker'[w] = [worker[w] EXCEPT !.at = a]
        /\ \A v \in Workers \ {w} : worker'[v] = worker[v]
    BY DEF Waits, ServerOK, ServerTypeOK
  <1>2. /\ worker'[w].at = a /\ worker'[w].task = t
        /\ worker'[w].cancelled = worker[w].cancelled
    BY <1>1 DEF ServerOK, ServerTypeOK
  <1>3. t \in Tasks /\ Alive(w)
    BY DEF Alive, ServerOK, WorkersAreOfTasks
  <1>4. \A v \in Workers : worker[v].at \in Late => v # w /\ worker[v].task # t
                                                  /\ worker'[v] = worker[v]
    BY <1>1 DEF Locked, LockOK, Late
  <1>5. \A v \in Workers : worker'[v].at \in Late =>
          v = w \/ (worker'[v] = worker[v] /\ worker[v].task \in Tasks \ {t})
    BY <1>1, <1>4 DEF Late, Alive, ServerOK, WorkersAreOfTasks
  <1>6. a = "agent2" \/ (f.steps["agent5"] = "completed" /\ a # "agent2")
    <2>1. a # "agent2" => "agent5" \notin Pending(f)
      BY FirstPendingIsFirst, Places, AgentNames DEF Late
    <2> QED
      BY <2>1, AgentNames DEF Pending, SoundFlow
  <1>7. Stands(t, a)' /\ ~Overtaken(wf'[t])
    BY <1>6, AgentNames DEF Stands, Overtaken, Late, Flow
  <1>8. Uncancelled'
    BY <1>1, <1>2 DEF Locked, Uncancelled
  <1>9. LockOK'
    <2>1. \A v \in Workers : worker'[v].at \in Late => worker'[v].task \in lock'
      BY <1>2, <1>5 DEF Locked, LockOK
    <2>2. \A u, v \in Workers :
           worker'[u].at \in Late /\ worker'[v].at \in Late /\ worker'[u].task = worker'[v].task
             => u = v
      BY <1>2, <1>5 DEF Locked, LockOK
    <2>3. \A u \in lock' : \E v \in Workers : worker'[v].at \in Late /\ worker'[v].task = u
      BY <1>2, <1>4 DEF Locked, LockOK
    <2> QED
      BY <2>1, <2>2, <2>3 DEF LockOK
  <1>10. LateStands'
    <2> SUFFICES ASSUME NEW v \in Workers, (worker[v].at \in Late)', HasFlow(worker[v].task)'
                 PROVE  Stands(worker[v].task, worker[v].at)'
      BY DEF LateStands
    <2>1. CASE v = w
      BY <1>2, <1>7, <2>1
    <2>2. CASE v # w
      <3>1. /\ worker'[v] = worker[v] /\ worker[v].task \in Tasks \ {t} /\ HasFlow(worker[v].task)
            /\ wf'[worker[v].task] = wf[worker[v].task]
        BY <1>5, <2>2
      <3> QED
        BY <3>1 DEF Locked, LateStands, Stands
    <2> QED
      BY <2>1, <2>2
  <1>11. LiveHasFlow'
    <2> SUFFICES ASSUME NEW v \in Workers, Alive(v)'
                 PROVE  (HasFlow(worker[v].task) \/ task[worker[v].task] = "deleted")'
      BY DEF LiveHasFlow
    <2>1. worker'[v].task = worker[v].task /\ Alive(v) /\ worker[v].task \in Tasks
      BY <1>1, <1>2, <1>3 DEF Alive, ServerOK, WorkersAreOfTasks
    <2> QED
      BY <2>1 DEF Locked, LiveHasFlow
  <1>12. \A u \in Tasks : Overtaken(wf'[u]) => Ahead(u)'
    BY <1>1, <1>7 DEF Locked, Ahead
  <1> QED
    BY <1>8, <1>9, <1>10, <1>11, <1>12 DEF Locked

LEMMA BeginAgentSound ==
  ASSUME ServerOK, FlowsOK, NEW w \in Workers, BeginAgent(w)
  PROVE  ServerSound
  <1> DEFINE t == worker[w].task
             f == Recovered(wf[t], worker[w].from)
             a == FirstPending(f)
  <1>1. /\ Alive(w) /\ worker[w].at = "new" /\ worker[w].from # "agent1" /\ UNCHANGED cancelling
        /\ \/ t \in lock /\ Ends(w) /\ UNCHANGED <<task, wf, lock>>
           \/ /\ t \notin lock /\ HasFlow(t) /\ Pending(f) # {} /\ a # "agent5"
              /\ PutFlow(t, WithStep(f, a, "running")) /\ Waits(w, a)
              /\ lock' = lock \cup {t} /\ UNCHANGED task
           \/ /\ t \notin lock /\ HasFlow(t) /\ Pending(f) # {} /\ a = "agent5"
              /\ (\E g \in Results(f, a) : Await(t, g)) /\ Ends(w) /\ UNCHANGED lock
           \/ /\ t \notin lock /\ (~HasFlow(t) \/ Pending(f) = {})
              /\ PutFlow(t, f) /\ PutTask(t, "completed") /\ Ends(w) /\ UNCHANGED lock
    BY DEF BeginAgent, Alive
  <1>2. t \in Tasks /\ wf[t] \in Flow /\ SoundFlow(wf[t])
    BY <1>1 DEF FlowsOK, ServerOK, ServerTypeOK, WorkersAreOfTasks
  <1>3. f \in Flow /\ SoundFlow(f) /\ (Overtaken(f) => Overtaken(wf[t])) /\ f.status = wf[t].status
    BY <1>2, RecoveredIsFlow, RecoveredIsSound
  <1> HIDE DEF f
  <1>4. lock = lock \ (IF worker[w].at \in Late THEN {t} ELSE {})
    BY <1>1 DEF Late
  <1>5. CASE t \in lock /\ Ends(w) /\ UNCHANGED <<task, wf, lock>>
    <2>1. FlowsOK' /\ NoOvertaking
      BY <1>5 DEF FlowsOK, NoOvertaking
    <2>2. \A u \in Tasks : HasFlow(u)' <=> HasFlow(u)
      BY <1>5 DEF HasFlow
    <2>3. Locked => Locked'
      BY <1>1, <1>4, <1>5, <2>2, EndKeepsLock, LockedIsNotOvertaken
    <2> QED
      BY <2>1, <2>3 DEF ServerSound
  <1>6. CASE /\ t \notin lock /\ HasFlow(t) /\ Pending(f) # {} /\ a # "agent5"
             /\ PutFlow(t, WithStep(f, a, "running")) /\ Waits(w, a)
             /\ lock' = lock \cup {t} /\ UNCHANGED task
    <2> DEFINE g == WithStep(f, a, "running")
    <2>1. a \in Late
      BY <1>6, FirstPendingIsAgent, AgentNames DEF Late
    <2>2. /\ g \in Flow /\ SoundFlow(g) /\ (Overtaken(g) => Overtaken(wf[t]))
          /\ g.steps = [f.steps EXCEPT ![a] = "running"] /\ g.status # "none"
      BY <1>3, <2>1, StepKeepsFlow, StepIsSound, AgentNames DEF StepStatuses, Late
    <2> HIDE DEF g, a
    <2>3. /\ FlowsOK' /\ NoOvertaking
          /\ \A u \in Tasks : (HasFlow(u)' <=> HasFlow(u)) /\ (u # t => wf'[u] = wf[u])
          /\ wf'[t] = g
      BY <1>2, <1>6, <2>2, PutIsSound DEF ServerOK, g
    <2>4. Locked => Locked'
      BY <1>1, <1>3, <1>6, <2>1, <2>2, <2>3, TakeLock DEF a
    <2> QED
      BY <2>3, <2>4 DEF ServerSound
  <1>7. CASE /\ t \notin lock /\ HasFlow(t) /\ Pending(f) # {} /\ a = "agent5"
             /\ (\E g \in Results(f, a) : Await(t, g)) /\ Ends(w) /\ UNCHANGED lock
    <2>1. /\ FlowsOK' /\ NoOvertaking
          /\ \A u \in Tasks : (HasFlow(u)' <=> HasFlow(u)) /\ (u # t => wf'[u] = wf[u])
          /\ wf'[t].steps = [f.steps EXCEPT !["agent5"] = "completed"]
      BY <1>2, <1>3, <1>7, AwaitIsSound, AgentNames DEF ServerOK
    <2>2. ~Overtaken(wf'[t])
      BY <1>3, <2>1, AgentNames DEF Overtaken, Flow
    <2>3. \A u \in Tasks : task[u] = "deleted" => task'[u] = "deleted"
      BY <1>7, DeletedStays DEF Await, ServerOK
    <2>4. Locked => Locked'
      BY <1>1, <1>4, <1>7, <2>1, <2>2, <2>3, EndKeepsLock DEF NoOvertaking
    <2> QED
      BY <2>1, <2>4 DEF ServerSound
  <1>8. CASE /\ t \notin lock /\ (~HasFlow(t) \/ Pending(f) = {})
             /\ PutFlow(t, f) /\ PutTask(t, "completed") /\ Ends(w) /\ UNCHANGED lock
    <2>1. /\ FlowsOK' /\ NoOvertaking
          /\ \A u \in Tasks : (HasFlow(u)' <=> HasFlow(u)) /\ (u # t => wf'[u] = wf[u])
          /\ ~Overtaken(wf'[t])
      <3>1. CASE HasFlow(t)
        <4>1. f.status # "none" /\ Pending(f) = {}
          BY <1>3, <1>8, <3>1 DEF HasFlow
        <4>2. ~Overtaken(f)
          BY <1>3, <4>1, AgentNames DEF Pending, SoundFlow, Overtaken
        <4> QED
          BY <1>2, <1>3, <1>8, <3>1, <4>1, <4>2, PutIsSound DEF ServerOK
      <3>2. CASE ~HasFlow(t)
        <4>1. wf' = wf
          BY <1>8, <3>2 DEF PutFlow
        <4> QED
          BY <1>2, <3>2, <4>1 DEF FlowsOK, NoOvertaking, HasFlow, SoundFlow, Overtaken
      <3> QED
        BY <3>1, <3>2
    <2>2. \A u \in Tasks : task[u] = "deleted" => task'[u] = "deleted"
      BY <1>8, DeletedStays DEF ServerOK
    <2>3. \A u \in Tasks : u = t \/ wf'[u] = wf[u]
      BY <2>1
    <2>4. ASSUME Locked PROVE Locked'
      <3>1. \A u \in Tasks : Overtaken(wf'[u]) => Overtaken(wf[u]) /\ u # t
        BY <2>1 DEF NoOvertaking
      <3>2. \A u \in Tasks : wf'[u] = wf[u] \/ (u = t /\ u \notin lock)
        BY <1>8, <2>1
      <3>3. lock' = lock /\ Ends(w)
        BY <1>8
      <3> HIDE DEF t
      <3> QED
        BY <1>1, <1>4, <2>1, <2>2, <2>4, <3>1, <3>2, <3>3, EndKeepsLock DEF t
    <2> QED
      BY <2>1, <2>4 DEF ServerSound
  <1> QED
    BY <1>1, <1>5, <1>6, <1>7, <1>8

LEMMA EndAgentSound ==
  ASSUME ServerOK, FlowsOK, NEW w \in Workers, EndAgent(w)
  PROVE  ServerSound
  <1> DEFINE t == worker[w].task
             a == worker[w].at
             failed == WithStep(wf[t], a, "failed")
  <1>1. /\ a \in Late /\ Alive(w) /\ Ends(w) /\ lock' = lock \ {t} /\ UNCHANGED cancelling
        /\ \/ a # "agent6" /\ \E f \in Results(wf[t], a) : Await(t, f)
           \/ (\E f \in Results(wf[t], a) : PutFlow(t, f)) /\ PutTask(t, "completed")
           \/ PutFlow(t, failed) /\ UNCHANGED task
           \/ PutFlow(t, failed) /\ PutTask(t, "failed")
    BY AgentNames DEF EndAgent, Late, Alive
  <1>2. t \in Tasks /\ wf[t] \in Flow /\ SoundFlow(wf[t]) /\ a \in Agents \ {"agent5"}
    BY <1>1, AgentNames DEF FlowsOK, ServerOK, ServerTypeOK, WorkersAreOfTasks, Late
  <1>3. /\ failed \in Flow /\ SoundFlow(failed) /\ (Overtaken(failed) => Overtaken(wf[t]))
        /\ failed.status # "none"
    BY <1>2, StepKeepsFlow, StepIsSound DEF StepStatuses
  <1> HIDE DEF failed
  <1>4. /\ FlowsOK' /\ NoOvertaking
        /\ \A u \in Tasks : (HasFlow(u)' <=> HasFlow(u)) /\ (u # t => wf'[u] = wf[u])
    <2>1. CASE a # "agent6" /\ \E f \in Results(wf[t], a) : Await(t, f)
      BY <1>2, <2>1, AwaitIsSound DEF ServerOK
    <2>2. ASSUME NEW f \in Results(wf[t], a), PutFlow(t, f)
          PROVE  /\ FlowsOK' /\ NoOvertaking
                 /\ \A u \in Tasks : (HasFlow(u)' <=> HasFlow(u)) /\ (u # t => wf'[u] = wf[u])
      <3>1. f \in Flow /\ SoundFlow(f) /\ f.status # "none" /\ (Overtaken(f) => Overtaken(wf[t]))
        BY <1>2, <2>2, ResultsAreFlows, ResultsAreSound
      <3>2. PutFlow(t, f) /\ t \in Tasks /\ ServerTypeOK
        BY <1>2, <2>2 DEF ServerOK
      <3> HIDE DEF t
      <3> QED
        BY <3>1, <3>2, PutIsSound
    <2>3. CASE PutFlow(t, failed)
      BY <1>2, <1>3, <2>3, PutIsSound DEF ServerOK
    <2> QED
      BY <1>1, <2>1, <2>2, <2>3
  <1>5. \A u \in Tasks : task[u] = "deleted" => task'[u] = "deleted"
    BY <1>1, DeletedStays DEF Await, ServerOK
  <1>6. lock' = lock \ (IF worker[w].at \in Late THEN {t} ELSE {}) /\ worker[w].at # "new"
    BY <1>1 DEF Late
  <1>7. Locked => Locked'
    BY <1>1, <1>4, <1>5, <1>6, EndKeepsLock DEF NoOvertaking
  <1> QED
    BY <1>4, <1>7 DEF ServerSound

LEMMA WorkSound ==
  ASSUME ServerOK, FlowsOK, NEW w \in Workers, Work(w)
  PROVE  ServerSound
  BY BeginPortraitSound, EndPortraitSound, BeginAgentSound, EndAgentSound, WorkerCancelledSound
  DEF Work

-----------------------------------------------------------------------------
(* What is under way                                                       *)

Has(msgs, k) == \E m \in msgs : m.kind = k

\* The page shows that it reads only while a read is under way.
ReadOK == loading => Has(net, "fetch")

\* No rating comes into the network, and a cancellation only at a price.
NetKept ==
  /\ Has(net', "proceed") => Has(net, "proceed")
  /\ Has(net', "cancel") => Has(net, "cancel") \/ left["new"] > 0
  /\ ReadOK => ReadOK'

LEMMA WithHas ==
  ASSUME NEW msgs, NEW kind, NEW t, NEW k
  PROVE  Has(With(msgs, kind, t), k) <=> Has(msgs, k) \/ kind = k
  <1>1. Request(kind, t, msgs).kind = kind
    BY DEF Request
  <1> QED
    BY <1>1 DEF Has, With

LEMMA OrphanedHas ==
  ASSUME NEW msgs, AllOK(msgs), NEW kinds, NEW k
  PROVE  Has(Orphaned(msgs, kinds), k) <=> Has(msgs, k)
  <1> DEFINE gone(m) == IF m.kind \in kinds THEN [m EXCEPT !.here = FALSE] ELSE m
  <1>1. ASSUME NEW m \in msgs
        PROVE  gone(m).kind = m.kind
    BY DEF AllOK, RequestOK, Fields
  <1> HIDE DEF gone
  <1>2. Orphaned(msgs, kinds) = {gone(m) : m \in msgs}
    BY DEF Orphaned, gone
  <1> QED
    BY <1>1, <1>2 DEF Has

LEMMA ReceivedHas ==
  ASSUME NEW m, NEW k
  PROVE  /\ Has(Received(m), k) => Has(net, k)
         /\ m.kind # k /\ Has(net, k) => Has(Received(m), k)
  BY DEF Received, Has

LEMMA AnswerHas ==
  ASSUME AllOK(net), NEW m \in net, NEW answer,
         net' = (net \ {m}) \cup {[m EXCEPT !.answer = answer]}
  PROVE  \A k : Has(net', k) <=> Has(net, k)
  <1> DEFINE a == [m EXCEPT !.answer = answer]
  <1>1. a.kind = m.kind
    BY DEF AllOK, RequestOK, Fields
  <1> HIDE DEF a
  <1>2. net' = (net \ {m}) \cup {a}
    BY DEF a
  <1> QED
    BY <1>1, <1>2 DEF Has

LEMMA SameNet ==
  ASSUME UNCHANGED loading, \A k \in {"fetch", "proceed", "cancel"} : Has(net', k) <=> Has(net, k)
  PROVE  NetKept
  BY DEF NetKept, ReadOK

LEMMA StartPollingHas ==
  ASSUME NEW t, NEW msgs, StartPolling(t, msgs), NEW k, k # "poll"
  PROVE  Has(net', k) <=> Has(msgs, k)
  BY WithHas DEF StartPolling

LEMMA OpenTaskHas ==
  ASSUME NEW t, NEW msgs, OpenTask(t, msgs),
         \A k \in {"proceed", "cancel"} : Has(msgs, k) => Has(net, k),
         Has(net, "fetch") => Has(msgs, "fetch")
  PROVE  NetKept
  <1>1. CASE net' = msgs /\ UNCHANGED loading
    BY <1>1 DEF NetKept, ReadOK
  <1>2. CASE net' = With(With(msgs, "fetch", t), "poll", t)
    BY <1>2, WithHas DEF NetKept, ReadOK
  <1> QED
    BY <1>1, <1>2 DEF OpenTask, store

LEMMA FetchTasksHas ==
  ASSUME NEW msgs, AllOK(msgs), FetchTasks(msgs), NEW k, k # "tasks"
  PROVE  Has(net', k) <=> Has(msgs, k)
  BY WithHas, OrphanedHas DEF FetchTasks

LEMMA UserHas ==
  ASSUME ClientOK, User
  PROVE  NetKept
  <1>1. CASE \/ Submit \/ OpenHistory \/ CloseHistory \/ SaveEdit \/ AnswerDelete
             \/ \E b \in Bases : ToggleBase(b)
             \/ \E t \in Tasks, filter \in Filters : StartEdit(t, filter) \/ AskDelete(t, filter)
    <2>1. UNCHANGED loading
      BY <1>1 DEF Submit, OpenHistory, CloseHistory, SaveEdit, AnswerDelete, ToggleBase,
                  StartEdit, AskDelete, store
    <2>2. UNCHANGED net \/ \E kind \in {"create", "history", "rename", "delete"} : \E t :
                             net' = With(net, kind, t)
      BY <1>1 DEF Submit, OpenHistory, CloseHistory, SaveEdit, AnswerDelete, ToggleBase,
                  StartEdit, AskDelete
    <2>3. \A k \in {"fetch", "proceed", "cancel"} : Has(net', k) <=> Has(net, k)
      BY <2>2, WithHas
    <2> QED
      BY <2>1, <2>3, SameNet
  <1>2. CASE NewTask
    <2>1. /\ UNCHANGED loading /\ left["new"] > 0
          /\ net' = net \/ net' = With(net, "cancel", selected)
      BY <1>2 DEF NewTask, Spend
    <2> QED
      BY <2>1, WithHas DEF NetKept, ReadOK
  <1>3. ASSUME NEW t \in Tasks, NEW filter \in Filters, SelectHistoryTask(t, filter)
        PROVE  NetKept
    <2> DEFINE msgs == IF panel.list[t] = "failed" THEN With(net, "steps", t) ELSE net
    <2>1. OpenTask(t, msgs)
      BY <1>3 DEF SelectHistoryTask
    <2>2. \A k \in {"fetch", "proceed", "cancel"} : Has(msgs, k) <=> Has(net, k)
      BY WithHas
    <2> HIDE DEF msgs
    <2> QED
      BY <2>1, <2>2, OpenTaskHas
  <1>4. CASE LeavePage
    BY <1>4, OrphanedHas, SameNet DEF LeavePage, ClientOK
  <1>5. CASE ReturnToPage
    <2>1. CASE selected = None
      BY <1>5, <2>1, SameNet DEF ReturnToPage
    <2>2. CASE selected # None
      <3> DEFINE msgs == With(net, "fetch", selected)
      <3>1. StartPolling(selected, msgs)
        BY <1>5, <2>2 DEF ReturnToPage
      <3>2. \A k : Has(msgs, k) <=> Has(net, k) \/ k = "fetch"
        BY WithHas
      <3> HIDE DEF msgs
      <3>3. \A k \in {"fetch", "proceed", "cancel"} : Has(net', k) <=> Has(msgs, k)
        BY <3>1, StartPollingHas
      <3> QED
        BY <3>2, <3>3 DEF NetKept, ReadOK
    <2> QED
      BY <2>1, <2>2
  <1> QED
    BY <1>1, <1>2, <1>3, <1>4, <1>5 DEF User

LEMMA TimersHas ==
  ASSUME Timers
  PROVE  NetKept
  <1>1. UNCHANGED loading /\ (UNCHANGED net \/ \E t : net' = With(net, "poll", t))
    BY DEF Timers, TimePasses, TimerFires, Poll, store
  <1> QED
    BY <1>1, WithHas, SameNet

LEMMA LoseHas ==
  ASSUME ClientOK, NEW m \in net, Lose(m)
  PROVE  NetKept
  BY AnswerHas, SameNet DEF Lose, store, ClientOK

LEMMA DeliverHas ==
  ASSUME ClientOK, NEW m \in net, Deliver(m)
  PROVE  NetKept
  <1>1. AllOK(Received(m))
    BY ReceivedOK DEF ClientOK
  <1>2. CASE FetchAnswered(m)
    <2>1. loading' = FALSE /\ (net' = Received(m) \/ StartPolling(m.task, Received(m)))
      BY <1>2 DEF FetchAnswered
    <2> QED
      BY <2>1, StartPollingHas, ReceivedHas DEF NetKept, ReadOK
  <1>3. CASE PollAnswered(m) \/ CancelAnswered(m)
    <2>1. /\ m.kind \in {"poll", "cancel"} /\ UNCHANGED loading
          /\ net' = Received(m) \/ FetchTasks(Received(m))
      BY <1>3 DEF PollAnswered, CancelAnswered, store
    <2>2. \A k \in {"fetch", "proceed", "cancel"} : Has(net', k) <=> Has(Received(m), k)
      BY <1>1, <2>1, FetchTasksHas
    <2> QED
      BY <2>1, <2>2, ReceivedHas DEF NetKept, ReadOK
  <1>4. CASE TasksAnswered(m) \/ TriggerAnswered(m) \/ HistoryAnswered(m) \/ StepsAnswered(m)
             \/ RenameAnswered(m) \/ DeleteAnswered(m)
    <2>1. /\ m.kind # "fetch" /\ UNCHANGED loading
          /\ net' = Received(m) \/ net' = With(Received(m), "continue", m.task)
      BY <1>4 DEF TasksAnswered, TriggerAnswered, HistoryAnswered, StepsAnswered, RenameAnswered,
                  DeleteAnswered, store
    <2> QED
      BY <2>1, ReceivedHas, WithHas DEF NetKept, ReadOK
  <1>5. CASE CreateAnswered(m)
    <2>1. CASE ~Ok(m)
      <3>1. net' = Received(m) /\ UNCHANGED loading /\ m.kind # "fetch"
        BY <1>5, <2>1 DEF CreateAnswered, store
      <3> QED
        BY <3>1, ReceivedHas DEF NetKept, ReadOK
    <2>2. CASE Ok(m)
      <3> DEFINE t == m.answer.data
                 sent == {[r EXCEPT !.here = m.here] : r \in {Request("trigger", t, net)}}
                 msgs == sent \cup Received(m)
      <3>1. OpenTask(t, msgs) /\ m.kind # "fetch"
        BY <1>5, <2>2 DEF CreateAnswered
      <3>2. \A r \in sent : r.kind = "trigger"
        <4>1. Request("trigger", t, net).kind = "trigger"
              /\ Fields(Request("trigger", t, net))
          BY DEF Request, Fields
        <4> QED
          BY <4>1 DEF Fields
      <3> HIDE DEF sent
      <3>3. \A k \in {"fetch", "proceed", "cancel"} : Has(msgs, k) <=> Has(Received(m), k)
        BY <3>2 DEF Has
      <3> HIDE DEF msgs
      <3> QED
        BY <3>1, <3>3, ReceivedHas, OpenTaskHas
    <2> QED
      BY <2>1, <2>2
  <1>6. CASE ContinueAnswered(m) \/ ProceedAnswered(m)
    <2>1. /\ m.kind # "fetch"
          /\ \/ net' = Received(m) /\ UNCHANGED loading
             \/ net' = With(Received(m), "fetch", m.task)
      BY <1>6 DEF ContinueAnswered, ProceedAnswered, FetchWorkflow, store
    <2> QED
      BY <2>1, ReceivedHas, WithHas DEF NetKept, ReadOK
  <1> QED
    BY <1>2, <1>3, <1>4, <1>5, <1>6 DEF Deliver

LEMMA ServerSame ==
  ASSUME UNCHANGED server
  PROVE  (FlowsOK => FlowsOK') /\ NoOvertaking /\ (Locked => Locked')
  <1>1. UNCHANGED <<task, wf, worker, lock, cancelling>>
    BY DEF server
  <1> QED
    BY <1>1 DEF FlowsOK, NoOvertaking, Locked, Uncancelled, LockOK, LateStands, Stands,
                LiveHasFlow, Alive, HasFlow, Ahead

\* Only a cancellation disturbs the lock, only a rating is in the way of a search.
LEMMA ServeRates ==
  ASSUME ServerOK, ClientOK, FlowsOK, NEW m \in net, Serve(m)
  PROVE  /\ FlowsOK' /\ NetKept
         /\ m.kind # "proceed" => NoOvertaking
         /\ m.kind # "cancel" => (Locked => Locked')
  <1>1. RequestOK(m) /\ AllOK(net)
    BY DEF ClientOK, AllOK
  <1>2. m.kind \in {"trigger", "continue", "proceed", "cancel", "delete"} => m.task \in Tasks
    BY <1>1 DEF RequestOK
  <1>3. UNCHANGED net \/ \E answer : net' = (net \ {m}) \cup {[m EXCEPT !.answer = answer]}
    <2>1. CASE AnswersRead(m)
      BY <2>1 DEF AnswersRead
    <2>2. CASE AnswersWrite(m)
      BY <2>2 DEF AnswersWrite, Done, Refused
    <2> QED
      BY <2>1, <2>2 DEF Serve
  <1>4. NetKept
    BY <1>1, <1>3, AnswerHas, SameNet DEF Serve, store
  <1>5. \/ UNCHANGED server
        \/ \E t \in Tasks : CreateTask(t)
        \/ m.task \in Tasks /\ (Trigger(m.task) \/ DeleteTask(m.task) \/ EndCancel(m.task))
        \/ m.task \in Tasks /\ m.kind = "proceed" /\ Proceed(m.task)
        \/ m.task \in Tasks /\ m.kind = "cancel" /\ BeginCancel(m.task)
    <2>1. CASE AnswersRead(m)
      BY <2>1 DEF AnswersRead
    <2>2. CASE AnswersWrite(m)
      BY <1>2, <2>2 DEF AnswersWrite
    <2> QED
      BY <2>1, <2>2 DEF Serve
  <1>6. CASE UNCHANGED server
    BY <1>4, <1>6, ServerSame
  <1>7. ASSUME NEW t \in Tasks, CreateTask(t) \/ Trigger(t) \/ DeleteTask(t) \/ EndCancel(t)
        PROVE  FlowsOK' /\ NoOvertaking /\ (Locked => Locked')
    BY <1>7, CreateTaskSound, TriggerSound, DeleteTaskSound, EndCancelSound DEF ServerSound
  <1>8. CASE m.task \in Tasks /\ m.kind = "proceed" /\ Proceed(m.task)
    BY <1>4, <1>8, ProceedSound
  <1>9. CASE m.task \in Tasks /\ m.kind = "cancel" /\ BeginCancel(m.task)
    BY <1>4, <1>9, BeginCancelSound
  <1> QED
    BY <1>4, <1>5, <1>6, <1>7, <1>8, <1>9

-----------------------------------------------------------------------------
(* A pause can end                                                         *)

\* Nothing is or will be cancelled, and the lock keeps what is not begun ahead.
Calm == left["new"] = 0 /\ ~Has(net, "cancel") /\ Locked

\* Nothing is or will be rated.
Unrated ==
  left["proceed"] = 0 /\ ~Has(net, "proceed") /\ \A t \in Tasks : ~Overtaken(wf[t])

\* The view is that of what is shown.
KeyOK == rating.key = ViewKey /\ rating.sent = FreshView(rating.key).sent

PauseOK == FlowsOK /\ ReadOK /\ KeyOK /\ (Calm \/ Unrated)

LEMMA SpentIsSpent ==
  ASSUME BudgetOK, NEW d, Spend(d)
  PROVE  left[d] > 0 /\ \A e \in Doings : left[e] = 0 => left'[e] = 0
  <1>1. left \in [Doings -> Nat] /\ left[d] > 0 /\ left' = [left EXCEPT ![d] = @ - 1]
    BY DEF BudgetOK, Spend
  <1> QED
    BY <1>1

\* A budget that is used up stays so, whoever moves.
LEMMA SpentStaysSpent ==
  ASSUME BudgetOK, left' = left \/ \E d : Spend(d)
  PROVE  \A e \in Doings : left[e] = 0 => left'[e] = 0
  BY SpentIsSpent

LEMMA ViewIsKept ==
  ASSUME RatingOK, KeyOK, ViewFollows
  PROVE  KeyOK'
  <1>1. CASE ViewKey' = rating.key
    BY <1>1 DEF ViewFollows, KeyOK
  <1>2. CASE ViewKey' # rating.key
    <2>1. rating' = FreshView(ViewKey')
      BY <1>2 DEF ViewFollows
    <2>2. \A key : FreshView(key).key = key
      BY DEF FreshView, NoView
    <2>3. rating'.key = ViewKey'
      BY <2>1, <2>2
    <2>4. rating'.sent = FreshView(rating'.key).sent
      BY <2>1, <2>3
    <2> HIDE DEF FreshView
    <2> QED
      BY <2>3, <2>4 DEF KeyOK
  <1> QED
    BY <1>1, <1>2

LEMMA FreshIsUnsent ==
  ASSUME NEW key, Len(key) # 4 \/ key[4] = FALSE
  PROVE  FreshView(key).sent = FALSE
  <1>1. FreshView(key).sent = (Len(key) = 4 /\ key[Len(key)])
    BY DEF FreshView, NoView
  <1>2. CASE Len(key) # 4
    <2>1. (Len(key) = 4 /\ key[Len(key)]) = FALSE
      BY <1>2, Zenon
    <2> QED
      BY <1>1, <2>1, Zenon
  <1>3. CASE Len(key) = 4 /\ key[4] = FALSE
    <2>1. key[Len(key)] = FALSE
      BY <1>3, Zenon
    <2>2. (Len(key) = 4 /\ key[Len(key)]) = FALSE
      BY <2>1, Zenon
    <2> QED
      BY <1>1, <2>2, Zenon
  <1> QED
    BY <1>2, <1>3, Zenon

LEMMA SameView ==
  ASSUME UNCHANGED <<selected, listing, store, page>>
  PROVE  ViewKey' = ViewKey
  BY DEF ViewKey, ViewIsRendered, Mounted, store

LEMMA InitPauseOK ==
  ASSUME Init, \A s \in Scenarios : s.doings["new"] = 0 \/ s.doings["proceed"] = 0
  PROVE  PauseOK
  <1>1. PICK s \in Scenarios : ServerInit(s.progress) /\ left = s.doings
    BY DEF Init
  <1>2. \A t \in Tasks : SoundFlow(wf[t]) /\ ~Overtaken(wf[t])
    <2> SUFFICES ASSUME NEW t \in Tasks
                 PROVE  SoundFlow(wf[t]) /\ ~Overtaken(wf[t])
      OBVIOUS
    <2> DEFINE p == s.progress[t]
    <2>1. p \in [done : 0 .. Len(Order), failed : BOOLEAN] /\ (p.failed => p.done \notin {2, 5, 6})
      BY PageAssumption
    <2>2. wf[t] = Reached(p.done, p.failed)
      BY <1>1 DEF ServerInit
    <2> HIDE DEF p
    <2> QED
      BY <2>1, <2>2, ReachedIsSound
  <1>3. FlowsOK /\ ReadOK
    BY <1>2 DEF FlowsOK, Init, ReadOK
  <1>4. KeyOK
    <2>1. ViewKey = <<>>
      BY DEF Init, ViewKey, ViewIsRendered
    <2>2. rating.key = <<>> /\ rating.sent = FALSE
      BY DEF Init, NoView
    <2>3. FreshView(<<>>).sent = FALSE
      <3>1. Len(<<>>) # 4
        OBVIOUS
      <3> QED
        BY <3>1, FreshIsUnsent
    <2> QED
      BY <2>1, <2>2, <2>3 DEF KeyOK
  <1>5. \A k : ~Has(net, k)
    BY DEF Init, Has
  <1>6. Locked
    <2>1. \A w \in Workers : worker[w] = Asleep
      BY <1>1 DEF ServerInit
    <2>2. \A w \in Workers : worker[w].at = "unborn" /\ ~worker[w].cancelled
      BY <2>1 DEF Asleep
    <2> QED
      BY <1>1, <1>2, <2>2
      DEF ServerInit, Locked, Uncancelled, LockOK, LateStands, LiveHasFlow, Alive, Late
  <1> QED
    BY <1>1, <1>2, <1>3, <1>4, <1>5, <1>6 DEF PauseOK, Calm, Unrated

\* The two ways of being safe, one step later.
LEMMA SafeKept ==
  ASSUME BudgetOK, NetKept, Calm \/ Unrated,
         left' = left \/ \E d : Spend(d),
         Calm => Locked', Unrated => NoOvertaking
  PROVE  (Calm \/ Unrated)'
  BY SpentStaysSpent DEF Calm, Unrated, NetKept, NoOvertaking, Doings

LEMMA PageStepPauseOK ==
  ASSUME PageOK, PauseOK, ViewFollows,
         User \/ WorkerSteps \/ Timers \/ \E m \in net : Serve(m) \/ Lose(m) \/ Deliver(m)
  PROVE  PauseOK'
  <1>1. KeyOK'
    BY ViewIsKept DEF PageOK, PauseOK
  <1>2. left' = left \/ \E d : Spend(d)
    <2>1. CASE User
      BY <2>1 DEF User, Submit, NewTask, OpenHistory, CloseHistory, SaveEdit, AnswerDelete,
         SelectHistoryTask, StartEdit, AskDelete, ToggleBase, LeavePage, ReturnToPage
    <2>2. CASE WorkerSteps \/ Timers \/ \E m \in net : Serve(m) \/ Lose(m) \/ Deliver(m)
      BY <2>2 DEF WorkerSteps, Timers, TimePasses, TimerFires, Serve, Lose, Deliver
    <2> QED
      BY <2>1, <2>2
  <1>3. FlowsOK' /\ NetKept /\ (Calm => Locked') /\ (Unrated => NoOvertaking)
    <2>1. CASE User \/ Timers \/ \E m \in net : Lose(m) \/ Deliver(m)
      <3>1. UNCHANGED server
        BY <2>1 DEF User, Submit, NewTask, OpenHistory, CloseHistory, SaveEdit, AnswerDelete,
           SelectHistoryTask, StartEdit, AskDelete, ToggleBase, LeavePage, ReturnToPage,
           Timers, TimePasses, TimerFires, Lose, Deliver
      <3>2. NetKept
        BY <2>1, UserHas, TimersHas, LoseHas, DeliverHas DEF PageOK
      <3> QED
        BY <3>1, <3>2, ServerSame DEF PauseOK, Calm
    <2>2. CASE WorkerSteps
      <3>1. PICK w \in Workers : Work(w)
        BY <2>2 DEF WorkerSteps
      <3>2. UNCHANGED <<net, loading>>
        BY <2>2 DEF WorkerSteps, store
      <3>3. NetKept
        BY <3>2, SameNet
      <3>4. ServerSound
        BY <3>1, WorkSound DEF PageOK, PauseOK
      <3> QED
        BY <3>3, <3>4 DEF ServerSound, Calm
    <2>3. ASSUME NEW m \in net, Serve(m)
          PROVE  FlowsOK' /\ NetKept /\ (Calm => Locked') /\ (Unrated => NoOvertaking)
      <3>1. /\ FlowsOK' /\ NetKept
            /\ m.kind # "proceed" => NoOvertaking
            /\ m.kind # "cancel" => (Locked => Locked')
        BY <2>3, ServeRates DEF PageOK, PauseOK
      <3> QED
        BY <3>1 DEF Calm, Unrated, Has
    <2> QED
      BY <2>1, <2>2, <2>3
  <1>4. (Calm \/ Unrated)'
    BY <1>2, <1>3, SafeKept DEF PageOK, PauseOK
  <1>5. ReadOK'
    BY <1>3 DEF NetKept, PauseOK
  <1> QED
    BY <1>1, <1>3, <1>4, <1>5 DEF PauseOK

LEMMA SameKey ==
  ASSUME PauseOK, UNCHANGED <<selected, listing, store, page>>,
         rating'.key = rating.key, rating'.sent = rating.sent
  PROVE  KeyOK'
  BY SameView DEF PauseOK, KeyOK

LEMMA RatePauseOK ==
  ASSUME PageOK, PauseOK,
         \/ Rate \/ AddManualDemand \/ TouchManualDemand
         \/ SubmitDemands \/ SubmitInnovations \/ SubmitPatents \/ SubmitSolutions
         \/ SubmitEvaluation
  PROVE  PauseOK'
  <1>1. UNCHANGED <<server, selected, listing, store, page>>
    BY DEF Rate, AddManualDemand, TouchManualDemand, SubmitDemands, SubmitInnovations,
           SubmitPatents, SubmitSolutions, SubmitEvaluation, Send, RestOfPage
  <1>2. /\ left' = left \/ \E d : Spend(d)
        /\ \/ net' = net
           \/ net' = With(net, "proceed", selected) /\ left["proceed"] > 0
        /\ \/ rating' = [rating EXCEPT !.stars = TRUE]
           \/ \E k \in {"none", "unrated", "rated"} : rating' = [rating EXCEPT !.manual = k]
           \/ \E k : rating' = [rating EXCEPT !.ticket = k]
    BY DEF Rate, AddManualDemand, TouchManualDemand, SubmitDemands, SubmitInnovations,
           SubmitPatents, SubmitSolutions, SubmitEvaluation, Send, Spend
  <1>3. KeyOK'
    BY <1>1, <1>2, SameKey DEF PageOK, RatingOK
  <1>4. FlowsOK' /\ (Calm => Locked') /\ NoOvertaking
    BY <1>1, ServerSame DEF PauseOK, Calm
  <1>5. \A k \in {"fetch", "cancel"} : Has(net', k) <=> Has(net, k)
    BY <1>2, WithHas
  <1>6. ReadOK'
    BY <1>1, <1>5 DEF ReadOK, PauseOK, store
  <1>7. left["proceed"] = 0 => net' = net
    BY <1>2 DEF PageOK, BudgetOK, Doings
  <1>8. (Calm \/ Unrated)'
    <2>1. \A e \in Doings : left[e] = 0 => left'[e] = 0
      BY <1>2, SpentStaysSpent DEF PageOK
    <2>2. CASE Calm
      BY <1>4, <1>5, <2>1, <2>2 DEF Calm, Doings
    <2>3. CASE Unrated
      BY <1>4, <1>7, <2>1, <2>3 DEF Unrated, NoOvertaking, Doings
    <2> QED
      BY <2>2, <2>3 DEF PauseOK
  <1> QED
    BY <1>3, <1>4, <1>6, <1>8 DEF PauseOK

LEMMA RefusedPauseOK ==
  ASSUME PageOK, PauseOK, NEW m \in net, ProceedRefused(m)
  PROVE  PauseOK'
  <1>1. /\ m.kind = "proceed" /\ net' = Received(m)
        /\ rating' = rating \/ rating' = [rating EXCEPT !.ticket = <<>>]
        /\ UNCHANGED <<server, selected, listing, store, page, left>>
    BY DEF ProceedRefused
  <1>2. KeyOK'
    BY <1>1, SameKey DEF PageOK, RatingOK
  <1>3. FlowsOK' /\ (Calm => Locked') /\ NoOvertaking
    BY <1>1, ServerSame DEF PauseOK, Calm
  <1>4. NetKept
    BY <1>1, ReceivedHas DEF NetKept, ReadOK, store
  <1>5. (Calm \/ Unrated)'
    BY <1>1, <1>3, <1>4, SafeKept DEF PageOK, PauseOK
  <1> QED
    BY <1>2, <1>3, <1>4, <1>5 DEF PauseOK, NetKept

LEMMA StepPauseOK ==
  ASSUME PageOK, PauseOK, [Next]_vars
  PROVE  PauseOK'
  <1>1. CASE UNCHANGED vars
    <2>1. UNCHANGED <<server, selected, listing, store, net, page, rating, left>>
      BY <1>1 DEF vars, client
    <2>2. KeyOK'
      BY <2>1, SameKey
    <2>3. FlowsOK' /\ (Locked => Locked') /\ NoOvertaking
      BY <2>1, ServerSame DEF PauseOK
    <2> QED
      BY <2>1, <2>2, <2>3 DEF PauseOK, ReadOK, Calm, Unrated, NoOvertaking, store
  <1> QED
    BY <1>1, PageStepPauseOK, RatePauseOK, RefusedPauseOK DEF Next

\* The last result of a flow that awaits a rating is there, and can be rated.
LEMMA LastResult ==
  ASSUME NEW f \in Flow, SoundFlow(f), ~Overtaken(f), f.status = "awaiting_rating"
  PROVE  LET a == DisplayPhase(f)
         IN /\ a \in Agents \ {"agent6"}
            /\ f.out[a] \in {"nothing", "list", "diagram"}
            /\ f.out[a] = "diagram" => a = "agent2"
            /\ a \in {"agent1", "agent2"} => a \notin f.rated
  <1> DEFINE R == Phases(f, "completed") \ {"agent6"}
  <1>1. R = {a \in Agents \ {"agent6"} : f.steps[a] = "completed"}
    BY DEF Phases, PhaseStatus
  <1>2. R # {}
    BY <1>1, AgentNames DEF SoundFlow
  <1>3. DisplayPhase(f) = Latest(R)
    BY <1>2 DEF DisplayPhase
  <1>4. \E a \in R : \A b \in R : Place(b) <= Place(a)
    <2>1. R \subseteq {"agent1", "agent2", "agent5", "agent3", "agent4"}
      BY <1>1, AgentNames
    <2> HIDE DEF R
    <2>2. CASE "agent4" \in R
      BY <2>1, <2>2, Places
    <2>3. CASE "agent4" \notin R /\ "agent3" \in R
      BY <2>1, <2>3, Places
    <2>4. CASE R \cap {"agent4", "agent3"} = {} /\ "agent5" \in R
      BY <2>1, <2>4, Places
    <2>5. CASE R \cap {"agent4", "agent3", "agent5"} = {} /\ "agent2" \in R
      BY <2>1, <2>5, Places
    <2>6. CASE R = {"agent1"}
      BY <2>6, Places
    <2> QED
      BY <1>2, <2>1, <2>2, <2>3, <2>4, <2>5, <2>6
  <1>5. Latest(R) \in R /\ \A b \in R : Place(b) <= Place(Latest(R))
    BY <1>4 DEF Latest
  <1> DEFINE a == DisplayPhase(f)
  <1>6. a \in Agents \ {"agent6"} /\ f.steps[a] = "completed" /\ \A b \in R : Place(b) <= Place(a)
    BY <1>1, <1>3, <1>5
  <1> HIDE DEF a
  <1>7. f.out[a] # "none" /\ f.out[a] \in Outputs /\ (f.out[a] = "diagram" => a = "agent2")
    BY <1>6 DEF SoundFlow, Flow
  <1>8. a = "agent1" => a \notin f.rated
    <2>1. a = "agent1" => R \cap {"agent2", "agent5", "agent3", "agent4"} = {}
      BY <1>6, Places
    <2> QED
      BY <1>1, <2>1, AgentNames DEF SoundFlow
  <1>9. a = "agent2" => a \notin f.rated
    <2>1. a = "agent2" => "agent5" \notin R
      BY <1>6, Places
    <2> QED
      BY <1>1, <1>6, <2>1, AgentNames DEF Overtaken
  <1> QED
    BY <1>6, <1>7, <1>8, <1>9 DEF a, Outputs

LEMMA PauseEnds ==
  ASSUME PageOK, PauseOK
  PROVE  PauseWithResultCanEnd
  <1> SUFFICES ASSUME AtPause, shown.flow.out[ShownPhase] # "nothing"
               PROVE  Rateable
    BY DEF PauseWithResultCanEnd
  <1> DEFINE t == selected
             f == wf[t]
             a == DisplayPhase(f)
  <1>1. /\ net = {} /\ \A w \in Workers : ~Alive(w)
        /\ Mounted /\ t # None
        /\ shown = [task |-> t, flow |-> f]
        /\ f.status = "awaiting_rating"
    BY DEF AtPause, Quiet
  <1>2. t \in Tasks /\ f \in Flow /\ SoundFlow(f)
    BY <1>1 DEF PageOK, ClientOK, PlaceOK, ServerOK, ServerTypeOK, PauseOK, FlowsOK
  <1>3. ~Overtaken(f)
    <2>1. CASE Calm
      BY <1>1, <1>2, <2>1 DEF Calm, Locked, Ahead, Alive
    <2>2. CASE Unrated
      BY <1>2, <2>2 DEF Unrated
    <2> QED
      BY <2>1, <2>2 DEF PauseOK
  <1>4. /\ a \in Agents \ {"agent6"}
        /\ f.out[a] \in {"nothing", "list", "diagram"}
        /\ f.out[a] = "diagram" => a = "agent2"
        /\ a \in {"agent1", "agent2"} => a \notin f.rated
    BY <1>1, <1>2, <1>3, LastResult
  <1>5. ~loading
    BY <1>1 DEF PauseOK, ReadOK, Has
  <1>6. shown.task = t /\ shown.flow = f /\ ShownPhase = a
    BY <1>1 DEF ShownPhase
  <1> HIDE DEF a, f
  <1>7. ViewIsRendered
    <2>1. shown # Nowhere
      BY <1>1, <1>6 DEF Nowhere
    <2>2. ~StepRuns(shown.flow)
      BY <1>1, <1>6 DEF StepRuns
    <2>3. DisplayPhase(shown.flow) # "agent6"
      BY <1>4, <1>6 DEF ShownPhase
    <2> QED
      BY <1>1, <1>5, <2>1, <2>2, <2>3 DEF ViewIsRendered
  <1>8. ViewKey = IF a \in {"agent1", "agent2"} THEN <<a, t, f.out[a], a \in f.rated>> ELSE <<a>>
    BY <1>6, <1>7 DEF ViewKey, ShownPhase
  <1>9. ~rating.sent
    <2>1. rating.sent = FreshView(ViewKey).sent
      BY DEF PauseOK, KeyOK
    <2>2. Len(ViewKey) # 4 \/ ViewKey[4] = FALSE
      <3>1. CASE a \in {"agent1", "agent2"}
        <4>1. ViewKey = <<a, t, f.out[a], a \in f.rated>> /\ a \notin f.rated
          BY <1>4, <1>8, <3>1
        <4>2. ViewKey[4] = (a \in f.rated)
          BY <4>1
        <4>3. (a \in f.rated) = FALSE
          BY <4>1
        <4> QED
          BY <4>2, <4>3, Zenon
      <3>2. CASE a \notin {"agent1", "agent2"}
        <4>1. ViewKey = <<a>>
          BY <1>8, <3>2
        <4>2. Len(<<a>>) = 1
          OBVIOUS
        <4> QED
          BY <4>1, <4>2
      <3> QED
        BY <3>1, <3>2
    <2> QED
      BY <2>1, <2>2, FreshIsUnsent
  <1>10. f.out[a] \in {"list", "diagram"}
    BY <1>4, <1>6
  <1>11. Shows(a, {f.out[a]})
    BY <1>6, <1>7, <1>9 DEF Shows
  <1> QED
    BY <1>1, <1>4, <1>6, <1>7, <1>9, <1>10, AgentNames
    DEF Rateable, DemandForm, ProblemForm, PatentForm, SolutionForm, EvaluationForm, Shows

\* When page and server are at rest, a page that shows a pause with a result to
\* rate has the view in which the user ends it (WorkflowStepResults, the views
\* of the steps, proceed_workflow), as long as the user does not both cancel
\* analyses and rate results: the two together can leave ratings in the result
\* before the one that was waited for.
THEOREM PausesCanEnd ==
  ASSUME \A s \in Scenarios : s.doings["new"] = 0 \/ s.doings["proceed"] = 0
  PROVE  Spec => []PauseWithResultCanEnd
  <1>1. Init => PauseOK
    BY InitPauseOK
  <1>2. PageOK /\ PauseOK /\ [Next]_vars => PauseOK'
    BY StepPauseOK
  <1>3. PageOK /\ PauseOK => PauseWithResultCanEnd
    BY PauseEnds
  <1>4. Spec => []PauseOK
    BY <1>1, <1>2, PageIsSound, PTL DEF Spec
  <1> QED
    BY <1>3, <1>4, PageIsSound, PTL
=============================================================================
