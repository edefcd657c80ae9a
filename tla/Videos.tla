------------------------------- MODULE Videos -------------------------------
(***************************************************************************)
(* Videos that a provider makes (VideoDisplayPage; api/video.py,           *)
(* video_task_service.py, video_poller.py): a task is created here and at  *)
(* the first provider of the user's queue, a poller of the server follows  *)
(* it, and the page follows the server.                                    *)
(***************************************************************************)
EXTENDS Services

CONSTANT Tasks  \* tasks that can be created

VARIABLES
  tasks,   \* the table: status, provider, what became of the job there, if it is old
  poller,  \* the tasks the poller still has to ask for in its round
  video    \* the page

videoVars == <<tasks, poller, video>>

NoTask == [status |-> "absent", provider |-> None, remote |-> None, old |-> FALSE]

\* NON_TERMINAL of the page, ACTIVE_STATUSES of the server.
NonTerminal == {"pending", "queued", "running"}
Active(t)   == tasks[t].status \in NonTerminal

ClosedVideo == [open |-> FALSE, options |-> "loading", list |-> [t \in Tasks |-> "absent"],
                selected |-> None, sending |-> FALSE, failed |-> FALSE]

Usable(p) == Known(p) /\ providers[p] = "video"

\* The first service of the queue that is on, whatever it speaks by now.
Selected ==
  LET on == SelectSeq(Order("video"), LAMBDA p : queue["video"][p].on)
  IN IF on = <<>> THEN None ELSE on[1]

VideosInit(s) ==
  /\ tasks = [t \in Tasks |-> NoTask]
  /\ poller = {}
  /\ video = IF "video page" \in s.shown THEN [ClosedVideo EXCEPT !.open = TRUE, !.options = Selected]
              ELSE ClosedVideo

-----------------------------------------------------------------------------
(* The server                                                              *)

\* One that is new is as good as another.
NewTask == CHOOSE t \in Tasks \cup {None} : IF t = None THEN \A u \in Tasks : tasks[u] # NoTask ELSE tasks[t] = NoTask

Creating(t) == [status |-> "creating", data |-> t]

\* A row of its own before the key is taken, and before the provider answers;
\* what the provider was asked for may be nothing it offers if the page
\* was opened for another one.
StartsTask(m) ==
  /\ m.kind = "generate" /\ m.answer = Waiting
  /\ \/ /\ ~Usable(Selected) \/ m.with # Selected
        /\ Done(m, Refused)
        /\ UNCHANGED tasks
     \/ /\ Usable(Selected) /\ NewTask \in Tasks
        /\ \E s \in {"pending", "failed"} :
             /\ tasks' = [tasks EXCEPT ![NewTask].status = s, ![NewTask].provider = Selected]
             /\ Done(m, IF s = "pending" THEN Creating(NewTask) ELSE Refused)

\* create_task of the provider, which may fail after it took the job.
EndsStart(m) ==
  /\ m.kind = "generate" /\ m.answer.status = "creating"
  /\ LET t == m.answer.data
     IN \/ /\ tasks' = [tasks EXCEPT ![t].status = "queued", ![t].remote = "running"]
           /\ Done(m, Success(t))
        \/ /\ tasks' = [tasks EXCEPT ![t].status = "failed"]
           /\ Done(m, Refused)

ServesVideos(m) ==
  /\ \/ StartsTask(m)
     \/ EndsStart(m)
     \/ /\ m.kind = "options" /\ m.answer = Waiting
        /\ Done(m, IF Usable(Selected) THEN Success(Selected) ELSE Refused)
        /\ UNCHANGED tasks
     \/ /\ m.kind = "tasks" /\ m.answer = Waiting
        /\ Done(m, Success([t \in Tasks |-> tasks[t].status]))
        /\ UNCHANGED tasks
  /\ UNCHANGED <<poller, video, left>>

\* The job ends at the provider.
RemoteEnds(t) ==
  /\ tasks[t].remote = "running"
  /\ \E s \in {"succeeded", "failed"} : tasks' = [tasks EXCEPT ![t].remote = s]
  /\ UNCHANGED <<poller, video, net, left>>

\* Ten minutes without a job: a request that still creates one ends before.
Ages(t) ==
  /\ tasks[t].status = "pending" /\ ~tasks[t].old
  /\ \A m \in net : m.kind = "generate" => m.answer # Creating(t)
  /\ tasks' = [tasks EXCEPT ![t].old = TRUE]
  /\ UNCHANGED <<poller, video, net, left>>

\* Mutant of Orphans: only of the tasks that have a place in a queue.
OrphansQueued == {t \in Tasks : tasks[t].status = "queued" /\ tasks[t].remote = None /\ tasks[t].old}

Orphans == {t \in Tasks : Active(t) /\ tasks[t].remote = None /\ tasks[t].old}

\* A round: orphans fail at once, the others are asked for one after another.
PollRound ==
  /\ poller = {}
  /\ tasks' = [t \in Tasks |-> IF t \in Orphans THEN [tasks[t] EXCEPT !.status = "failed"] ELSE tasks[t]]
  /\ poller' = {t \in Tasks : Active(t) /\ tasks[t].remote # None}
  /\ poller' # {} \/ Orphans # {}
  /\ UNCHANGED <<video, net, left>>

\* A service that is gone, or no longer speaks a protocol for videos, is skipped.
Query(t) ==
  /\ t \in poller
  /\ poller' = poller \ {t}
  /\ tasks' = IF Usable(tasks[t].provider) THEN [tasks EXCEPT ![t].status = tasks[t].remote] ELSE tasks
  /\ UNCHANGED <<video, net, left>>

QueryFails(t) ==
  /\ Spend("lost")
  /\ t \in poller
  /\ poller' = poller \ {t}
  /\ UNCHANGED <<tasks, video, net>>

\* The server ends and is started again: a round, and what it is asked, are gone.
Crash ==
  /\ Spend("crash")
  /\ poller' = {}
  /\ net' = {[m EXCEPT !.answer = IF Answered(m) THEN @ ELSE Refused] : m \in net}
  /\ UNCHANGED <<tasks, video>>

-----------------------------------------------------------------------------
(* The page                                                                *)

VideoStep(k, msgs) ==
  /\ video' = k
  /\ net' = msgs
  /\ UNCHANGED <<tasks, poller>>

ReadsTasks(by, msgs) == And(msgs, by, "tasks", None, None)

OpenVideo ==
  /\ Spend("video page")
  /\ ~video.open
  /\ VideoStep([ClosedVideo EXCEPT !.open = TRUE],
               ReadsTasks("video page", And(net, "video page", "options", None, None)))

LeaveVideo ==
  /\ Spend("video page")
  /\ video.open
  /\ VideoStep(ClosedVideo, Without({"video page", "video form"}, net))

\* Nothing is shown while the options are read.
VideoShown == video.open /\ video.options # "loading"

\* The form is there with a provider; what is asked for fits what that one offers.
Generate ==
  /\ Spend("video")
  /\ VideoShown /\ video.options # None /\ ~video.sending
  /\ VideoStep([video EXCEPT !.sending = TRUE, !.failed = FALSE],
               And(net, "video form", "generate", None, video.options))

SelectTask(t) ==
  /\ Spend("select")
  /\ VideoShown /\ video.list[t] # "absent"
  /\ VideoStep([video EXCEPT !.selected = t], net)

\* What the player shows: the selected task, if the list has it.
Player == IF video.selected = None \/ video.list[video.selected] = "absent" THEN "nothing"
          ELSE IF video.list[video.selected] \in NonTerminal THEN "being made"
          ELSE video.list[video.selected]

\* Mutant of PollVideo: only for the task of the player.
PollVideoSelected ==
  /\ video.open /\ Player = "being made"
  /\ Cardinality({m \in net : m.by = "video page" /\ m.kind = "tasks"}) < left["polls"]
  /\ VideoStep(video, ReadsTasks("video page", net))
  /\ UNCHANGED left

\* Every five seconds while a task of the list is not at its end; answers may be
\* late, so that several requests are under way.
PollVideo ==
  /\ video.open /\ \E t \in Tasks : video.list[t] \in NonTerminal
  /\ Cardinality({m \in net : m.by = "video page" /\ m.kind = "tasks"}) < left["polls"]
  /\ VideoStep(video, ReadsTasks("video page", net))
  /\ UNCHANGED left

\* A list that cannot be read stays as it was; a new task is selected, and the
\* button is free again when the list was read.
DeliverVideos(m) ==
  /\ Answered(m)
  /\ UNCHANGED left
  /\ LET others == net \ {m}
         listed == [video EXCEPT !.list = IF Ok(m) THEN m.answer.data ELSE @]
     IN \/ /\ ~m.here
           /\ VideoStep(video, others)
        \/ /\ m.here /\ m.kind = "options"
           /\ VideoStep([video EXCEPT !.options = IF Ok(m) THEN m.answer.data ELSE None], others)
        \/ /\ m.here /\ m.by = "video page" /\ m.kind = "tasks"
           /\ VideoStep(listed, others)
        \/ /\ m.here /\ m.kind = "generate" /\ Ok(m)
           /\ VideoStep([video EXCEPT !.selected = m.answer.data], ReadsTasks("video form", others))
        \/ /\ m.here /\ m.kind = "generate" /\ ~Ok(m)
           /\ VideoStep([video EXCEPT !.sending = FALSE, !.failed = TRUE], others)
        \/ /\ m.here /\ m.by = "video form" /\ m.kind = "tasks"
           /\ VideoStep([listed EXCEPT !.sending = FALSE], others)

VideosUser == OpenVideo \/ LeaveVideo \/ Generate \/ PollVideo \/ \E t \in Tasks : SelectTask(t)

VideosServer == Crash \/ PollRound \/ \E t \in Tasks : RemoteEnds(t) \/ Ages(t) \/ Query(t) \/ QueryFails(t)
=============================================================================
