----------------------------- MODULE SerialJobs -----------------------------
(***************************************************************************)
(* What the job manager promises to the code that enqueues jobs, without   *)
(* tasks, locks, retries or a process: a job is queued, becomes active     *)
(* when no other job of its queue is, and is settled at last.  A settled   *)
(* job is never touched again; in particular a job that was cancelled      *)
(* before its turn never runs.                                             *)
(***************************************************************************)
CONSTANTS
  Jobs,     \* job ids
  Queues,   \* queue names
  QueueOf   \* the queue of each job

VARIABLE state  \* "absent", "queued", "active" or "settled" for each job

States == {"absent", "queued", "active", "settled"}

Init == state = [j \in Jobs |-> "absent"]

\* A job is accepted.
Submit(j) ==
  /\ state[j] = "absent"
  /\ state' = [state EXCEPT ![j] = "queued"]

\* A queued job gets its turn.
Begin(j) ==
  /\ state[j] = "queued"
  /\ \A i \in Jobs : QueueOf[i] = QueueOf[j] => state[i] # "active"
  /\ state' = [state EXCEPT ![j] = "active"]

\* An active job ends, or is put back when what executed it broke down.
Settle(j) ==
  /\ state[j] = "active"
  /\ \E s \in {"settled", "queued"} : state' = [state EXCEPT ![j] = s]

\* Queued jobs are withdrawn without having had their turn.
Withdraw(S) ==
  /\ \A j \in S : state[j] = "queued"
  /\ state' = [j \in Jobs |-> IF j \in S THEN "settled" ELSE state[j]]

\* The process ends: the active jobs are put back, or settled.
Interrupt(S) ==
  /\ \A j \in S : state[j] = "active"
  /\ state' = [j \in Jobs |-> IF state[j] # "active" THEN state[j]
                              ELSE IF j \in S THEN "settled" ELSE "queued"]

Next ==
  \/ \E j \in Jobs : Submit(j) \/ Begin(j) \/ Settle(j)
  \/ \E S \in SUBSET Jobs : Withdraw(S) \/ Interrupt(S)

Spec == Init /\ [][Next]_state
=============================================================================
