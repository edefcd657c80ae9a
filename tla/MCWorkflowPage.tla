--------------------------- MODULE MCWorkflowPage ---------------------------
(* Instances of WorkflowPage for TLC: what the user and the network do, and *)
(* how far the tasks have come when the page is opened.                     *)
EXTENDS WorkflowPage, TLC

Only(f) == [d \in Doings |-> IF d \in DOMAIN f THEN f[d] ELSE 0]

At(n)       == [done |-> n, failed |-> FALSE]
FailedAt(n) == [done |-> n, failed |-> TRUE]

Scenario(p, q, doings) ==
  [progress |-> "t1" :> p @@ "t2" :> q, doings |-> Only(doings)]

\* A new analysis that is cancelled or disturbed; two tasks that the user
\* switches between; one that had failed and is continued; a page that is left;
\* titles and deletions in the history; a rated step and the next one.
AllScenarios == {
  Scenario(At(1), At(0), "submit" :> 1 @@ "new" :> 1),
  Scenario(At(1), At(0), "submit" :> 1 @@ "lost" :> 1 @@ "choose" :> 1),
  Scenario(At(1), At(2), "history" :> 2 @@ "lost" :> 1),
  Scenario(At(3), At(0), "history" :> 2 @@ "proceed" :> 1),
  Scenario(At(5), At(0), "history" :> 1 @@ "proceed" :> 1),
  Scenario(At(4), At(0), "history" :> 1 @@ "proceed" :> 2),
  Scenario(At(1), At(0), "history" :> 1 @@ "proceed" :> 2 @@ "manual" :> 1),
  Scenario(FailedAt(3), At(0), "history" :> 1),
  Scenario(At(3), At(0), "history" :> 1 @@ "leave" :> 1),
  Scenario(At(3), At(4), "history" :> 1 @@ "rename" :> 2),
  Scenario(At(2), At(0), "history" :> 1 @@ "proceed" :> 1 @@ "delete" :> 1)
}

\* A task that had failed is continued, and continued again.
ContinuedOnce  == {Scenario(FailedAt(3), At(0), "history" :> 1)}
ContinuedTwice == {Scenario(FailedAt(3), At(0), "history" :> 2)}
=============================================================================
