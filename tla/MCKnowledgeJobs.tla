-------------------------- MODULE MCKnowledgeJobs --------------------------
(* Instances of KnowledgeJobs for TLC.  The base baseA gets three jobs of   *)
(* their own, so that two tasks can wait for its lock while a third one     *)
(* holds it; j4 repeats the idempotency key of j1.                          *)
EXTENDS KnowledgeJobs, TLC

CONSTANTS j1, j2, j3, j4, baseA, baseB, key

\* Everything on one queue.
OneQueue   == [j \in Jobs |-> baseA]
RepeatKey  == (j1 :> key @@ j2 :> NoKey @@ j3 :> NoKey @@ j4 :> key)

\* The last job belongs to another base.
TwoQueues  == (j1 :> baseA @@ j2 :> baseA @@ j3 :> baseA @@ j4 :> baseB)
NoKeys     == [j \in Jobs |-> NoKey]

\* Three jobs; j2 repeats the key of j1.
RepeatKey3 == (j1 :> key @@ j2 :> key @@ j3 :> NoKey)

\* j2 and j3 enter the instances OneQueue, TwoQueues, RepeatKey and NoKeys in
\* the same way.
Alike == Permutations({j2, j3})
=============================================================================
