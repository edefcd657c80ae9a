------------------------ MODULE KnowledgeItemsProofs ------------------------
(***************************************************************************)
(* Theorems about KnowledgeItems.                                          *)
(***************************************************************************)
EXTENDS KnowledgeItems, ItemTreeProofs, FiniteSetTheorems, SequenceTheorems

-----------------------------------------------------------------------------
(* The shape of the state                                                  *)

\* The ids in use are the first ones; an id without a row has no status.
RowsInOrder(it, st) ==
  /\ it \in [Items -> Rows]
  /\ \A i \in Items : it[i].group < i
  /\ \E n \in 0 .. MaxItems : \A i \in Items : it[i] # NoRow <=> i <= n
  /\ \A i \in Items : it[i].kind \in Kinds <=> it[i] # NoRow
  /\ st \in [Items -> Statuses]
  /\ \A i \in Items : it[i] = NoRow => st[i] = "absent"

\* What a job is for: one item of a kind that its handler works on.
RootKinds(type) ==
  CASE type = "index"   -> Leaves
    [] type = "prepare" -> {"directory"}
    [] OTHER            -> Kinds

\* A job is for one item of such a kind; one that deletes is for one item if no
\* more can be selected.
SoundJobs(it) ==
  {j \in Job :
     /\ j.type # "delete" => \E i \in Items : j.roots = {i} /\ it[i].kind \in RootKinds(j.type)
     /\ j.type = "delete" /\ MaxRoots = 1 => \E i \in Items : j.roots = {i}}

\* The queue of a base, and where the handler of its first job is.
QueueIsSound(it, q, s, f) ==
  /\ q \in Seq(SoundJobs(it))
  /\ s \in {"ready", "fetch", "embed", "backoff"}
  /\ f \in 0 .. MaxTries - 1
  /\ q = <<>> => s = "ready" /\ f = 0
  /\ s \in {"fetch", "embed"} => Head(q).type = "index"

\* A thread and process_url_item are at work only after a request for them, and
\* a thread has a verdict only for a container.
ThreadsAreSound ==
  /\ thread \in [at : Items \cup {NoItem},
                 verdict : {"none", "processing", "failed", "completed"}]
  /\ thread.verdict # "none" => /\ thread.at \in Items
                                /\ item[thread.at].kind = "directory"
  /\ spent["remove"] = 0 => thread = Idle
  /\ fetching \in Items \cup {NoItem}
  /\ spent["fetch"] = 0 => fetching = NoItem

Sound ==
  /\ RowsInOrder(item, status)
  /\ QueueIsSound(item, jobs, stage, fails)
  /\ ThreadsAreSound
  /\ vectors \subseteq {i \in Items : status[i] # "absent"}
  /\ place \in [Files -> Places]
  /\ keys \subseteq {"reindex", "delete"} \X SUBSET Items
  /\ spent \in [Requests -> Nat]

LEMMA SoundIsTyped == Sound => TypeOK
  <1> SUFFICES ASSUME Sound PROVE TypeOK
    OBVIOUS
  <1>1. SoundJobs(item) \subseteq Job
    BY DEF SoundJobs
  <1>2. jobs \in Seq(Job)
    BY <1>1 DEF Sound, QueueIsSound
  <1> QED
    BY <1>2 DEF Sound, TypeOK, RowsInOrder, QueueIsSound, ThreadsAreSound

-----------------------------------------------------------------------------
(* Rows                                                                    *)

\* The number of rows is the last id in use.
LEMMA MadeIsLast ==
  ASSUME RowsInOrder(item, status)
  PROVE  /\ Made \in 0 .. MaxItems
         /\ \A i \in Items : item[i] # NoRow <=> i <= Made
  <1>1. PICK n \in 0 .. MaxItems : \A i \in Items : item[i] # NoRow <=> i <= n
    BY DEF RowsInOrder
  <1>2. {i \in Items : item[i] # NoRow} = 1 .. n
    BY <1>1, MaxItemsAssumption DEF Items
  <1>3. Cardinality(1 .. n) = n
    BY <1>1, FS_Interval, SMT
  <1> QED
    BY <1>1, <1>2, <1>3 DEF Made

LEMMA RowsAreForest ==
  ASSUME NEW it, NEW st, RowsInOrder(it, st)
  PROVE  Forest(it)
  BY DEF RowsInOrder, Forest, Rows

\* Telling containers changes no row and removes none.
LEMMA RetoldInOrder ==
  ASSUME NEW it, NEW st, NEW st2,
         RowsInOrder(it, st), Retold(it, st, st2)
  PROVE  /\ RowsInOrder(it, st2)
         /\ \A i \in Items : st2[i] = "absent" <=> st[i] = "absent"
  BY DEF RowsInOrder, Retold

LEMMA WrittenInOrder ==
  ASSUME NEW it, NEW st, NEW i \in Items, NEW new \in Statuses \ {"absent"},
         RowsInOrder(it, st)
  PROVE  /\ RowsInOrder(it, Written(it, st, i, new))
         /\ \A k \in Items : Written(it, st, i, new)[k] = "absent" <=> st[k] = "absent"
  <1> DEFINE st1 == [st EXCEPT ![i] = new]
             st2 == Written(it, st, i, new)
  <1>1. Forest(it) /\ st \in [Items -> Statuses]
    BY RowsAreForest DEF RowsInOrder
  <1>2. st2 = st \/ (Present(st, i) /\ Retold(it, st1, st2))
    BY <1>1, WrittenRetells
  <1> HIDE DEF st2
  <1>3. Present(st, i) => /\ RowsInOrder(it, st1)
                          /\ \A k \in Items : st1[k] = "absent" <=> st[k] = "absent"
    BY DEF RowsInOrder, Present
  <1> HIDE DEF st1
  <1>4. /\ RowsInOrder(it, st2)
        /\ \A k \in Items : st2[k] = "absent" <=> st[k] = "absent"
    BY <1>2, <1>3, RetoldInOrder
  <1> QED
    BY <1>4 DEF st2

LEMMA RemovedInOrder ==
  ASSUME NEW it, NEW st, NEW gone, NEW groups \in Seq(Items \cup {NoItem}),
         RowsInOrder(it, st)
  PROVE  /\ RowsInOrder(it, Removed(it, st, gone, groups))
         /\ \A k \in Items : Removed(it, st, gone, groups)[k] = "absent"
                               <=> (k \in gone \/ st[k] = "absent")
  <1> DEFINE st1 == [i \in Items |-> IF i \in gone THEN "absent" ELSE st[i]]
             st2 == Removed(it, st, gone, groups)
  <1>1. Retold(it, st1, st2)
    BY RowsAreForest, RemovedRetells DEF RowsInOrder
  <1> HIDE DEF st2
  <1>2. /\ RowsInOrder(it, st1)
        /\ \A k \in Items : st1[k] = "absent" <=> (k \in gone \/ st[k] = "absent")
    BY DEF RowsInOrder, Statuses
  <1> HIDE DEF st1
  <1>3. /\ RowsInOrder(it, st2)
        /\ \A k \in Items : st2[k] = "absent" <=> (k \in gone \/ st[k] = "absent")
    BY <1>1, <1>2, RetoldInOrder
  <1> QED
    BY <1>3 DEF st2

-----------------------------------------------------------------------------
(* The queue                                                               *)

\* What a job of an item was for, it is for when other items are added.
LEMMA SoundJobsGrow ==
  ASSUME NEW it, NEW it2,
         \A i \in Items : it[i] # NoRow => it2[i] = it[i]
  PROVE  /\ SoundJobs(it) \subseteq SoundJobs(it2)
         /\ Seq(SoundJobs(it)) \subseteq Seq(SoundJobs(it2))
  <1>1. \A i \in Items : it[i].kind \in Kinds => it2[i] = it[i]
    BY DEF NoRow, Kinds, Leaves
  <1>2. \A type : RootKinds(type) \subseteq Kinds
    BY DEF RootKinds, Kinds
  <1>3. SoundJobs(it) \subseteq SoundJobs(it2)
    BY <1>1, <1>2 DEF SoundJobs
  <1> QED
    BY <1>3

\* The item that the first job is for.
LEMMA RootIsThere ==
  ASSUME QueueIsSound(item, jobs, stage, fails),
         jobs # <<>>, Head(jobs).type # "delete"
  PROVE  /\ Root \in Items
         /\ Head(jobs).roots = {Root}
         /\ item[Root].kind \in RootKinds(Head(jobs).type)
  <1>1. Head(jobs) \in SoundJobs(item)
    BY DEF QueueIsSound
  <1>2. PICK i \in Items : /\ Head(jobs).roots = {i}
                           /\ item[i].kind \in RootKinds(Head(jobs).type)
    BY <1>1 DEF SoundJobs
  <1>3. Root = i
    BY <1>2 DEF Root
  <1> QED
    BY <1>2, <1>3

\* The jobs of a queue.
Queued(q) == {q[k] : k \in 1 .. Len(q)}

LEMMA QueuedIs ==
  ASSUME NEW S, NEW q \in Seq(S)
  PROVE  /\ Queued(q) \subseteq S
         /\ \A j \in S : Queued(Append(q, j)) = Queued(q) \cup {j}
         /\ \A r \in Seq(S) : Queued(q \o r) = Queued(q) \cup Queued(r)
         /\ q # <<>> => /\ Head(q) \in S
                        /\ Tail(q) \in Seq(S)
                        /\ Queued(q) = {Head(q)} \cup Queued(Tail(q))
  <1>1. Queued(q) \subseteq S
    BY DEF Queued
  <1>2. ASSUME NEW j \in S
        PROVE  Queued(Append(q, j)) = Queued(q) \cup {j}
    <2>1. Len(Append(q, j)) = Len(q) + 1 /\ Len(q) \in Nat
      OBVIOUS
    <2>2. \A k \in 1 .. Len(q) + 1 :
            Append(q, j)[k] = IF k = Len(q) + 1 THEN j ELSE q[k]
      OBVIOUS
    <2>3. Len(q) + 1 \in 1 .. Len(q) + 1
      BY <2>1
    <2> QED
      BY <2>1, <2>2, <2>3 DEF Queued
  <1>3. ASSUME NEW r \in Seq(S)
        PROVE  Queued(q \o r) = Queued(q) \cup Queued(r)
    <2>1. Len(q \o r) = Len(q) + Len(r) /\ Len(q) \in Nat /\ Len(r) \in Nat
      OBVIOUS
    <2>2. \A k \in 1 .. Len(q) + Len(r) :
            (q \o r)[k] = IF k <= Len(q) THEN q[k] ELSE r[k - Len(q)]
      OBVIOUS
    <2>3. \A k \in 1 .. Len(q) : k \in 1 .. Len(q) + Len(r) /\ k <= Len(q)
      BY <2>1
    <2>4. \A k \in 1 .. Len(r) : /\ k + Len(q) \in 1 .. Len(q) + Len(r)
                                 /\ ~(k + Len(q) <= Len(q))
                                 /\ k + Len(q) - Len(q) = k
      BY <2>1
    <2>5. Queued(q \o r) \subseteq Queued(q) \cup Queued(r)
      <3>1. ASSUME NEW k \in 1 .. Len(q) + Len(r)
            PROVE  (q \o r)[k] \in Queued(q) \cup Queued(r)
        <4>1. CASE k <= Len(q)
          BY <2>1, <2>2, <4>1 DEF Queued
        <4>2. CASE ~(k <= Len(q))
          <5>1. k - Len(q) \in 1 .. Len(r) /\ (q \o r)[k] = r[k - Len(q)]
            BY <2>1, <2>2, <4>2
          <5> QED
            BY <5>1 DEF Queued
        <4> QED
          BY <4>1, <4>2
      <3> QED
        BY <2>1, <3>1 DEF Queued
    <2>6. Queued(q) \subseteq Queued(q \o r)
      BY <2>1, <2>2, <2>3 DEF Queued
    <2>7. Queued(r) \subseteq Queued(q \o r)
      <3>1. ASSUME NEW k \in 1 .. Len(r)
            PROVE  r[k] \in Queued(q \o r)
        <4>1. (q \o r)[k + Len(q)] = r[k]
          BY <2>2, <2>4
        <4> QED
          BY <2>1, <2>4, <4>1 DEF Queued
      <3> QED
        BY <3>1 DEF Queued
    <2> QED
      BY <2>5, <2>6, <2>7
  <1>4. ASSUME q # <<>>
        PROVE  /\ Head(q) \in S
               /\ Tail(q) \in Seq(S)
               /\ Queued(q) = {Head(q)} \cup Queued(Tail(q))
    <2>1. Head(q) \in S /\ Tail(q) \in Seq(S)
      BY <1>4
    <2>2. /\ Len(q) \in Nat \ {0} /\ Head(q) = q[1]
          /\ Len(Tail(q)) = Len(q) - 1
          /\ \A k \in 1 .. Len(q) - 1 : Tail(q)[k] = q[k + 1]
      BY <1>4
    <2>3. \A k \in 1 .. Len(q) : k = 1 \/ (k - 1 \in 1 .. Len(q) - 1 /\ Tail(q)[k - 1] = q[k])
      BY <2>2
    <2>4. \A k \in 1 .. Len(q) - 1 : k + 1 \in 1 .. Len(q)
      BY <2>2
    <2>5. 1 \in 1 .. Len(q)
      BY <2>2
    <2>6. Queued(q) \subseteq {Head(q)} \cup Queued(Tail(q))
      BY <2>2, <2>3 DEF Queued
    <2>7. {Head(q)} \cup Queued(Tail(q)) \subseteq Queued(q)
      BY <2>2, <2>4, <2>5 DEF Queued
    <2> QED
      BY <2>1, <2>6, <2>7
  <1> QED
    BY <1>1, <1>2, <1>3, <1>4

\* A cancellation takes the jobs of doomed items out of the queue, and no other.
LEMMA UncancelledIs ==
  ASSUME NEW S, NEW q \in Seq(S), NEW doomed
  PROVE  /\ Uncancelled(q, doomed) \in Seq(S)
         /\ \A j : j \in Queued(Uncancelled(q, doomed))
                     <=> j \in Queued(q) /\ j.roots \cap doomed = {}
  <1> DEFINE N == Len(q)
             Keeps(j) == j.roots \cap doomed = {}
             Body(f) == [n \in 0 .. N |-> IF n = 0 THEN <<>>
                                          ELSE IF q[n].roots \cap doomed = {} THEN Append(f[n - 1], q[n])
                                          ELSE f[n - 1]]
             kept == CHOOSE f : f = Body(f)
             G == [p \in (1 .. N) \X Seq(S) |-> IF Keeps(q[p[1]]) THEN Append(p[2], q[p[1]]) ELSE p[2]]
             Good == [n \in 0 .. N |-> {x \in Seq(S) :
                        \A j : j \in Queued(x) <=> \E k \in 1 .. n : q[k] = j /\ Keeps(j)}]
  <1>1. N \in Nat /\ \A n \in 1 .. N : q[n] \in S
    OBVIOUS
  <1>2. Uncancelled(q, doomed) = kept[N]
    BY DEF Uncancelled
  <1>3. ASSUME NEW n \in 1 .. N, NEW x \in Seq(S)
        PROVE  /\ G[<<n, x>>] = IF Keeps(q[n]) THEN Append(x, q[n]) ELSE x
               /\ G[<<n, x>>] \in Seq(S)
    <2> HIDE DEF N, Keeps
    <2>1. <<n, x>> \in (1 .. N) \X Seq(S)
      OBVIOUS
    <2>2. G[<<n, x>>] = IF Keeps(q[n]) THEN Append(x, q[n]) ELSE x
      BY <2>1
    <2> QED
      BY <1>1, <2>2
  <1> HIDE DEF N, G
  <1>4. HasRounds(N, <<>>, G, Seq(S))
    <2>1. <<>> \in Seq(S)
      OBVIOUS
    <2>2. \A n \in 1 .. N : \A x \in Seq(S) : G[<<n, x>>] \in Seq(S)
      BY <1>3
    <2> QED
      BY <1>1, <2>1, <2>2, RoundsExist
  <1>5. \E f : f = Body(f)
    <2>1. PICK f \in [0 .. N -> Seq(S)] :
                 f[0] = <<>> /\ \A n \in 1 .. N : f[n] = G[<<n, f[n - 1]>>]
      BY <1>4 DEF HasRounds
    <2>2. \A n \in 1 .. N : f[n] = IF Keeps(q[n]) THEN Append(f[n - 1], q[n]) ELSE f[n - 1]
      <3> HIDE DEF Keeps
      <3>1. ASSUME NEW n \in 1 .. N PROVE f[n - 1] \in Seq(S)
        BY <1>1
      <3> QED
        BY <1>3, <2>1, <3>1
    <2>3. ASSUME NEW n \in 0 .. N
          PROVE  f[n] = Body(f)[n]
      <3>1. Body(f)[n] = IF n = 0 THEN <<>>
                         ELSE IF Keeps(q[n]) THEN Append(f[n - 1], q[n])
                         ELSE f[n - 1]
        OBVIOUS
      <3> HIDE DEF Body, Keeps
      <3>2. n = 0 \/ n \in 1 .. N
        BY <1>1
      <3> QED
        BY <1>1, <2>1, <2>2, <3>1, <3>2
    <2>4. f = [n \in 0 .. N |-> f[n]] /\ Body(f) = [n \in 0 .. N |-> Body(f)[n]]
      OBVIOUS
    <2>5. f = Body(f)
      <3> HIDE DEF Body
      <3> QED
        BY <2>3, <2>4
    <2> QED
      BY <2>5
  <1>6. kept = Body(kept)
    <2> HIDE DEF Body
    <2> QED
      BY <1>5
  <1> HIDE DEF kept
  <1>7. /\ kept[0] = <<>>
        /\ \A n \in 1 .. N : kept[n] = IF Keeps(q[n]) THEN Append(kept[n - 1], q[n])
                                                     ELSE kept[n - 1]
    <2>1. \A n \in 0 .. N : kept[n] = Body(kept)[n]
      <3> HIDE DEF Body
      <3> QED
        BY <1>6
    <2> QED
      BY <1>1, <2>1
  <1> HIDE DEF Keeps
  <1>8. kept[0] \in Good[0]
    BY <1>1, <1>7 DEF Queued
  <1>9. ASSUME NEW n \in 1 .. N, kept[n - 1] \in Good[n - 1]
        PROVE  kept[n] \in Good[n]
    <2> DEFINE x == kept[n - 1]
    <2>1. /\ x \in Seq(S)
          /\ \A j : j \in Queued(x) <=> \E k \in 1 .. n - 1 : q[k] = j /\ Keeps(j)
      BY <1>1, <1>9
    <2>2. \A k : k \in 1 .. n <=> (k \in 1 .. n - 1 \/ k = n)
      BY <1>1
    <2> HIDE DEF x
    <2>3. CASE Keeps(q[n])
      <3>1. kept[n] = Append(x, q[n])
        BY <1>7, <2>3 DEF x
      <3>2. Queued(kept[n]) = Queued(x) \cup {q[n]} /\ kept[n] \in Seq(S)
        BY <1>1, <2>1, <3>1, QueuedIs
      <3>3. \A j : j \in Queued(kept[n]) <=> \E k \in 1 .. n : q[k] = j /\ Keeps(j)
        BY <2>1, <2>2, <2>3, <3>2
      <3> QED
        BY <1>1, <3>2, <3>3
    <2>4. CASE ~Keeps(q[n])
      <3>1. kept[n] = x
        BY <1>7, <2>4 DEF x
      <3>2. \A j : j \in Queued(kept[n]) <=> \E k \in 1 .. n : q[k] = j /\ Keeps(j)
        BY <2>1, <2>2, <2>4, <3>1
      <3> QED
        BY <1>1, <2>1, <3>1, <3>2
    <2> QED
      BY <2>3, <2>4
  <1>10. kept[N] \in Good[N]
    <2> HIDE DEF Good
    <2>1. \A n \in 0 .. N : kept[n] \in Good[n]
      BY <1>1, <1>8, <1>9, RoundsPreserve
    <2> QED
      BY <1>1, <2>1
  <1>11. /\ kept[N] \in Seq(S)
         /\ \A j : j \in Queued(kept[N]) <=> \E k \in 1 .. N : q[k] = j /\ Keeps(j)
    BY <1>1, <1>10
  <1>12. \A j : j \in Queued(q) <=> \E k \in 1 .. N : q[k] = j
    BY DEF Queued, N
  <1> QED
    BY <1>2, <1>11, <1>12 DEF Keeps

-----------------------------------------------------------------------------
(* How an attempt ends                                                     *)

LEMMA OnSettledInOrder ==
  ASSUME NEW it, NEW st, NEW job \in SoundJobs(it),
         RowsInOrder(it, st)
  PROVE  /\ RowsInOrder(it, OnSettled(it, st, job))
         /\ \A k \in Items : OnSettled(it, st, job)[k] = "absent" <=> st[k] = "absent"
  <1> DEFINE r == CHOOSE r \in job.roots : TRUE
  <1>1. CASE job.type = "delete"
    BY <1>1 DEF OnSettled
  <1>2. CASE job.type # "delete"
    <2>1. r \in Items
      BY <1>2 DEF SoundJobs
    <2>2. OnSettled(it, st, job) \in {st, Written(it, st, r, "failed")}
      BY DEF OnSettled
    <2>3. "failed" \in Statuses \ {"absent"}
      BY DEF Statuses
    <2> HIDE DEF r
    <2> QED
      BY <2>1, <2>2, <2>3, WrittenInOrder
  <1> QED
    BY <1>1, <1>2

LEMMA RaisesSound ==
  ASSUME NEW it, NEW st, NEW q \in Seq(SoundJobs(it)),
         q # <<>>, RowsInOrder(it, st), fails \in 0 .. MaxTries - 1,
         Raises(it, st, q)
  PROVE  /\ RowsInOrder(it, status')
         /\ \A k \in Items : status'[k] = "absent" <=> st[k] = "absent"
         /\ QueueIsSound(it, jobs', stage', fails')
  <1>1. MaxTries \in Nat /\ MaxTries > 1
    BY ItemsAssumption
  <1>2. Head(q) \in SoundJobs(it) /\ Tail(q) \in Seq(SoundJobs(it))
    OBVIOUS
  <1>3. CASE fails + 1 < MaxTries /\ status' = st /\ jobs' = q /\ stage' = "backoff" /\ fails' = fails + 1
    BY <1>1, <1>3 DEF QueueIsSound
  <1>4. CASE Returns(OnSettled(it, st, Head(q)), Tail(q))
    <2>1. QueueIsSound(it, jobs', stage', fails')
      BY <1>1, <1>2, <1>4 DEF Returns, QueueIsSound
    <2> QED
      BY <1>2, <1>4, <2>1, OnSettledInOrder DEF Returns
  <1> QED
    BY <1>3, <1>4 DEF Raises

LEMMA SpendCounts ==
  ASSUME NEW r \in Requests, spent \in [Requests -> Nat], Spend(r)
  PROVE  /\ spent' \in [Requests -> Nat]
         /\ spent'[r] = spent[r] + 1
         /\ \A q \in Requests : q # r => spent'[q] = spent[q]
  BY DEF Spend

LEMMA RestartsSound ==
  ASSUME NEW it, NEW st, jobs \in Seq(SoundJobs(it)), jobs # <<>>, RowsInOrder(it, st),
         spent \in [Requests -> Nat],
         Restarts(st)
  PROVE  /\ RowsInOrder(it, status')
         /\ status' = st
         /\ QueueIsSound(it, jobs', stage', fails')
         /\ ThreadsAreSound'
         /\ spent' \in [Requests -> Nat]
  <1>1. SubSeq(jobs, 1, 1) \in Seq(SoundJobs(it))
    OBVIOUS
  <1>2. QueueIsSound(it, jobs', stage', fails')
    BY <1>1, ItemsAssumption DEF Restarts, QueueIsSound
  <1>3. spent' \in [Requests -> Nat]
    BY SpendCounts DEF Restarts, Requests
  <1> QED
    BY <1>2, <1>3 DEF Restarts, ThreadsAreSound, Idle

\* A step that leaves the threads and the rows alone.
LEMMA ThreadsStay ==
  ASSUME Sound, UNCHANGED others,
         \A i \in Items : item[i] # NoRow => item'[i] = item[i],
         UNCHANGED spent \/ \E r \in Requests : Spend(r)
  PROVE  ThreadsAreSound' /\ spent' \in [Requests -> Nat]
  <1>1. spent' \in [Requests -> Nat] /\ \A q \in Requests : spent'[q] = 0 => spent[q] = 0
    <2>1. CASE UNCHANGED spent
      BY <2>1 DEF Sound
    <2>2. ASSUME NEW r \in Requests, Spend(r)
          PROVE  spent' \in [Requests -> Nat] /\ \A q \in Requests : spent'[q] = 0 => spent[q] = 0
      BY <2>2, SpendCounts DEF Sound
    <2> QED
      BY <2>1, <2>2
  <1>2. "remove" \in Requests /\ "fetch" \in Requests
    BY DEF Requests
  <1>3. \A i \in Items : item[i].kind = "directory" => item'[i] = item[i]
    BY DEF NoRow
  <1> QED
    BY <1>1, <1>2, <1>3 DEF Sound, ThreadsAreSound, others

-----------------------------------------------------------------------------
(* The shape is kept by the routes                                         *)

\* The row of a new item is the next one.
LEMMA NewRowInOrder ==
  ASSUME Sound, Room(1), NEW row \in Rows, NEW st \in Statuses,
         row.kind \in Kinds, row.group = NoItem \/ Here(row.group)
  PROVE  /\ Made + 1 \in Items
         /\ item[Made + 1] = NoRow
         /\ RowsInOrder([item EXCEPT ![Made + 1] = row], [status EXCEPT ![Made + 1] = st])
         /\ \A i \in Items : item[i] # NoRow => [item EXCEPT ![Made + 1] = row][i] = item[i]
  <1> DEFINE it == [item EXCEPT ![Made + 1] = row]
             st2 == [status EXCEPT ![Made + 1] = st]
             n == Made
  <1>1. RowsInOrder(item, status)
    BY DEF Sound
  <1>2. n \in 0 .. MaxItems /\ \A i \in Items : item[i] # NoRow <=> i <= n
    BY <1>1, MadeIsLast
  <1>3. n + 1 <= MaxItems
    BY DEF Room
  <1> HIDE DEF n
  <1>4. n + 1 \in Items /\ n + 1 \in 1 .. MaxItems /\ n + 1 \in 0 .. MaxItems
    BY <1>2, <1>3 DEF Items
  <1>5. item[n + 1] = NoRow
    BY <1>2, <1>4
  <1>6. row # NoRow
    BY DEF NoRow, Kinds, Leaves
  <1>7. row.group < n + 1
    <2>1. CASE row.group = NoItem
      BY <1>2, <2>1 DEF NoItem
    <2>2. CASE row.group # NoItem
      <3>1. row.group \in Items /\ item[row.group] # NoRow
        BY <1>1, <2>2 DEF RowsInOrder, Here, Present, Rows
      <3> QED
        BY <1>2, <3>1 DEF Items
    <2> QED
      BY <2>1, <2>2
  <1>8. \A i \in Items : [item EXCEPT ![n + 1] = row][i] = IF i = n + 1 THEN row ELSE item[i]
    BY <1>1, <1>4 DEF RowsInOrder
  <1>9. \A i \in Items : [item EXCEPT ![n + 1] = row][i] # NoRow <=> i <= n + 1
    BY <1>2, <1>6, <1>8 DEF Items
  <1>10. RowsInOrder([item EXCEPT ![n + 1] = row], [status EXCEPT ![n + 1] = st])
    <2>1. [item EXCEPT ![n + 1] = row] \in [Items -> Rows]
      BY <1>1, <1>4 DEF RowsInOrder
    <2>2. [status EXCEPT ![n + 1] = st] \in [Items -> Statuses]
      BY <1>1, <1>4 DEF RowsInOrder
    <2>3. \A i \in Items : [item EXCEPT ![n + 1] = row][i].group < i
      BY <1>1, <1>7, <1>8 DEF RowsInOrder
    <2>4. \A i \in Items : [item EXCEPT ![n + 1] = row][i].kind \in Kinds
                             <=> [item EXCEPT ![n + 1] = row][i] # NoRow
      BY <1>1, <1>6, <1>8 DEF RowsInOrder
    <2>5. \A i \in Items : [item EXCEPT ![n + 1] = row][i] = NoRow
                            => [status EXCEPT ![n + 1] = st][i] = "absent"
      BY <1>1, <1>6, <1>8 DEF RowsInOrder
    <2> QED
      BY <1>4, <1>9, <2>1, <2>2, <2>3, <2>4, <2>5 DEF RowsInOrder
  <1> QED
    BY <1>4, <1>5, <1>8, <1>10 DEF n

\* What is left to show of a route that enqueues a job for a new row.
LEMMA NewJobSound ==
  ASSUME Sound, NEW it, NEW i \in Items, NEW type \in {"index", "prepare"},
         it[i].kind \in RootKinds(type),
         \A k \in Items : item[k] # NoRow => it[k] = item[k]
  PROVE  QueueIsSound(it, Append(jobs, NewJob(type, i)), stage, fails)
  <1>1. NewJob(type, i) \in SoundJobs(it)
    BY DEF NewJob, SoundJobs, Job
  <1>2. jobs \in Seq(SoundJobs(it)) /\ QueueIsSound(item, jobs, stage, fails)
    BY SoundJobsGrow DEF Sound, QueueIsSound
  <1>3. /\ Append(jobs, NewJob(type, i)) \in Seq(SoundJobs(it))
        /\ Append(jobs, NewJob(type, i)) # <<>>
        /\ jobs # <<>> => Head(Append(jobs, NewJob(type, i))) = Head(jobs)
    BY <1>1, <1>2
  <1> QED
    BY <1>2, <1>3 DEF QueueIsSound

LEMMA AddItemSound ==
  ASSUME Sound, NEW kind \in {"note", "url", "directory"}, NEW group \in Items \cup {NoItem},
         AddItem(kind, group)
  PROVE  Sound'
  <1> DEFINE i       == Made + 1
             row     == Row(kind, group, NoFile, {})
             initial == IF kind = "directory" THEN "preparing" ELSE "processing"
             type    == IF kind = "directory" THEN "prepare" ELSE "index"
             st1     == [status EXCEPT ![i] = "idle"]
  <1>1. /\ Room(1)
        /\ group = NoItem \/ Here(group)
        /\ item' = [item EXCEPT ![i] = row]
        /\ status' = Written(item', st1, i, initial)
        /\ jobs' = Append(jobs, NewJob(type, i))
        /\ UNCHANGED <<place, vectors, stage, fails, keys, others>>
        /\ Spend("add")
    BY DEF AddItem
  <1>2. row \in Rows /\ row.kind = kind /\ row.kind \in Kinds /\ row.group = group
    BY DEF Row, Rows, Kinds, Leaves
  <1>3. initial \in Statuses \ {"absent"} /\ "idle" \in Statuses
    BY DEF Statuses, Active
  <1> HIDE DEF row
  <1>4. /\ i \in Items /\ item[i] = NoRow
        /\ RowsInOrder(item', st1)
        /\ \A k \in Items : item[k] # NoRow => item'[k] = item[k]
    BY <1>1, <1>2, <1>3, NewRowInOrder
  <1>5. item'[i] = row
    BY <1>1, <1>4 DEF Sound, RowsInOrder
  <1> HIDE DEF i, st1, initial
  <1>6. /\ RowsInOrder(item', status')
        /\ \A k \in Items : status'[k] = "absent" <=> st1[k] = "absent"
    <2>1. status' = Written(item', st1, i, initial)
      BY <1>1
    <2> QED
      BY <1>3, <1>4, <2>1, WrittenInOrder
  <1>7. type \in {"index", "prepare"} /\ item'[i].kind \in RootKinds(type)
    BY <1>2, <1>5 DEF RootKinds, Leaves
  <1> HIDE DEF type
  <1>8. QueueIsSound(item', jobs', stage', fails')
    BY <1>1, <1>4, <1>7, NewJobSound
  <1>9. "add" \in Requests
    BY DEF Requests
  <1>10. ThreadsAreSound' /\ spent' \in [Requests -> Nat]
    BY <1>1, <1>4, <1>9, ThreadsStay
  <1>11. vectors' \subseteq {k \in Items : status'[k] # "absent"}
    <2>1. \A k \in Items : status[k] # "absent" => st1[k] # "absent"
      BY DEF st1, Sound, RowsInOrder
    <2> QED
      BY <1>1, <1>6, <2>1 DEF Sound
  <1> QED
    BY <1>1, <1>6, <1>8, <1>10, <1>11 DEF Sound

LEMMA UploadSound ==
  ASSUME Sound, NEW f \in Files, NEW where \in {"disk", "s3"},
         Upload(f, where)
  PROVE  Sound'
  <1> DEFINE i   == Made + 1
             row == Row("file", NoItem, f, {})
  <1>1. /\ Room(1)
        /\ item' = [item EXCEPT ![i] = row]
        /\ status' = [status EXCEPT ![i] = "processing"]
        /\ place' = [place EXCEPT ![f] = where]
        /\ jobs' = Append(jobs, NewJob("index", i))
        /\ UNCHANGED <<vectors, stage, fails, keys, others>>
        /\ Spend("upload")
    BY DEF Upload
  <1>2. /\ row \in Rows /\ row.kind = "file" /\ row.kind \in Kinds /\ row.group = NoItem
        /\ "processing" \in Statuses
    BY DEF Row, Rows, Kinds, Leaves, Statuses, Active
  <1> HIDE DEF row
  <1>3. /\ i \in Items /\ item[i] = NoRow
        /\ RowsInOrder(item', status')
        /\ \A k \in Items : item[k] # NoRow => item'[k] = item[k]
    BY <1>1, <1>2, NewRowInOrder
  <1>4. item'[i].kind \in RootKinds("index")
    BY <1>1, <1>2, <1>3 DEF Sound, RowsInOrder, RootKinds, Leaves
  <1> HIDE DEF i
  <1>5. QueueIsSound(item', jobs', stage', fails')
    BY <1>1, <1>3, <1>4, NewJobSound
  <1>6. "upload" \in Requests
    BY DEF Requests
  <1>7. ThreadsAreSound' /\ spent' \in [Requests -> Nat]
    BY <1>1, <1>3, <1>6, ThreadsStay
  <1>8. vectors' \subseteq {k \in Items : status'[k] # "absent"}
    BY <1>1, <1>3 DEF Sound, RowsInOrder
  <1>9. place' \in [Files -> Places]
    BY <1>1 DEF Sound, Places
  <1> QED
    BY <1>1, <1>3, <1>5, <1>7, <1>8, <1>9 DEF Sound

LEMMA ImportSound ==
  ASSUME Sound, NEW T \in SUBSET Files, NEW where \in [T -> {"disk", "s3"}],
         Import(T, where)
  PROVE  Sound'
  <1> DEFINE i   == Made + 1
             row == Row("directory", NoItem, NoFile, T)
  <1>1. /\ Room(1 + Cardinality(T))
        /\ item' = [item EXCEPT ![i] = row]
        /\ status' = [status EXCEPT ![i] = "idle"]
        /\ place' = [f \in Files |-> IF f \in T THEN where[f] ELSE place[f]]
        /\ jobs' = Append(jobs, NewJob("prepare", i))
        /\ UNCHANGED <<vectors, stage, fails, keys, others>>
        /\ Spend("import")
    BY DEF Import
  <1>2. /\ row \in Rows /\ row.kind = "directory" /\ row.kind \in Kinds /\ row.group = NoItem
        /\ "idle" \in Statuses
    BY DEF Row, Rows, Kinds, Statuses, Active
  <1> HIDE DEF row
  <1>3. Room(1)
    <2>1. IsFiniteSet(T)
      BY ItemsAssumption, FS_Subset
    <2>2. Cardinality(T) \in Nat
      BY <2>1, FS_CardinalityType
    <2>3. Made \in Nat
      BY MadeIsLast DEF Sound
    <2> QED
      BY <1>1, <2>2, <2>3, MaxItemsAssumption DEF Room
  <1>4. /\ i \in Items /\ item[i] = NoRow
        /\ RowsInOrder(item', status')
        /\ \A k \in Items : item[k] # NoRow => item'[k] = item[k]
    BY <1>1, <1>2, <1>3, NewRowInOrder
  <1>5. item'[i].kind \in RootKinds("prepare")
    BY <1>1, <1>2, <1>4 DEF Sound, RowsInOrder, RootKinds
  <1> HIDE DEF i
  <1>6. QueueIsSound(item', jobs', stage', fails')
    BY <1>1, <1>4, <1>5, NewJobSound
  <1>7. "import" \in Requests
    BY DEF Requests
  <1>8. ThreadsAreSound' /\ spent' \in [Requests -> Nat]
    BY <1>1, <1>4, <1>7, ThreadsStay
  <1>9. vectors' \subseteq {k \in Items : status'[k] # "absent"}
    BY <1>1, <1>4 DEF Sound, RowsInOrder
  <1>10. place' \in [Files -> Places]
    BY <1>1 DEF Sound, Places
  <1> QED
    BY <1>1, <1>4, <1>6, <1>8, <1>9, <1>10 DEF Sound

\* enqueue leaves a queue of jobs that are for something.
LEMMA EnqueueSound ==
  ASSUME Sound, NEW type \in {"reindex", "delete"}, NEW roots \in SUBSET Items,
         type = "reindex" => \E i \in Items : roots = {i} /\ item[i] # NoRow,
         type = "delete" /\ MaxRoots = 1 => \E i \in Items : roots = {i},
         EnqueueOnce(type, roots)
  PROVE  /\ QueueIsSound(item, jobs', stage, fails)
         /\ keys' \subseteq {"reindex", "delete"} \X SUBSET Items
  <1> DEFINE job == [type |-> type, roots |-> roots]
  <1>1. job \in SoundJobs(item)
    BY DEF SoundJobs, Job, RootKinds, Sound, RowsInOrder
  <1>2. jobs' \in {jobs, Append(jobs, job)}
    BY DEF EnqueueOnce
  <1> HIDE DEF job
  <1>3. QueueIsSound(item, jobs, stage, fails)
    BY DEF Sound
  <1>4. /\ Append(jobs, job) \in Seq(SoundJobs(item))
        /\ Append(jobs, job) # <<>>
        /\ jobs # <<>> => Head(Append(jobs, job)) = Head(jobs)
    <2> DEFINE S == SoundJobs(item)
    <2>1. jobs \in Seq(S) /\ job \in S
      BY <1>1, <1>3 DEF QueueIsSound
    <2> HIDE DEF S
    <2>2. Append(jobs, job) \in Seq(S)
      BY <2>1
    <2>3. Append(jobs, job) # <<>>
      BY <2>1
    <2>4. jobs # <<>> => Head(Append(jobs, job)) = Head(jobs)
      BY <2>1
    <2> QED
      BY <2>2, <2>3, <2>4 DEF S
  <1>5. QueueIsSound(item, jobs', stage, fails)
    BY <1>2, <1>3, <1>4 DEF QueueIsSound
  <1>6. keys' \subseteq {"reindex", "delete"} \X SUBSET Items
    BY DEF Sound, EnqueueOnce
  <1> QED
    BY <1>5, <1>6

LEMMA RequestReindexSound ==
  ASSUME Sound, NEW r \in Items, RequestReindex(r)
  PROVE  Sound'
  <1>1. EnqueueOnce("reindex", {r}) /\ Here(r) /\ Spend("reindex")
    BY DEF RequestReindex
  <1>2. UNCHANGED <<rows, place, vectors, stage, fails, others>>
    BY DEF RequestReindex
  <1>3. item[r] # NoRow
    BY <1>1 DEF Here, Present, Sound, RowsInOrder
  <1>4. /\ QueueIsSound(item, jobs', stage, fails)
        /\ keys' \subseteq {"reindex", "delete"} \X SUBSET Items
    BY <1>1, <1>3, EnqueueSound
  <1>5. "reindex" \in Requests
    BY DEF Requests
  <1>6. ThreadsAreSound' /\ spent' \in [Requests -> Nat]
    BY <1>1, <1>2, <1>5, ThreadsStay DEF rows
  <1> QED
    BY <1>2, <1>4, <1>6 DEF Sound, rows

LEMMA MarkedInOrder ==
  ASSUME NEW it, NEW st, NEW roots,
         RowsInOrder(it, st)
  PROVE  /\ RowsInOrder(it, MarkedDeleting(it, st, roots))
         /\ \A k \in Items : MarkedDeleting(it, st, roots)[k] = "absent" <=> st[k] = "absent"
  <1>1. \A i \in Subtree(it, st, roots) : st[i] # "absent"
    BY SubtreeHolds DEF Present
  <1> QED
    BY <1>1 DEF MarkedDeleting, RowsInOrder, Statuses

\* If one item can be selected, one is.
LEMMA SelectsOne ==
  ASSUME MaxRoots = 1, NEW R \in SUBSET Items, R # {}, Cardinality(R) <= MaxRoots
  PROVE  \E r \in Items : R = {r} /\ Outermost(item, status, R) = {r}
  <1>1. PICK r \in R : TRUE
    OBVIOUS
  <1>2. IsFiniteSet(R)
    <2>1. IsFiniteSet(Items)
      BY MaxItemsAssumption, FS_Interval DEF Items
    <2> QED
      BY <2>1, FS_Subset
  <1>3. R = {r}
    <2>1. Cardinality(R) = 1
      <3>1. Cardinality(R) \in Nat /\ Cardinality(R) # 0
        BY <1>2, FS_CardinalityType, FS_EmptySet
      <3> QED
        BY <3>1
    <2>2. \E x : R = {x}
      BY <1>2, <2>1, FS_Singleton
    <2> QED
      BY <1>1, <2>2
  <1>4. Outermost(item, status, R) = {r}
    BY <1>3 DEF Outermost
  <1> QED
    BY <1>1, <1>3, <1>4

LEMMA RequestDeleteSound ==
  ASSUME Sound, NEW R \in SUBSET Items, Cardinality(R) <= MaxRoots, RequestDelete(R)
  PROVE  Sound'
  <1> DEFINE roots == Outermost(item, status, R)
  <1>1. /\ status' = MarkedDeleting(item, status, roots)
        /\ EnqueueOnce("delete", roots)
        /\ Spend("delete")
        /\ UNCHANGED <<item, place, vectors, stage, fails, others>>
    BY DEF RequestDelete
  <1>2. /\ roots \in SUBSET Items
        /\ MaxRoots = 1 => \E i \in Items : roots = {i}
    <2>1. R # {}
      BY DEF RequestDelete
    <2>2. MaxRoots = 1 => \E i \in Items : roots = {i}
      BY <2>1, SelectsOne
    <2> QED
      BY <2>2 DEF Outermost
  <1> HIDE DEF roots
  <1>3. /\ QueueIsSound(item, jobs', stage, fails)
        /\ keys' \subseteq {"reindex", "delete"} \X SUBSET Items
    BY <1>1, <1>2, EnqueueSound
  <1>4. /\ RowsInOrder(item, status')
        /\ \A k \in Items : status'[k] = "absent" <=> status[k] = "absent"
    BY <1>1, MarkedInOrder DEF Sound
  <1>5. "delete" \in Requests
    BY DEF Requests
  <1>6. ThreadsAreSound' /\ spent' \in [Requests -> Nat]
    BY <1>1, <1>5, ThreadsStay
  <1> QED
    BY <1>1, <1>3, <1>4, <1>6 DEF Sound

LEMMA FetchPageSound ==
  ASSUME Sound, NEW i \in Items, FetchPage(i)
  PROVE  Sound'
  <1>1. /\ Spend("fetch") /\ fetching' = i
        /\ UNCHANGED <<rows, place, vectors, queue, keys, thread>>
    BY DEF FetchPage
  <1>2. /\ spent' \in [Requests -> Nat]
        /\ spent'["fetch"] = spent["fetch"] + 1
        /\ spent'["remove"] = spent["remove"]
    BY <1>1, SpendCounts DEF Requests, Sound
  <1>3. spent["fetch"] \in Nat
    BY DEF Requests, Sound
  <1>4. ThreadsAreSound'
    BY <1>1, <1>2, <1>3 DEF Sound, ThreadsAreSound, rows
  <1> QED
    BY <1>1, <1>2, <1>4 DEF Sound, rows, queue

LEMMA PageFetchedSound ==
  ASSUME Sound, PageFetched
  PROVE  Sound'
  <1>1. /\ fetching' = NoItem
        /\ fetching # NoItem
        /\ UNCHANGED <<item, place, vectors, queue, keys, thread, spent>>
        /\ \/ Here(fetching) /\ status' = [status EXCEPT ![fetching] = "completed"]
           \/ UNCHANGED status
    BY DEF PageFetched
  <1>2. fetching \in Items /\ "completed" \in Statuses
    BY <1>1 DEF Sound, ThreadsAreSound, Statuses
  <1>3. /\ RowsInOrder(item, status')
        /\ \A k \in Items : status'[k] = "absent" <=> status[k] = "absent"
    BY <1>1, <1>2 DEF Sound, RowsInOrder, Here, Present
  <1>4. ThreadsAreSound'
    BY <1>1 DEF Sound, ThreadsAreSound
  <1> QED
    BY <1>1, <1>3, <1>4 DEF Sound, queue

LEMMA RemoveRowSound ==
  ASSUME Sound, NEW i \in Items, RemoveRow(i)
  PROVE  Sound'
  <1>1. /\ Spend("remove")
        /\ status' = [status EXCEPT ![i] = "absent"]
        /\ vectors' = vectors \ {i}
        /\ thread' = [at |-> item[i].group, verdict |-> "none"]
        /\ UNCHANGED <<item, place, queue, keys, fetching>>
    BY DEF RemoveRow
  <1>2. /\ spent' \in [Requests -> Nat]
        /\ spent'["remove"] = spent["remove"] + 1
        /\ spent'["fetch"] = spent["fetch"]
        /\ spent["remove"] \in Nat
    BY <1>1, SpendCounts DEF Requests, Sound
  <1>3. RowsInOrder(item, status')
    BY <1>1 DEF Sound, RowsInOrder, Statuses
  <1>4. item[i].group \in Items \cup {NoItem}
    BY DEF Sound, RowsInOrder, Rows
  <1>5. ThreadsAreSound'
    BY <1>1, <1>2, <1>4 DEF Sound, ThreadsAreSound
  <1>6. vectors' \subseteq {k \in Items : status'[k] # "absent"}
    BY <1>1 DEF Sound, RowsInOrder
  <1> QED
    BY <1>1, <1>2, <1>3, <1>5, <1>6 DEF Sound, queue

LEMMA ReadContainerSound ==
  ASSUME Sound, ReadContainer
  PROVE  Sound'
  <1> DEFINE c == thread.at
  <1>1. UNCHANGED <<rows, place, vectors, queue, keys, fetching, spent>>
    BY DEF ReadContainer
  <1>2. c \in Items /\ item[c].group \in Items \cup {NoItem}
    BY DEF ReadContainer, Sound, ThreadsAreSound, RowsInOrder, Rows
  <1>3. spent["remove"] # 0
    <2>1. thread # Idle
      BY DEF ReadContainer, Idle
    <2> QED
      BY <2>1 DEF Sound, ThreadsAreSound
  <1>4. CASE thread' = Idle
    BY <1>1, <1>3, <1>4 DEF Sound, ThreadsAreSound, Idle, rows, queue
  <1>5. CASE thread' = [at |-> item[c].group, verdict |-> "none"]
    BY <1>1, <1>2, <1>3, <1>5 DEF Sound, ThreadsAreSound, rows, queue
  <1>6. CASE ~Settled(item, status, c) /\ thread' = [thread EXCEPT !.verdict = Verdict(item, status, c)]
    <2>1. Verdict(item, status, c) \in {"processing", "failed", "completed"}
      BY DEF Verdict
    <2>2. item[c].kind = "directory"
      BY <1>6 DEF Settled
    <2>3. thread' \in [at : Items \cup {NoItem},
                       verdict : {"none", "processing", "failed", "completed"}]
      BY <1>6, <2>1 DEF Sound, ThreadsAreSound
    <2>4. thread'.at = c
      BY <1>6 DEF Sound, ThreadsAreSound
    <2>5. ThreadsAreSound'
      BY <1>1, <1>2, <1>3, <2>2, <2>3, <2>4 DEF Sound, ThreadsAreSound, rows
    <2> QED
      BY <1>1, <2>5 DEF Sound, rows, queue
  <1> QED
    BY <1>4, <1>5, <1>6 DEF ReadContainer

LEMMA WriteContainerSound ==
  ASSUME Sound, WriteContainer
  PROVE  Sound'
  <1> DEFINE c == thread.at
  <1>1. /\ thread.verdict # "none"
        /\ status' = [i \in Items |-> IF i = c /\ Here(i) THEN thread.verdict ELSE status[i]]
        /\ thread' = [at |-> item[c].group, verdict |-> "none"]
        /\ UNCHANGED <<item, place, vectors, queue, keys, fetching, spent>>
    BY DEF WriteContainer
  <1>2. /\ c \in Items /\ item[c].group \in Items \cup {NoItem}
        /\ thread.verdict \in {"processing", "failed", "completed"}
        /\ spent["remove"] # 0
    BY <1>1 DEF Sound, ThreadsAreSound, RowsInOrder, Rows, Idle
  <1>3. /\ RowsInOrder(item, status')
        /\ \A k \in Items : status'[k] = "absent" <=> status[k] = "absent"
    BY <1>1, <1>2 DEF Sound, RowsInOrder, Here, Present, Statuses, Active
  <1>4. ThreadsAreSound'
    BY <1>1, <1>2 DEF Sound, ThreadsAreSound
  <1> QED
    BY <1>1, <1>3, <1>4 DEF Sound, queue

LEMMA IdleCrashSound ==
  ASSUME Sound, IdleCrash
  PROVE  Sound'
  <1>1. /\ Spend("crash")
        /\ jobs' = <<>> /\ stage' = "ready" /\ fails' = 0
        /\ thread' = Idle /\ fetching' = NoItem
        /\ UNCHANGED <<rows, place, vectors, keys>>
    BY DEF IdleCrash
  <1>2. spent' \in [Requests -> Nat]
    BY <1>1, SpendCounts DEF Requests, Sound
  <1>3. QueueIsSound(item, jobs', stage', fails')
    BY <1>1, ItemsAssumption DEF QueueIsSound
  <1>4. ThreadsAreSound'
    BY <1>1 DEF ThreadsAreSound, Idle
  <1> QED
    BY <1>1, <1>2, <1>3, <1>4 DEF Sound, rows

-----------------------------------------------------------------------------
(* The shape is kept by the handlers                                       *)

\* What a handler leaves in the database is in order: rows are only added, and
\* nodes are those of items that are there.
InOrder(it, st, v, p) ==
  /\ RowsInOrder(it, st)
  /\ \A i \in Items : item[i] # NoRow => it[i] = item[i]
  /\ v \subseteq {i \in Items : st[i] # "absent"}
  /\ p \in [Files -> Places]

LEMMA ReturnsSound ==
  ASSUME Sound, NEW st, NEW q \in Seq(SoundJobs(item')),
         InOrder(item', st, vectors', place'),
         UNCHANGED <<keys, others, spent>>,
         Returns(st, q)
  PROVE  Sound'
  <1>1. QueueIsSound(item', jobs', stage', fails')
    BY ItemsAssumption DEF Returns, QueueIsSound
  <1>2. ThreadsAreSound' /\ spent' \in [Requests -> Nat]
    BY ThreadsStay DEF InOrder
  <1> QED
    BY <1>1, <1>2 DEF Sound, Returns, InOrder

LEMMA AttemptFailsSound ==
  ASSUME Sound, NEW st, NEW q \in Seq(SoundJobs(item')), q # <<>>,
         InOrder(item', st, vectors', place'),
         UNCHANGED <<keys, others>>, UNCHANGED spent \/ Spend("fault"),
         Raises(item', st, q)
  PROVE  Sound'
  <1>1. /\ RowsInOrder(item', status')
        /\ \A k \in Items : status'[k] = "absent" <=> st[k] = "absent"
        /\ QueueIsSound(item', jobs', stage', fails')
    BY RaisesSound DEF InOrder, Sound, QueueIsSound
  <1>2. "fault" \in Requests
    BY DEF Requests
  <1>3. ThreadsAreSound' /\ spent' \in [Requests -> Nat]
    BY <1>2, ThreadsStay DEF InOrder
  <1> QED
    BY <1>1, <1>3 DEF Sound, InOrder

LEMMA HandlerBreaksSound ==
  ASSUME Sound, NEW st, NEW q \in Seq(SoundJobs(item')), q # <<>>, jobs # <<>>,
         InOrder(item', st, vectors', place'),
         UNCHANGED keys,
         Breaks(item', st, q)
  PROVE  Sound'
  <1>1. CASE Restarts(st)
    <2>1. jobs \in Seq(SoundJobs(item'))
      BY SoundJobsGrow DEF InOrder, Sound, QueueIsSound
    <2>2. /\ RowsInOrder(item', status') /\ status' = st
          /\ QueueIsSound(item', jobs', stage', fails')
          /\ ThreadsAreSound' /\ spent' \in [Requests -> Nat]
      BY <1>1, <2>1, RestartsSound DEF InOrder, Sound
    <2> QED
      BY <2>2 DEF Sound, InOrder
  <1>2. CASE Spend("fault") /\ Raises(item', st, q) /\ UNCHANGED others
    BY <1>2, AttemptFailsSound
  <1> QED
    BY <1>1, <1>2 DEF Breaks

LEMMA SuspendsSound ==
  ASSUME Sound, NEW st, NEW s \in {"fetch", "embed"},
         InOrder(item', st, vectors', place'),
         jobs # <<>>, Head(jobs).type = "index",
         UNCHANGED <<keys, others, spent>>,
         Suspends(st, s)
  PROVE  Sound'
  <1>1. jobs \in Seq(SoundJobs(item'))
    BY SoundJobsGrow DEF InOrder, Sound, QueueIsSound
  <1>2. QueueIsSound(item', jobs', stage', fails')
    BY <1>1 DEF Sound, QueueIsSound, Suspends
  <1>3. ThreadsAreSound' /\ spent' \in [Requests -> Nat]
    BY ThreadsStay DEF InOrder
  <1> QED
    BY <1>2, <1>3 DEF Sound, InOrder, Suspends

\* The first job and the rest of the queue, when there is one.
LEMMA HeadIsSound ==
  ASSUME Sound, jobs # <<>>
  PROVE  /\ jobs \in Seq(SoundJobs(item))
         /\ Head(jobs) \in SoundJobs(item)
         /\ Tail(jobs) \in Seq(SoundJobs(item))
  BY DEF Sound, QueueIsSound

\* update_status in a handler.
LEMMA WrittenLeaves ==
  ASSUME NEW st, NEW i \in Items, NEW new \in Statuses \ {"absent"}, NEW v, NEW p,
         InOrder(item, st, v, p)
  PROVE  InOrder(item, Written(item, st, i, new), v, p)
  <1>1. /\ RowsInOrder(item, Written(item, st, i, new))
        /\ \A k \in Items : Written(item, st, i, new)[k] = "absent" <=> st[k] = "absent"
    BY WrittenInOrder DEF InOrder
  <1> QED
    BY <1>1 DEF InOrder

LEMMA NothingLeft ==
  ASSUME Sound
  PROVE  /\ InOrder(item, status, vectors, place)
         /\ \A i \in Items : DropFile(i) => InOrder(item, status, vectors, place')
  BY DEF Sound, InOrder, DropFile, Places

LEMMA BeginIndexSound ==
  ASSUME Sound, BeginIndex
  PROVE  Sound'
  <1> DEFINE i == Root
             reading == Written(item, status, i, "reading")
  <1>1. /\ jobs # <<>> /\ Head(jobs).type = "index"
        /\ UNCHANGED <<item, vectors, keys, others, spent>>
    BY DEF BeginIndex, Begins
  <1>2. /\ jobs \in Seq(SoundJobs(item))
        /\ Head(jobs) \in SoundJobs(item)
        /\ Tail(jobs) \in Seq(SoundJobs(item))
    BY <1>1, HeadIsSound
  <1>3. i \in Items
    BY <1>1, RootIsThere DEF Sound
  <1>4. "reading" \in Statuses \ {"absent"} /\ "failed" \in Statuses \ {"absent"}
    BY DEF Statuses, Active
  <1>5. InOrder(item, status, vectors, place)
    BY NothingLeft
  <1>6. InOrder(item, reading, vectors, place)
    BY <1>3, <1>4, <1>5, WrittenLeaves
  <1>7. DropFile(i) => InOrder(item, reading, vectors, place')
    BY <1>3, <1>4, NothingLeft, WrittenLeaves
  <1>8. InOrder(item, Written(item, reading, i, "failed"), vectors, place)
    BY <1>3, <1>4, <1>6, WrittenLeaves
  <1>9. \/ Raises(item, status, jobs) /\ UNCHANGED place
        \/ Returns(status, Tail(jobs)) /\ UNCHANGED place
        \/ Suspends(reading, "fetch") /\ UNCHANGED place
        \/ Suspends(reading, "embed") /\ UNCHANGED place
        \/ Raises(item, reading, jobs) /\ DropFile(i)
        \/ Returns(Written(item, reading, i, "failed"), Tail(jobs)) /\ UNCHANGED place
    BY DEF BeginIndex
  <1> HIDE DEF i, reading
  <1>10. CASE Raises(item, status, jobs) /\ UNCHANGED place
    BY <1>1, <1>2, <1>5, <1>10, AttemptFailsSound
  <1>11. CASE Returns(status, Tail(jobs)) /\ UNCHANGED place
    BY <1>1, <1>2, <1>5, <1>11, ReturnsSound
  <1>12. CASE Suspends(reading, "fetch") /\ UNCHANGED place
    BY <1>1, <1>6, <1>12, SuspendsSound
  <1>13. CASE Suspends(reading, "embed") /\ UNCHANGED place
    BY <1>1, <1>6, <1>13, SuspendsSound
  <1>14. CASE Raises(item, reading, jobs) /\ DropFile(i)
    BY <1>1, <1>2, <1>7, <1>14, AttemptFailsSound
  <1>15. CASE Returns(Written(item, reading, i, "failed"), Tail(jobs)) /\ UNCHANGED place
    BY <1>1, <1>2, <1>8, <1>15, ReturnsSound
  <1> QED
    BY <1>9, <1>10, <1>11, <1>12, <1>13, <1>14, <1>15

\* A handler that waits is that of an index job.
LEMMA WaitsForIndex ==
  ASSUME Sound, stage \in {"fetch", "embed"}
  PROVE  /\ jobs # <<>> /\ Head(jobs).type = "index"
         /\ Root \in Items /\ item[Root].kind \in Leaves
         /\ Head(jobs).roots = {Root}
  <1>1. jobs # <<>> /\ Head(jobs).type = "index"
    BY DEF Sound, QueueIsSound
  <1>2. RootKinds("index") = Leaves
    BY DEF RootKinds
  <1> QED
    BY <1>1, <1>2, RootIsThere DEF Sound

LEMMA UrlFetchedSound ==
  ASSUME Sound, UrlFetched
  PROVE  Sound'
  <1> DEFINE i == Root
             failed == Written(item, status, i, "failed")
  <1>1. /\ stage = "fetch"
        /\ UNCHANGED <<item, place, vectors, keys, others, spent>>
    BY DEF UrlFetched
  <1>2. jobs # <<>> /\ Head(jobs).type = "index" /\ i \in Items
    BY <1>1, WaitsForIndex
  <1>3. jobs \in Seq(SoundJobs(item)) /\ Tail(jobs) \in Seq(SoundJobs(item))
    BY <1>2, HeadIsSound
  <1>4. InOrder(item, status, vectors, place)
    BY NothingLeft
  <1>5. "failed" \in Statuses \ {"absent"}
    BY DEF Statuses
  <1>6. InOrder(item, failed, vectors, place)
    BY <1>2, <1>4, <1>5, WrittenLeaves
  <1>7. \/ Suspends(status, "embed")
        \/ Returns(failed, Tail(jobs))
        \/ Raises(item, status, jobs)
    BY DEF UrlFetched
  <1> HIDE DEF i, failed
  <1>8. CASE Suspends(status, "embed")
    BY <1>1, <1>2, <1>4, <1>8, SuspendsSound
  <1>9. CASE Returns(failed, Tail(jobs))
    BY <1>1, <1>3, <1>6, <1>9, ReturnsSound
  <1>10. CASE Raises(item, status, jobs)
    BY <1>1, <1>2, <1>3, <1>4, <1>10, AttemptFailsSound
  <1> QED
    BY <1>7, <1>8, <1>9, <1>10

\* New nodes are those of an item that is there.
LEMMA NodesLeft ==
  ASSUME Sound, NEW i \in Items, Here(i), DropFile(i)
  PROVE  InOrder(item, status, vectors \cup {i}, place')
  BY NothingLeft DEF InOrder, Here, Present

LEMMA EmbeddedSound ==
  ASSUME Sound, Embedded
  PROVE  Sound'
  <1> DEFINE i == Root
             completed == Written(item, status, i, "completed")
  <1>1. /\ stage = "embed" /\ DropFile(i)
        /\ UNCHANGED <<item, keys, others, spent>>
    BY DEF Embedded
  <1>2. jobs # <<>> /\ Head(jobs).type = "index" /\ i \in Items
    BY <1>1, WaitsForIndex
  <1>3. jobs \in Seq(SoundJobs(item)) /\ Tail(jobs) \in Seq(SoundJobs(item))
    BY <1>2, HeadIsSound
  <1>4. InOrder(item, status, vectors, place')
    BY <1>1, <1>2, NothingLeft
  <1>5. "completed" \in Statuses \ {"absent"}
    BY DEF Statuses
  <1>6. CASE Here(i) /\ vectors' = vectors \cup {i} /\ Returns(completed, Tail(jobs))
    <2>1. InOrder(item, status, vectors', place')
      BY <1>1, <1>2, <1>6, NodesLeft
    <2>2. InOrder(item, completed, vectors', place')
      BY <1>2, <1>5, <2>1, WrittenLeaves
    <2> HIDE DEF i, completed
    <2> QED
      BY <1>1, <1>3, <1>6, <2>2, ReturnsSound
  <1>7. CASE Raises(item, status, jobs) /\ UNCHANGED vectors
    BY <1>1, <1>2, <1>3, <1>4, <1>7, AttemptFailsSound
  <1> QED
    BY <1>6, <1>7 DEF Embedded

LEMMA EmbeddingFailsSound ==
  ASSUME Sound, EmbeddingFails
  PROVE  Sound'
  <1>1. /\ stage = "embed" /\ DropFile(Root)
        /\ Raises(item, status, jobs)
        /\ UNCHANGED <<item, vectors, keys, others, spent>>
    BY DEF EmbeddingFails
  <1>2. jobs # <<>> /\ Root \in Items
    BY <1>1, WaitsForIndex
  <1>3. jobs \in Seq(SoundJobs(item))
    BY <1>2, HeadIsSound
  <1>4. InOrder(item, status, vectors, place')
    BY <1>1, <1>2, NothingLeft
  <1> QED
    BY <1>1, <1>2, <1>3, <1>4, AttemptFailsSound

LEMMA IndexBreaksSound ==
  ASSUME Sound, IndexBreaks
  PROVE  Sound'
  <1>1. stage \in {"fetch", "embed"} /\ UNCHANGED <<item, keys>>
    BY DEF IndexBreaks
  <1>2. jobs # <<>> /\ Root \in Items
    BY <1>1, WaitsForIndex
  <1>3. jobs \in Seq(SoundJobs(item))
    BY <1>2, HeadIsSound
  <1>4. CASE Restarts(status) /\ UNCHANGED <<place, vectors>>
    <2>1. InOrder(item, status, vectors, place)
      BY NothingLeft
    <2>2. Breaks(item, status, jobs)
      BY <1>4 DEF Breaks
    <2> QED
      BY <1>1, <1>2, <1>3, <1>4, <2>1, <2>2, HandlerBreaksSound
  <1>5. CASE /\ Here(Root) /\ vectors' = vectors \cup {Root} /\ DropFile(Root)
             /\ Breaks(item, status, jobs)
    <2>1. InOrder(item, status, vectors', place')
      BY <1>2, <1>5, NodesLeft
    <2> QED
      BY <1>1, <1>2, <1>3, <1>5, <2>1, HandlerBreaksSound
  <1> QED
    BY <1>4, <1>5 DEF IndexBreaks

LEMMA GroupsAreContainers ==
  ASSUME Sound, NEW S \in SUBSET Items, NEW groups \in SetToSeqs(GroupsOf(S))
  PROVE  groups \in Seq(Items \cup {NoItem})
  <1>1. GroupsOf(S) \subseteq Items
    BY DEF GroupsOf, Sound, RowsInOrder, Rows
  <1>2. IsFiniteSet(Items)
    BY FS_Interval, MaxItemsAssumption DEF Items
  <1>3. Cardinality(GroupsOf(S)) \in Nat
    BY <1>1, <1>2, FS_Subset, FS_CardinalityType
  <1>4. groups \in [1 .. Cardinality(GroupsOf(S)) -> GroupsOf(S)]
    BY DEF SetToSeqs
  <1>5. groups \in Seq(GroupsOf(S))
    BY <1>3, <1>4
  <1> QED
    BY <1>1, <1>5

\* Deleting whole rows, their nodes with them.
LEMMA RemovedLeaves ==
  ASSUME Sound, NEW gone, NEW groups \in Seq(Items \cup {NoItem}), NEW v,
         v \subseteq vectors \ gone
  PROVE  InOrder(item, Removed(item, status, gone, groups), v, place)
  BY RemovedInOrder DEF InOrder, Sound

LEMMA FewerNodes ==
  ASSUME Sound, NEW v, v \subseteq vectors
  PROVE  InOrder(item, status, v, place)
  BY DEF Sound, InOrder

LEMMA DeleteSubtreeSound ==
  ASSUME Sound, DeleteSubtree
  PROVE  Sound'
  <1> DEFINE doomed == Subtree(item, status, Head(jobs).roots)
  <1>1. jobs # <<>> /\ UNCHANGED <<item, place, keys, others, spent>>
    BY DEF DeleteSubtree, Begins
  <1>2. PICK groups \in SetToSeqs(GroupsOf(doomed)) :
          /\ vectors' = vectors \ doomed
          /\ Returns(Removed(item, status, doomed, groups), Uncancelled(Tail(jobs), doomed))
    BY DEF DeleteSubtree
  <1>3. doomed \in SUBSET Items
    BY SubtreeHolds
  <1> HIDE DEF doomed
  <1>4. groups \in Seq(Items \cup {NoItem})
    BY <1>2, <1>3, GroupsAreContainers
  <1>5. InOrder(item, Removed(item, status, doomed, groups), vectors', place)
    BY <1>2, <1>4, RemovedLeaves
  <1>6. Uncancelled(Tail(jobs), doomed) \in Seq(SoundJobs(item))
    BY <1>1, HeadIsSound, UncancelledIs
  <1> QED
    BY <1>1, <1>2, <1>5, <1>6, ReturnsSound

LEMMA DeleteBreaksSound ==
  ASSUME Sound, DeleteBreaks
  PROVE  Sound'
  <1> DEFINE doomed == Subtree(item, status, Head(jobs).roots)
             q == <<Head(jobs)>> \o Uncancelled(Tail(jobs), doomed)
  <1>1. jobs # <<>> /\ UNCHANGED <<item, place, keys>>
    BY DEF DeleteBreaks, Begins
  <1>2. vectors' \in {vectors, vectors \ doomed} /\ Breaks(item, status, q)
    BY DEF DeleteBreaks
  <1> HIDE DEF doomed
  <1>3. /\ Uncancelled(Tail(jobs), doomed) \in Seq(SoundJobs(item))
        /\ Head(jobs) \in SoundJobs(item)
    BY <1>1, HeadIsSound, UncancelledIs
  <1>4. q \in Seq(SoundJobs(item)) /\ q # <<>>
    BY <1>3
  <1> HIDE DEF q
  <1>5. InOrder(item, status, vectors', place)
    BY <1>2, FewerNodes
  <1> QED
    BY <1>1, <1>2, <1>4, <1>5, HandlerBreaksSound

\* Whatever _reindex deletes is below the item, and the item stays.
LEMMA PrunedIs ==
  ASSUME Sound, NEW r \in Items, NEW v, v \subseteq vectors \ Subtree(item, status, {r})
  PROVE  /\ InOrder(item, Pruned(r), v, place)
         /\ \A k \in Items : Pruned(r)[k] = "absent" =>
              status[k] = "absent" \/ k \in Subtree(item, status, {r}) \ {r}
  <1> DEFINE below == Subtree(item, status, {r}) \ {r}
  <1>1. CASE Pruned(r) = status
    BY <1>1, FewerNodes
  <1>2. ASSUME NEW groups \in Seq(Items \cup {NoItem}),
               Pruned(r) = Removed(item, status, below, groups)
        PROVE  /\ InOrder(item, Pruned(r), v, place)
               /\ \A k \in Items : Pruned(r)[k] = "absent" => status[k] = "absent" \/ k \in below
    <2>1. v \subseteq vectors \ below
      OBVIOUS
    <2> HIDE DEF below
    <2>2. InOrder(item, Pruned(r), v, place)
      BY <1>2, <2>1, RemovedLeaves
    <2>3. RowsInOrder(item, status)
      BY DEF Sound
    <2>4. \A k \in Items : Removed(item, status, below, groups)[k] = "absent"
                              <=> (k \in below \/ status[k] = "absent")
      BY <2>3, RemovedInOrder
    <2> QED
      BY <1>2, <2>2, <2>4
  <1>3. <<r>> \in Seq(Items \cup {NoItem})
    OBVIOUS
  <1> QED
    BY <1>1, <1>2, <1>3 DEF Pruned

LEMMA ReindexSubtreeSound ==
  ASSUME Sound, ReindexSubtree
  PROVE  Sound'
  <1> DEFINE r == Root
             next(type) == Append(Tail(jobs), NewJob(type, r))
  <1>1. /\ jobs # <<>> /\ Head(jobs).type = "reindex"
        /\ UNCHANGED <<item, place, keys, others, spent>>
    BY DEF ReindexSubtree, Begins
  <1>2. /\ r \in Items /\ item[r].kind \in Kinds
    BY <1>1, RootIsThere DEF Sound, RootKinds
  <1>3. Tail(jobs) \in Seq(SoundJobs(item))
    BY <1>1, HeadIsSound
  <1>4. {"preparing", "processing"} \subseteq Statuses \ {"absent"}
    BY DEF Statuses, Active
  <1>5. CASE Returns(status, Tail(jobs)) /\ UNCHANGED vectors
    BY <1>1, <1>3, <1>5, NothingLeft, ReturnsSound
  <1>6. CASE /\ vectors' = vectors \ Subtree(item, status, {r})
             /\ item[r].kind = "directory"
             /\ Returns(Written(item, Pruned(r), r, "preparing"), next("prepare"))
    <2>1. InOrder(item, Pruned(r), vectors', place)
      BY <1>2, <1>6, PrunedIs
    <2>2. InOrder(item, Written(item, Pruned(r), r, "preparing"), vectors', place)
      BY <1>2, <1>4, <2>1, WrittenLeaves
    <2>3. NewJob("prepare", r) \in SoundJobs(item)
      BY <1>2, <1>6 DEF NewJob, SoundJobs, Job, RootKinds
    <2>4. next("prepare") \in Seq(SoundJobs(item))
      BY <1>3, <2>3
    <2> HIDE DEF r, next
    <2> QED
      BY <1>1, <1>6, <2>2, <2>4, ReturnsSound
  <1>7. CASE /\ vectors' = vectors \ Subtree(item, status, {r})
             /\ item[r].kind # "directory"
             /\ Returns(Written(item, status, r, "processing"), next("index"))
    <2>1. InOrder(item, status, vectors', place)
      BY <1>7, FewerNodes
    <2>2. InOrder(item, Written(item, status, r, "processing"), vectors', place)
      BY <1>2, <1>4, <2>1, WrittenLeaves
    <2>3. NewJob("index", r) \in SoundJobs(item)
      BY <1>2, <1>7 DEF NewJob, SoundJobs, Job, RootKinds, Kinds
    <2>4. next("index") \in Seq(SoundJobs(item))
      BY <1>3, <2>3
    <2> HIDE DEF r, next
    <2> QED
      BY <1>1, <1>7, <2>2, <2>4, ReturnsSound
  <1> QED
    BY <1>5, <1>6, <1>7 DEF ReindexSubtree

LEMMA ReindexBreaksSound ==
  ASSUME Sound, ReindexBreaks
  PROVE  Sound'
  <1>1. /\ jobs # <<>> /\ Head(jobs).type = "reindex"
        /\ UNCHANGED <<item, place, keys>>
        /\ vectors' = vectors \ Subtree(item, status, {Root})
    BY DEF ReindexBreaks, Begins
  <1>2. PICK st \in {status, Pruned(Root)} : Breaks(item, st, jobs)
    BY DEF ReindexBreaks
  <1>3. Root \in Items /\ jobs \in Seq(SoundJobs(item))
    BY <1>1, RootIsThere, HeadIsSound DEF Sound
  <1>4. InOrder(item, st, vectors', place)
    BY <1>1, <1>2, <1>3, FewerNodes, PrunedIs
  <1> QED
    BY <1>1, <1>2, <1>3, <1>4, HandlerBreaksSound

\* The files on disk, in some order.
LEMMA FilesInOrder ==
  ASSUME NEW T \in SUBSET Files
  PROVE  /\ Cardinality(T) \in Nat
         /\ SetToSeq(T) \in [1 .. Cardinality(T) -> T]
  <1>1. IsFiniteSet(T)
    BY ItemsAssumption, FS_Subset
  <1>2. Cardinality(T) \in Nat /\ ExistsBijection(1 .. Cardinality(T), T)
    BY <1>1, FS_CardinalityType
  <1>3. \E f \in [1 .. Cardinality(T) -> T] : IsInjective(f)
    BY <1>2 DEF ExistsBijection, Bijection, Injection
  <1>4. SetToSeq(T) \in [1 .. Cardinality(T) -> T]
    BY <1>3, Zenon DEF SetToSeq
  <1> QED
    BY <1>2, <1>4

LEMMA OnDiskIsFew ==
  ASSUME Sound, NEW d \in Items
  PROVE  /\ OnDisk(item[d].tree) \in SUBSET Files
         /\ Cardinality(OnDisk(item[d].tree)) \in Nat
         /\ Cardinality(item[d].tree) \in Nat
  <1>1. item[d].tree \in SUBSET Files
    BY DEF Sound, RowsInOrder, Rows
  <1>2. OnDisk(item[d].tree) \in SUBSET Files
    BY <1>1 DEF OnDisk
  <1> QED
    BY <1>1, <1>2, FilesInOrder

\* The rows and the jobs of new children of d.
LEMMA ChildrenInOrder ==
  ASSUME Sound, NEW d \in Items, item[d].kind = "directory",
         NEW n \in 0 .. Cardinality(OnDisk(item[d].tree)), Room(n),
         NEW st, RowsInOrder(item, st)
  PROVE  /\ RowsInOrder(WithChildren(d, n), WithIdle(st, n))
         /\ \A i \in Items : item[i] # NoRow => WithChildren(d, n)[i] = item[i]
         /\ \A i \in Items : item[i] # NoRow => WithIdle(st, n)[i] = st[i]
         /\ \A i \in Items : item[i] = NoRow /\ WithChildren(d, n)[i] # NoRow =>
              /\ WithChildren(d, n)[i].kind = "file"
              /\ WithChildren(d, n)[i].group = d
              /\ WithIdle(st, n)[i] = "idle"
              /\ NewJob("index", i) \in Queued(IndexJobs(n))
         /\ IndexJobs(n) \in Seq(SoundJobs(WithChildren(d, n)))
         /\ \A j \in Queued(IndexJobs(n)) : j.type = "index"
  <1> DEFINE m == Made
             it == WithChildren(d, n)
             T == OnDisk(item[d].tree)
  <1>1. RowsInOrder(item, status)
    BY DEF Sound
  <1>2. m \in 0 .. MaxItems /\ \A i \in Items : item[i] # NoRow <=> i <= m
    BY <1>1, MadeIsLast
  <1>3. T \in SUBSET Files /\ Cardinality(T) \in Nat
    BY OnDiskIsFew
  <1>4. n \in Nat /\ m + n <= MaxItems
    BY <1>3 DEF Room
  <1>5. Born(n) = m + 1 .. m + n
    BY DEF Born
  <1>6. ASSUME NEW k \in 1 .. n
        PROVE  /\ Child(d, k) \in Rows /\ Child(d, k).kind = "file"
               /\ Child(d, k).group = d /\ Child(d, k) # NoRow
    <2>1. SetToSeq(T)[k] \in Files
      <3>1. k \in 1 .. Cardinality(T)
        BY <1>3
      <3> QED
        BY <1>3, <3>1, FilesInOrder
    <2> HIDE DEF T
    <2> QED
      BY <2>1 DEF Child, Row, Rows, NoRow, Kinds, Leaves, T
  <1>7. ASSUME NEW i \in Items
        PROVE  it[i] = IF i \in m + 1 .. m + n THEN Child(d, i - m) ELSE item[i]
    BY <1>5 DEF WithChildren
  <1>8. ASSUME NEW i \in Items
        PROVE  WithIdle(st, n)[i] = IF i \in m + 1 .. m + n THEN "idle" ELSE st[i]
    BY <1>5 DEF WithIdle
  <1>9. item[d] # NoRow /\ d <= m /\ d \in Nat
    BY <1>2 DEF NoRow, Items
  <1>10. DOMAIN it = Items /\ it = [i \in Items |-> it[i]]
    BY DEF WithChildren
  <1>11. WithIdle(st, n) = [i \in Items |-> WithIdle(st, n)[i]]
    BY DEF WithIdle
  <1> HIDE DEF m, it, T
  <1>12. \A i \in m + 1 .. m + n : i - m \in 1 .. n /\ ~(i <= m) /\ i \in Items
    BY <1>2, <1>4, MaxItemsAssumption DEF Items
  <1>13. \A i \in Items : i \in Nat /\ (i <= m + n <=> i <= m \/ i \in m + 1 .. m + n)
    BY <1>2, <1>4 DEF Items
  <1>14. it \in [Items -> Rows]
    BY <1>1, <1>6, <1>7, <1>10, <1>12 DEF RowsInOrder
  <1>15. \A i \in Items : it[i].group < i
    <2> SUFFICES ASSUME NEW i \in Items PROVE it[i].group < i
      OBVIOUS
    <2>1. CASE i \in m + 1 .. m + n
      BY <1>2, <1>6, <1>7, <1>9, <1>12, <1>13, <2>1
    <2>2. CASE i \notin m + 1 .. m + n
      BY <1>1, <1>7, <2>2 DEF RowsInOrder
    <2> QED
      BY <2>1, <2>2
  <1>16. \A i \in Items : it[i] # NoRow <=> i <= m + n
    BY <1>2, <1>6, <1>7, <1>12, <1>13
  <1>17. m + n \in 0 .. MaxItems
    BY <1>2, <1>4
  <1>18. \A i \in Items : it[i].kind \in Kinds <=> it[i] # NoRow
    BY <1>1, <1>6, <1>7, <1>12 DEF RowsInOrder, Kinds, Leaves
  <1>19. WithIdle(st, n) \in [Items -> Statuses]
    BY <1>8, <1>11 DEF RowsInOrder, Statuses, Active
  <1>20. \A i \in Items : it[i] = NoRow => WithIdle(st, n)[i] = "absent"
    BY <1>6, <1>7, <1>8, <1>12 DEF RowsInOrder
  <1>21. RowsInOrder(it, WithIdle(st, n))
    BY <1>14, <1>15, <1>16, <1>17, <1>18, <1>19, <1>20 DEF RowsInOrder
  <1>22. \A i \in Items : item[i] # NoRow => it[i] = item[i] /\ WithIdle(st, n)[i] = st[i]
    BY <1>2, <1>7, <1>8, <1>12
  <1>23. IndexJobs(n) = [k \in 1 .. n |-> NewJob("index", m + k)]
    BY DEF IndexJobs, m
  <1>24. ASSUME NEW k \in 1 .. n
         PROVE  NewJob("index", m + k) \in SoundJobs(it)
    <2>1. m + k \in Items /\ m + k \in m + 1 .. m + n /\ (m + k) - m = k
      BY <1>2, <1>4, MaxItemsAssumption DEF Items
    <2>2. it[m + k].kind \in RootKinds("index")
      BY <1>6, <1>7, <2>1 DEF RootKinds, Leaves
    <2> QED
      BY <2>1, <2>2 DEF NewJob, SoundJobs, Job
  <1>25. IndexJobs(n) \in Seq(SoundJobs(it)) /\ Len(IndexJobs(n)) = n
    BY <1>4, <1>23, <1>24
  <1>26. ASSUME NEW i \in Items, item[i] = NoRow, it[i] # NoRow
         PROVE  /\ it[i].kind = "file" /\ it[i].group = d
                /\ WithIdle(st, n)[i] = "idle"
                /\ NewJob("index", i) \in Queued(IndexJobs(n))
    <2>1. i \in m + 1 .. m + n
      BY <1>2, <1>13, <1>16, <1>26
    <2>2. i - m \in 1 .. n /\ m + (i - m) = i
      BY <1>2, <1>12, <2>1
    <2>3. IndexJobs(n)[i - m] = NewJob("index", i)
      BY <1>23, <2>2
    <2> QED
      BY <1>6, <1>7, <1>8, <1>25, <2>1, <2>2, <2>3 DEF Queued
  <1>27. \A j \in Queued(IndexJobs(n)) : j.type = "index"
    BY <1>23, <1>25 DEF Queued, NewJob
  <1> QED
    BY <1>21, <1>22, <1>25, <1>26, <1>27 DEF it

LEMMA PreparingInOrder ==
  ASSUME Sound, NEW d \in Items
  PROVE  /\ InOrder(item, Preparing(d), vectors, place)
         /\ \A k \in Items : Preparing(d)[k] = "absent" <=> status[k] = "absent"
  <1>1. "preparing" \in Statuses \ {"absent"}
    BY DEF Statuses, Active
  <1>2. RowsInOrder(item, status)
    BY DEF Sound
  <1>3. /\ RowsInOrder(item, Preparing(d))
        /\ \A k \in Items : Preparing(d)[k] = "absent" <=> status[k] = "absent"
    BY <1>1, <1>2, WrittenInOrder DEF Preparing
  <1> QED
    BY <1>3 DEF InOrder, Sound

\* The rows with n children more, and the jobs for them after q.
LEMMA ChildrenLeft ==
  ASSUME Sound, NEW d \in Items, item[d].kind = "directory",
         NEW n \in 0 .. Cardinality(OnDisk(item[d].tree)), Room(n),
         NEW q \in Seq(SoundJobs(item))
  PROVE  /\ InOrder(WithChildren(d, n), WithIdle(Preparing(d), n), vectors, place)
         /\ q \o IndexJobs(n) \in Seq(SoundJobs(WithChildren(d, n)))
  <1> DEFINE it == WithChildren(d, n)
             st == Preparing(d)
  <1>1. /\ RowsInOrder(item, st)
        /\ \A k \in Items : st[k] = "absent" <=> status[k] = "absent"
    BY PreparingInOrder DEF InOrder
  <1> HIDE DEF st
  <1>2. /\ RowsInOrder(it, WithIdle(st, n))
        /\ \A i \in Items : item[i] # NoRow => it[i] = item[i]
        /\ \A i \in Items : item[i] # NoRow => WithIdle(st, n)[i] = st[i]
        /\ IndexJobs(n) \in Seq(SoundJobs(it))
    BY <1>1, ChildrenInOrder
  <1> HIDE DEF it
  <1>3. vectors \subseteq {i \in Items : WithIdle(st, n)[i] # "absent"}
    BY <1>1, <1>2 DEF Sound, RowsInOrder
  <1>4. q \in Seq(SoundJobs(it))
    BY <1>2, SoundJobsGrow
  <1>5. q \o IndexJobs(n) \in Seq(SoundJobs(it))
    BY <1>2, <1>4
  <1> QED
    BY <1>2, <1>3, <1>5 DEF InOrder, Sound, it, st

LEMMA PrepareRootSound ==
  ASSUME Sound, PrepareRoot
  PROVE  Sound'
  <1> DEFINE d == Root
             n == Cardinality(OnDisk(item[d].tree))
             q == Tail(jobs) \o IndexJobs(n)
             st == WithIdle(Preparing(d), n)
  <1>1. /\ jobs # <<>> /\ Head(jobs).type = "prepare"
        /\ UNCHANGED <<place, vectors, keys, others, spent>>
    BY DEF PrepareRoot, Begins
  <1>2. d \in Items /\ item[d].kind = "directory"
    BY <1>1, RootIsThere DEF Sound, RootKinds
  <1>3. jobs \in Seq(SoundJobs(item)) /\ Tail(jobs) \in Seq(SoundJobs(item))
    BY <1>1, HeadIsSound
  <1>4. CASE Raises(item, status, jobs) /\ UNCHANGED item
    BY <1>1, <1>3, <1>4, NothingLeft, AttemptFailsSound
  <1>5. CASE Returns(status, Tail(jobs)) /\ UNCHANGED item
    BY <1>1, <1>3, <1>5, NothingLeft, ReturnsSound
  <1>6. CASE Raises(item, Preparing(d), jobs) /\ UNCHANGED item
    <2>1. InOrder(item, Preparing(d), vectors, place)
      BY <1>2, PreparingInOrder
    <2> HIDE DEF d
    <2> QED
      BY <1>1, <1>3, <1>6, <2>1, AttemptFailsSound
  <1>7. CASE /\ Room(n)
             /\ item' = WithChildren(d, n)
             /\ Returns(Written(item', st, d, "completed"), q)
    <2>1. n \in 0 .. n
      BY <1>2, OnDiskIsFew
    <2>2. InOrder(item', st, vectors, place) /\ q \in Seq(SoundJobs(item'))
      BY <1>2, <1>3, <1>7, <2>1, ChildrenLeft
    <2> HIDE DEF d, n, q, st
    <2>3. "completed" \in Statuses \ {"absent"}
      BY DEF Statuses
    <2>4. /\ RowsInOrder(item', Written(item', st, d, "completed"))
          /\ \A k \in Items : Written(item', st, d, "completed")[k] = "absent" <=> st[k] = "absent"
      BY <1>2, <2>2, <2>3, WrittenInOrder DEF InOrder
    <2>5. InOrder(item', Written(item', st, d, "completed"), vectors, place)
      BY <2>2, <2>4 DEF InOrder
    <2> QED
      BY <1>1, <1>7, <2>2, <2>5, ReturnsSound
  <1> QED
    BY <1>4, <1>5, <1>6, <1>7 DEF PrepareRoot

LEMMA PrepareBreaksSound ==
  ASSUME Sound, PrepareBreaks
  PROVE  Sound'
  <1> DEFINE d == Root
  <1>1. /\ jobs # <<>> /\ Head(jobs).type = "prepare"
        /\ UNCHANGED <<place, vectors, keys>>
    BY DEF PrepareBreaks, Begins
  <1>2. d \in Items /\ item[d].kind = "directory"
    BY <1>1, RootIsThere DEF Sound, RootKinds
  <1>3. jobs \in Seq(SoundJobs(item))
    BY <1>1, HeadIsSound
  <1>4. PICK n \in 0 .. Cardinality(OnDisk(item[d].tree)) :
          /\ Room(n + Cardinality(item[d].tree))
          /\ item' = WithChildren(d, n)
          /\ Breaks(item', WithIdle(Preparing(d), n), jobs \o IndexJobs(n))
    BY DEF PrepareBreaks
  <1> HIDE DEF d
  <1>5. Room(n)
    <2>1. Made \in Nat
      BY MadeIsLast DEF Sound
    <2> QED
      BY <1>2, <1>4, <2>1, OnDiskIsFew, MaxItemsAssumption DEF Room
  <1>6. /\ InOrder(item', WithIdle(Preparing(d), n), vectors, place)
        /\ jobs \o IndexJobs(n) \in Seq(SoundJobs(item'))
    BY <1>2, <1>3, <1>4, <1>5, ChildrenLeft
  <1>7. jobs \o IndexJobs(n) # <<>>
    <2>1. IndexJobs(n) \in Seq({NewJob("index", Made + k) : k \in 1 .. n})
      BY <1>2, OnDiskIsFew DEF IndexJobs
    <2> QED
      BY <1>1, <1>3, <2>1, ConcatEqualIffEmpty
  <1> QED
    BY <1>1, <1>4, <1>6, <1>7, HandlerBreaksSound

-----------------------------------------------------------------------------
(* The shape always holds                                                  *)

LEMMA InitSound == Init => Sound
  <1> SUFFICES ASSUME Init PROVE Sound
    OBVIOUS
  <1>1. NoRow \in Rows /\ NoRow.kind \notin Kinds /\ NoRow.group = 0
    BY DEF NoRow, Rows, Kinds, Leaves, NoItem
  <1>2. 0 \in 0 .. MaxItems /\ \A i \in Items : 0 < i /\ ~(i <= 0)
    BY MaxItemsAssumption DEF Items
  <1>3. RowsInOrder(item, status)
    BY <1>1, <1>2 DEF Init, RowsInOrder, Statuses
  <1>4. QueueIsSound(item, jobs, stage, fails)
    BY ItemsAssumption DEF Init, QueueIsSound
  <1>5. ThreadsAreSound
    BY DEF Init, ThreadsAreSound, Idle
  <1> QED
    BY <1>3, <1>4, <1>5 DEF Init, Sound, Places

LEMMA NextSound == Sound /\ [Next]_vars => Sound'
  <1> SUFFICES ASSUME Sound, [Next]_vars PROVE Sound'
    OBVIOUS
  <1>1. CASE UNCHANGED vars
    <2>1. \A i \in Items : item'[i] = item[i]
      BY <1>1 DEF vars
    <2> QED
      BY <1>1 DEF vars, Sound, ThreadsAreSound
  <1>2. CASE Ask
    <2>1. CASE \E kind \in {"note", "url", "directory"}, g \in Items \cup {NoItem} : AddItem(kind, g)
      BY <2>1, AddItemSound
    <2>2. CASE \E f \in Files, where \in {"disk", "s3"} : Upload(f, where)
      BY <2>2, UploadSound
    <2>3. CASE \E T \in SUBSET Files : \E where \in [T -> {"disk", "s3"}] : Import(T, where)
      BY <2>3, ImportSound
    <2>4. CASE \E r \in Items : RequestReindex(r)
      BY <2>4, RequestReindexSound
    <2>5. CASE \E R \in SUBSET Items : Cardinality(R) <= MaxRoots /\ RequestDelete(R)
      BY <2>5, RequestDeleteSound
    <2>6. CASE \E i \in Items : FetchPage(i) \/ RemoveRow(i)
      BY <2>6, FetchPageSound, RemoveRowSound
    <2> QED
      BY <1>2, <2>1, <2>2, <2>3, <2>4, <2>5, <2>6 DEF Ask
  <1>3. CASE Work
    BY <1>3, PrepareRootSound, BeginIndexSound, UrlFetchedSound, EmbeddedSound,
       EmbeddingFailsSound, DeleteSubtreeSound, ReindexSubtreeSound DEF Work
  <1>4. CASE Stop
    BY <1>4, PrepareBreaksSound, IndexBreaksSound, DeleteBreaksSound, ReindexBreaksSound,
       IdleCrashSound DEF Stop
  <1>5. CASE PageFetched \/ ReadContainer \/ WriteContainer
    BY <1>5, PageFetchedSound, ReadContainerSound, WriteContainerSound
  <1> QED
    BY <1>1, <1>2, <1>3, <1>4, <1>5 DEF Next

LEMMA AlwaysSound == Spec => []Sound
  BY InitSound, NextSound, PTL DEF Spec

\* The type invariant: ids are handed out in order and lie in older ones, nodes
\* are those of items that are there, a queue holds jobs and an empty one has no
\* handler under way.
THEOREM TypeCorrect == Spec => []TypeOK
  BY AlwaysSound, SoundIsTyped, PTL

-----------------------------------------------------------------------------
(* Deleting is irreversible                                                *)

\* What is being deleted in st is being deleted or gone in st2.
Sticks(st, st2) ==
  \A i \in Items : st[i] = "deleting" => st2[i] \in {"deleting", "absent"}

\* What was changed in between does not matter if deleting and gone last.
LEMMA SticksTwice ==
  ASSUME NEW st, NEW st2, NEW st3, Sticks(st, st2), Sticks(st2, st3),
         \A i \in Items : st2[i] = "absent" => st3[i] = "absent"
  PROVE  Sticks(st, st3)
  BY DEF Sticks

LEMMA WrittenSticks ==
  ASSUME NEW it, NEW st, NEW i \in Items, NEW new \in Statuses \ {"absent"},
         RowsInOrder(it, st)
  PROVE  Sticks(st, Written(it, st, i, new))
  <1> DEFINE st1 == [st EXCEPT ![i] = new]
             st2 == Written(it, st, i, new)
  <1>1. Forest(it) /\ st \in [Items -> Statuses]
    BY RowsAreForest DEF RowsInOrder
  <1>2. \/ st2 = st
        \/ /\ st[i] = "deleting" => new = "deleting"
           /\ Retold(it, st1, st2)
    BY <1>1, WrittenRetells
  <1> HIDE DEF st2
  <1> QED
    BY <1>1, <1>2 DEF Sticks, Retold, st2

LEMMA RemovedSticks ==
  ASSUME NEW it, NEW st, NEW gone, NEW groups \in Seq(Items \cup {NoItem}),
         RowsInOrder(it, st)
  PROVE  Sticks(st, Removed(it, st, gone, groups))
  <1> DEFINE st1 == [i \in Items |-> IF i \in gone THEN "absent" ELSE st[i]]
  <1>1. Retold(it, st1, Removed(it, st, gone, groups))
    BY RowsAreForest, RemovedRetells DEF RowsInOrder
  <1> QED
    BY <1>1 DEF Sticks, Retold

LEMMA OnSettledSticks ==
  ASSUME NEW it, NEW st, NEW job \in SoundJobs(it),
         RowsInOrder(it, st)
  PROVE  Sticks(st, OnSettled(it, st, job))
  <1> DEFINE r == CHOOSE r \in job.roots : TRUE
  <1>1. CASE OnSettled(it, st, job) = st
    BY <1>1 DEF Sticks
  <1>2. CASE job.type # "delete" /\ OnSettled(it, st, job) = Written(it, st, r, "failed")
    <2>1. r \in Items
      BY <1>2 DEF SoundJobs
    <2>2. "failed" \in Statuses \ {"absent"}
      BY DEF Statuses
    <2> HIDE DEF r
    <2> QED
      BY <1>2, <2>1, <2>2, WrittenSticks
  <1> QED
    BY <1>1, <1>2 DEF OnSettled

LEMMA RaisesSticks ==
  ASSUME NEW it, NEW st, NEW q \in Seq(SoundJobs(it)),
         q # <<>>, RowsInOrder(it, st), Raises(it, st, q)
  PROVE  Sticks(st, status')
  <1>1. Sticks(st, st)
    BY DEF Sticks
  <1>2. Head(q) \in SoundJobs(it)
    OBVIOUS
  <1> QED
    BY <1>1, <1>2, OnSettledSticks DEF Raises, Returns

\* The same of what a handler leaves when it stops halfway.
LEMMA BreaksSticks ==
  ASSUME NEW it, NEW st, NEW q \in Seq(SoundJobs(it)),
         q # <<>>, RowsInOrder(it, st), Breaks(it, st, q)
  PROVE  Sticks(st, status')
  <1>1. Restarts(st) => Sticks(st, status')
    BY DEF Restarts, Sticks
  <1> QED
    BY <1>1, RaisesSticks DEF Breaks

LEMMA RoutesStick ==
  ASSUME Sound, Ask
  PROVE  Sticks(status, status')
  <1>1. RowsInOrder(item, status)
    BY DEF Sound
  <1>2. ASSUME NEW kind \in {"note", "url", "directory"}, NEW g \in Items \cup {NoItem},
               AddItem(kind, g)
        PROVE  Sticks(status, status')
    <2> DEFINE i       == Made + 1
               row     == Row(kind, g, NoFile, {})
               initial == IF kind = "directory" THEN "preparing" ELSE "processing"
               st1     == [status EXCEPT ![i] = "idle"]
    <2>1. /\ Room(1)
          /\ g = NoItem \/ Here(g)
          /\ item' = [item EXCEPT ![i] = row]
          /\ status' = Written(item', st1, i, initial)
      BY <1>2 DEF AddItem
    <2>2. /\ row \in Rows /\ row.kind \in Kinds /\ row.group = g
          /\ initial \in Statuses \ {"absent"} /\ "idle" \in Statuses
      BY DEF Row, Rows, Kinds, Leaves, Statuses, Active
    <2> HIDE DEF row, initial
    <2>3. /\ i \in Items /\ item[i] = NoRow
          /\ RowsInOrder(item', st1)
      BY <2>1, <2>2, NewRowInOrder
    <2>4. Sticks(status, st1)
      BY <1>1, <2>3 DEF Sticks, RowsInOrder
    <2> HIDE DEF i, st1
    <2>5. Sticks(st1, status')
      BY <2>1, <2>2, <2>3, WrittenSticks
    <2>6. \A k \in Items : st1[k] = "absent" => status'[k] = "absent"
      BY <2>1, <2>2, <2>3, WrittenInOrder
    <2> QED
      BY <2>4, <2>5, <2>6, SticksTwice
  <1>3. ASSUME NEW s, Room(1), status' = [status EXCEPT ![Made + 1] = s]
        PROVE  Sticks(status, status')
    <2>1. item[Made + 1] = NoRow /\ Made + 1 \in Items
      <3>1. Made \in 0 .. MaxItems /\ \A i \in Items : item[i] # NoRow <=> i <= Made
        BY <1>1, MadeIsLast
      <3> QED
        BY <1>3, <3>1, MaxItemsAssumption DEF Room, Items
    <2> QED
      BY <1>1, <1>3, <2>1 DEF Sticks, RowsInOrder
  <1>4. ASSUME NEW f \in Files, NEW where \in {"disk", "s3"}, Upload(f, where)
        PROVE  Sticks(status, status')
    BY <1>3, <1>4 DEF Upload
  <1>5. ASSUME NEW T \in SUBSET Files, NEW where \in [T -> {"disk", "s3"}], Import(T, where)
        PROVE  Sticks(status, status')
    <2>1. Room(1)
      <3>1. Cardinality(T) \in Nat
        BY FilesInOrder
      <3>2. Made \in Nat
        BY <1>1, MadeIsLast
      <3> QED
        BY <1>5, <3>1, <3>2, MaxItemsAssumption DEF Import, Room
    <2> QED
      BY <1>3, <1>5, <2>1 DEF Import
  <1>6. ASSUME NEW R, RequestDelete(R)
        PROVE  Sticks(status, status')
    BY <1>6 DEF RequestDelete, MarkedDeleting, Sticks
  <1>7. ASSUME NEW i \in Items, RequestReindex(i) \/ FetchPage(i)
        PROVE  Sticks(status, status')
    BY <1>7 DEF RequestReindex, FetchPage, rows, Sticks
  <1>8. ASSUME NEW i \in Items, RemoveRow(i)
        PROVE  Sticks(status, status')
    BY <1>1, <1>8 DEF RemoveRow, Sticks, RowsInOrder
  <1> QED
    BY <1>2, <1>4, <1>5, <1>6, <1>7, <1>8 DEF Ask

\* Nothing happens.
LEMMA SameSticks == \A st : Sticks(st, st)
  BY DEF Sticks

\* Indexing writes statuses one after the other.
LEMMA IndexingSticks ==
  ASSUME Sound, BeginIndex \/ UrlFetched \/ Embedded \/ EmbeddingFails \/ IndexBreaks
  PROVE  Sticks(status, status')
  <1> DEFINE i == Root
             reading == Written(item, status, i, "reading")
  <1>1. jobs # <<>> /\ Head(jobs).type = "index" /\ i \in Items
    <2>1. CASE BeginIndex
      <3>1. jobs # <<>> /\ Head(jobs).type = "index"
        BY <2>1 DEF BeginIndex, Begins
      <3> QED
        BY <3>1, RootIsThere DEF Sound
    <2>2. CASE stage \in {"fetch", "embed"}
      BY <2>2, WaitsForIndex
    <2> QED
      BY <2>1, <2>2 DEF UrlFetched, Embedded, EmbeddingFails, IndexBreaks
  <1>2. RowsInOrder(item, status) /\ jobs \in Seq(SoundJobs(item))
    BY <1>1, HeadIsSound DEF Sound
  <1>3. /\ {"reading", "failed", "completed"} \subseteq Statuses \ {"absent"}
        /\ UNCHANGED item
    BY DEF Statuses, Active, BeginIndex, UrlFetched, Embedded, EmbeddingFails, IndexBreaks
  <1>4. \/ Raises(item, status, jobs)
        \/ Returns(status, Tail(jobs))
        \/ Suspends(reading, "fetch") \/ Suspends(reading, "embed")
        \/ Raises(item, reading, jobs)
        \/ Returns(Written(item, reading, i, "failed"), Tail(jobs))
        \/ Suspends(status, "embed")
        \/ Returns(Written(item, status, i, "failed"), Tail(jobs))
        \/ Returns(Written(item, status, i, "completed"), Tail(jobs))
        \/ Restarts(status)
        \/ Breaks(item, status, jobs)
    BY DEF BeginIndex, UrlFetched, Embedded, EmbeddingFails, IndexBreaks
  <1> HIDE DEF i
  <1>5. RowsInOrder(item, reading) /\ Sticks(status, reading)
    BY <1>1, <1>2, <1>3, WrittenInOrder, WrittenSticks
  <1> HIDE DEF reading
  <1>6. CASE Raises(item, status, jobs) \/ Breaks(item, status, jobs)
    BY <1>1, <1>2, <1>6, RaisesSticks, BreaksSticks
  <1>7. CASE Raises(item, reading, jobs)
    <2>1. Sticks(reading, status') /\ \A k \in Items : reading[k] = "absent" => status'[k] = "absent"
      BY <1>1, <1>2, <1>5, <1>7, RaisesSticks, RaisesSound DEF Sound, QueueIsSound
    <2> QED
      BY <1>5, <2>1, SticksTwice
  <1>8. CASE Returns(Written(item, reading, i, "failed"), Tail(jobs))
    <2>1. status' = Written(item, reading, i, "failed")
      BY <1>8 DEF Returns
    <2>2. Sticks(reading, status') /\ \A k \in Items : reading[k] = "absent" => status'[k] = "absent"
      BY <1>1, <1>3, <1>5, <2>1, WrittenInOrder, WrittenSticks
    <2> QED
      BY <1>5, <2>2, SticksTwice
  <1>9. CASE status' = Written(item, status, i, "failed") \/ status' = Written(item, status, i, "completed")
    BY <1>1, <1>2, <1>3, <1>9, WrittenSticks
  <1>10. CASE status' = status \/ status' = reading
    BY <1>5, <1>10, SameSticks
  <1> QED
    BY <1>4, <1>6, <1>7, <1>8, <1>9, <1>10 DEF Returns, Suspends, Restarts

\* Rows that are deleted are gone, and so is all that was changed since.
LEMMA DeletionSticks ==
  ASSUME Sound, DeleteSubtree \/ DeleteBreaks
  PROVE  Sticks(status, status')
  <1> DEFINE doomed == Subtree(item, status, Head(jobs).roots)
             q == <<Head(jobs)>> \o Uncancelled(Tail(jobs), doomed)
  <1>1. jobs # <<>> /\ UNCHANGED item /\ RowsInOrder(item, status)
    BY DEF DeleteSubtree, DeleteBreaks, Begins, Sound
  <1>2. doomed \in SUBSET Items
    BY SubtreeHolds
  <1>3. CASE DeleteSubtree
    <2>1. PICK groups \in SetToSeqs(GroupsOf(doomed)) :
            status' = Removed(item, status, doomed, groups)
      BY <1>3 DEF DeleteSubtree, Returns
    <2> HIDE DEF doomed
    <2>2. groups \in Seq(Items \cup {NoItem})
      BY <1>2, <2>1, GroupsAreContainers
    <2> QED
      BY <1>1, <2>1, <2>2, RemovedSticks
  <1>4. CASE DeleteBreaks
    <2>1. Breaks(item, status, q)
      BY <1>4 DEF DeleteBreaks
    <2> HIDE DEF doomed
    <2>2. /\ Uncancelled(Tail(jobs), doomed) \in Seq(SoundJobs(item))
          /\ Head(jobs) \in SoundJobs(item)
      BY <1>1, HeadIsSound, UncancelledIs
    <2>3. q \in Seq(SoundJobs(item)) /\ q # <<>>
      BY <2>2
    <2> HIDE DEF q
    <2> QED
      BY <1>1, <2>1, <2>3, BreaksSticks
  <1> QED
    BY <1>3, <1>4

LEMMA PrunedSticks ==
  ASSUME Sound, NEW r \in Items
  PROVE  RowsInOrder(item, Pruned(r)) /\ Sticks(status, Pruned(r))
  <1>1. RowsInOrder(item, status) /\ <<r>> \in Seq(Items \cup {NoItem})
    BY DEF Sound
  <1>2. \/ Pruned(r) = status
        \/ Pruned(r) = Removed(item, status, Subtree(item, status, {r}) \ {r}, <<r>>)
    BY DEF Pruned
  <1>3. ASSUME NEW gone, NEW groups \in Seq(Items \cup {NoItem})
        PROVE  /\ RowsInOrder(item, Removed(item, status, gone, groups))
               /\ Sticks(status, Removed(item, status, gone, groups))
    BY <1>1, RemovedInOrder, RemovedSticks
  <1> QED
    BY <1>1, <1>2, <1>3, SameSticks

LEMMA ReindexingSticks ==
  ASSUME Sound, ReindexSubtree \/ ReindexBreaks
  PROVE  Sticks(status, status')
  <1> DEFINE r == Root
  <1>1. /\ jobs # <<>> /\ Head(jobs).type = "reindex" /\ UNCHANGED item
        /\ RowsInOrder(item, status)
    BY DEF ReindexSubtree, ReindexBreaks, Begins, Sound
  <1>2. r \in Items /\ jobs \in Seq(SoundJobs(item))
    BY <1>1, RootIsThere, HeadIsSound DEF Sound
  <1>3. RowsInOrder(item, Pruned(r)) /\ Sticks(status, Pruned(r))
    BY <1>2, PrunedSticks
  <1>4. {"preparing", "processing"} \subseteq Statuses \ {"absent"}
    BY DEF Statuses, Active
  <1>5. \/ status' = status
        \/ status' = Written(item, Pruned(r), r, "preparing")
        \/ status' = Written(item, status, r, "processing")
        \/ \E st \in {status, Pruned(r)} : Breaks(item, st, jobs)
    BY DEF ReindexSubtree, ReindexBreaks, Returns
  <1> DEFINE pruned == Pruned(r)
  <1> HIDE DEF pruned
  <1>6. CASE status' = status
    BY <1>6, SameSticks
  <1>7. CASE status' = Written(item, status, r, "processing")
    <2> HIDE DEF r
    <2> QED
      BY <1>1, <1>2, <1>4, <1>7, WrittenSticks
  <1>8. CASE status' = Written(item, Pruned(r), r, "preparing")
    <2>1. status' = Written(item, pruned, r, "preparing") /\ RowsInOrder(item, pruned) /\ Sticks(status, pruned)
      BY <1>3, <1>8 DEF pruned
    <2> HIDE DEF r
    <2>2. Sticks(pruned, status') /\ \A k \in Items : pruned[k] = "absent" => status'[k] = "absent"
      BY <1>2, <1>4, <2>1, WrittenInOrder, WrittenSticks
    <2> QED
      BY <2>1, <2>2, SticksTwice
  <1>9. ASSUME NEW st, RowsInOrder(item, st), Sticks(status, st), Breaks(item, st, jobs)
        PROVE  Sticks(status, status')
    <2>1. \A k \in Items : st[k] = "absent" => status'[k] = "absent"
      <3>1. CASE Restarts(st)
        BY <3>1 DEF Restarts
      <3>2. CASE Raises(item, st, jobs)
        BY <1>1, <1>2, <1>9, <3>2, RaisesSound DEF Sound, QueueIsSound
      <3> QED
        BY <1>9, <3>1, <3>2 DEF Breaks
    <2>2. Sticks(st, status')
      BY <1>1, <1>2, <1>9, BreaksSticks
    <2> QED
      BY <1>9, <2>1, <2>2, SticksTwice
  <1>10. CASE \E st \in {status, Pruned(r)} : Breaks(item, st, jobs)
    BY <1>1, <1>3, <1>9, <1>10, SameSticks
  <1> QED
    BY <1>5, <1>6, <1>7, <1>8, <1>10

\* A container is prepared in steps: its status, the rows of its children, and
\* whatever comes of it.
LEMMA PreparationSticks ==
  ASSUME Sound, PrepareRoot \/ PrepareBreaks
  PROVE  Sticks(status, status')
  <1> DEFINE d == Root
             all == Cardinality(OnDisk(item[d].tree))
             preparing == Preparing(d)
  <1>1. jobs # <<>> /\ Head(jobs).type = "prepare" /\ RowsInOrder(item, status)
    BY DEF PrepareRoot, PrepareBreaks, Begins, Sound
  <1>2. d \in Items /\ item[d].kind = "directory" /\ jobs \in Seq(SoundJobs(item))
    BY <1>1, RootIsThere, HeadIsSound DEF Sound, RootKinds
  <1>3. all \in Nat /\ all \in 0 .. all
    BY <1>2, OnDiskIsFew
  <1>4. /\ RowsInOrder(item, preparing)
        /\ Sticks(status, preparing)
        /\ \A k \in Items : preparing[k] = "absent" <=> status[k] = "absent"
    <2>1. "preparing" \in Statuses \ {"absent"}
      BY DEF Statuses, Active
    <2> HIDE DEF d
    <2> QED
      BY <1>1, <1>2, <2>1, WrittenInOrder, WrittenSticks DEF Preparing
  <1>5. \/ /\ UNCHANGED item
           /\ Raises(item, status, jobs) \/ Returns(status, Tail(jobs)) \/ Raises(item, preparing, jobs)
        \/ \E n \in 0 .. all :
             /\ Room(n)
             /\ item' = WithChildren(d, n)
             /\ \/ status' = Written(item', WithIdle(preparing, n), d, "completed")
                \/ Breaks(item', WithIdle(preparing, n), jobs \o IndexJobs(n))
    <2>1. CASE PrepareRoot
      BY <1>3, <2>1 DEF PrepareRoot, Returns
    <2>2. CASE PrepareBreaks
      <3>1. PICK n \in 0 .. all :
              /\ Room(n + Cardinality(item[d].tree))
              /\ item' = WithChildren(d, n)
              /\ Breaks(item', WithIdle(preparing, n), jobs \o IndexJobs(n))
        BY <2>2 DEF PrepareBreaks
      <3>2. Room(n)
        <4>1. Made \in Nat /\ Cardinality(item[d].tree) \in Nat
          BY <1>1, <1>2, MadeIsLast, OnDiskIsFew
        <4> HIDE DEF d, all
        <4> QED
          BY <1>3, <3>1, <4>1, MaxItemsAssumption DEF Room
      <3> QED
        BY <3>1, <3>2
    <2> QED
      BY <2>1, <2>2
  <1> HIDE DEF preparing, d, all
  <1>6. CASE Raises(item, status, jobs)
    BY <1>1, <1>2, <1>6, RaisesSticks
  <1>7. CASE Returns(status, Tail(jobs))
    BY <1>7, SameSticks DEF Returns
  <1>8. CASE Raises(item, preparing, jobs)
    <2>1. Sticks(preparing, status') /\ \A k \in Items : preparing[k] = "absent" => status'[k] = "absent"
      BY <1>1, <1>2, <1>4, <1>8, RaisesSticks, RaisesSound DEF Sound, QueueIsSound
    <2> QED
      BY <1>4, <2>1, SticksTwice
  <1>9. ASSUME NEW n \in 0 .. all, Room(n), item' = WithChildren(d, n),
               \/ status' = Written(item', WithIdle(preparing, n), d, "completed")
               \/ Breaks(item', WithIdle(preparing, n), jobs \o IndexJobs(n))
        PROVE  Sticks(status, status')
    <2> DEFINE st == WithIdle(preparing, n)
               q == jobs \o IndexJobs(n)
    <2>1. /\ RowsInOrder(item', st)
          /\ \A i \in Items : item[i] # NoRow => st[i] = preparing[i]
          /\ IndexJobs(n) \in Seq(SoundJobs(item'))
          /\ jobs \in Seq(SoundJobs(item'))
      <3>1. n \in 0 .. Cardinality(OnDisk(item[d].tree))
        BY DEF all
      <3>2. \A i \in Items : item[i] # NoRow => item'[i] = item[i]
        BY <1>2, <1>4, <1>9, <3>1, ChildrenInOrder
      <3> QED
        BY <1>2, <1>4, <1>9, <3>1, <3>2, ChildrenInOrder, SoundJobsGrow
    <2>2. q \in Seq(SoundJobs(item')) /\ q # <<>>
      BY <1>1, <2>1, ConcatEqualIffEmpty
    <2>3. Sticks(status, st)
      BY <1>1, <1>4, <2>1 DEF Sticks, RowsInOrder
    <2> HIDE DEF st, q
    <2>4. CASE status' = Written(item', st, d, "completed")
      <3>1. "completed" \in Statuses \ {"absent"}
        BY DEF Statuses
      <3>2. Sticks(st, status') /\ \A k \in Items : st[k] = "absent" => status'[k] = "absent"
        BY <1>2, <2>1, <2>4, <3>1, WrittenInOrder, WrittenSticks
      <3> QED
        BY <2>3, <3>2, SticksTwice
    <2>5. CASE Breaks(item', st, q)
      <3>1. Sticks(st, status')
        BY <2>1, <2>2, <2>5, BreaksSticks
      <3>2. \A k \in Items : st[k] = "absent" => status'[k] = "absent"
        <4>1. CASE Restarts(st)
          BY <4>1 DEF Restarts
        <4>2. CASE Raises(item', st, q)
          BY <2>1, <2>2, <4>2, RaisesSound DEF Sound, QueueIsSound
        <4> QED
          BY <2>5, <4>1, <4>2 DEF Breaks
      <3> QED
        BY <2>3, <3>1, <3>2, SticksTwice
    <2> QED
      BY <1>9, <2>4, <2>5 DEF st, q
  <1> QED
    BY <1>5, <1>6, <1>7, <1>8, <1>9

\* Every step keeps it, but for those of the routes that run in a thread and of
\* process_url_item, which the property leaves out.
LEMMA DeletingStays ==
  Sound /\ [Next]_vars => [OnLoop' => \A i \in Items : status[i] = "deleting"
                                        => status'[i] \in {"deleting", "absent"}]_vars
  <1> SUFFICES ASSUME Sound, Next, OnLoop'
               PROVE  Sticks(status, status')
    BY DEF Sticks
  <1>1. CASE Ask
    BY <1>1, RoutesStick
  <1>2. CASE Work
    BY <1>2, PreparationSticks, IndexingSticks, DeletionSticks, ReindexingSticks DEF Work
  <1>3. CASE Stop
    <2>1. CASE IdleCrash
      BY <2>1, SameSticks DEF IdleCrash, rows
    <2> QED
      BY <1>3, <2>1, PreparationSticks, IndexingSticks, DeletionSticks, ReindexingSticks DEF Stop
  <1>4. CASE PageFetched \/ ReadContainer \/ WriteContainer
    <2>1. ASSUME UNCHANGED spent PROVE fetching = NoItem /\ thread = Idle
      BY <2>1 DEF OnLoop, Sound, ThreadsAreSound
    <2>2. NoItem = Idle.at /\ Idle.verdict = "none"
      BY DEF Idle
    <2> QED
      BY <1>4, <2>1, <2>2 DEF PageFetched, ReadContainer, WriteContainer
  <1> QED
    BY <1>1, <1>2, <1>3, <1>4 DEF Next

\* update_status says that deleting is irreversible, and so it is as long as no
\* route in a thread and no process_url_item writes statuses past it: no job that
\* still runs, starts again or fails brings back what is being deleted.
THEOREM DeletingSticks == Spec => DeletingIrreversible
  BY AlwaysSound, DeletingStays, PTL DEF Spec, DeletingIrreversible

-----------------------------------------------------------------------------
(* What the routes change                                                  *)

\* A route adds item i with status s and a job of that type for it; containers
\* are told.
NewItem(i, type, s) ==
  /\ item[i] = NoRow
  /\ item' = [item EXCEPT ![i] = item'[i]]
  /\ item'[i].kind \in RootKinds(type)
  /\ \/ item'[i].group = NoItem
     \/ Here(item'[i].group) /\ item[item'[i].group].kind \in Parents
  /\ status'[i] = s
  /\ Retold(item', [status EXCEPT ![i] = s], status')
  /\ type = "prepare" => s \in {"idle", "preparing"}
  /\ type = "index" => s = "processing"
  /\ jobs' = Append(jobs, NewJob(type, i))
  /\ UNCHANGED <<vectors, stage, fails, keys, others>>
  /\ \E r \in {"add", "upload", "import"} : Spend(r)

Adds ==
  \/ \E kind \in {"note", "url", "directory"}, g \in Items \cup {NoItem} : AddItem(kind, g)
  \/ \E f \in Files, where \in {"disk", "s3"} : Upload(f, where)
  \/ \E T \in SUBSET Files : \E where \in [T -> {"disk", "s3"}] : Import(T, where)

LEMMA NewItemIs ==
  ASSUME Sound, Adds
  PROVE  \E i \in Items, type \in {"index", "prepare"}, s \in Active : NewItem(i, type, s)
  <1>1. RowsInOrder(item, status)
    BY DEF Sound
  <1>2. RootKinds("index") = Leaves /\ RootKinds("prepare") = {"directory"}
    BY DEF RootKinds
  <1>3. ASSUME NEW kind \in {"note", "url", "directory"}, NEW g \in Items \cup {NoItem},
               AddItem(kind, g)
        PROVE  \E i \in Items, type \in {"index", "prepare"}, s \in Active : NewItem(i, type, s)
    <2> DEFINE i    == Made + 1
               row  == Row(kind, g, NoFile, {})
               s    == IF kind = "directory" THEN "preparing" ELSE "processing"
               type == IF kind = "directory" THEN "prepare" ELSE "index"
               st1  == [status EXCEPT ![i] = "idle"]
    <2>1. /\ Room(1)
          /\ g = NoItem \/ (Here(g) /\ item[g].kind \in Parents)
          /\ item' = [item EXCEPT ![i] = row]
          /\ status' = Written(item', st1, i, s)
          /\ jobs' = Append(jobs, NewJob(type, i))
          /\ UNCHANGED <<vectors, stage, fails, keys, others>>
          /\ Spend("add")
      BY <1>3 DEF AddItem
    <2>2. /\ row \in Rows /\ row.kind = kind /\ row.kind \in Kinds /\ row.group = g
          /\ s \in Statuses \ {"absent"} /\ "idle" \in Statuses /\ s \in Active
          /\ kind \in RootKinds(type) /\ type \in {"index", "prepare"}
          /\ type = "prepare" => s \in {"idle", "preparing"}
          /\ type = "index" => s = "processing"
          /\ kind = "directory" <=> s = "preparing"
          /\ s # "deleting"
      BY <1>2 DEF Row, Rows, Kinds, Leaves, Statuses, Active
    <2> HIDE DEF row, s, type
    <2>3. /\ i \in Items /\ item[i] = NoRow
          /\ RowsInOrder(item', st1)
      BY <2>1, <2>2, NewRowInOrder
    <2>4. item'[i] = row /\ item' = [item EXCEPT ![i] = item'[i]]
      BY <1>1, <2>1, <2>3 DEF RowsInOrder
    <2> HIDE DEF i
    <2>5. Present(st1, i) /\ st1[i] = "idle" /\ st1 \in [Items -> Statuses]
      BY <1>1, <2>2, <2>3 DEF Present, RowsInOrder, Items, NoItem
    <2> HIDE DEF st1
    <2>6. Forest(item')
      BY <2>3, RowsAreForest
    <2>7. Retold(item', [st1 EXCEPT ![i] = s], status')
      <3>1. st1[i] # "deleting"
        BY <2>5
      <3> QED
        BY <2>1, <2>2, <2>3, <2>5, <2>6, <3>1, WrittenRetells
    <2>8. [st1 EXCEPT ![i] = s] = [status EXCEPT ![i] = s]
      BY <1>1, <2>3 DEF st1, RowsInOrder
    <2>9. status'[i] = s
      <3>1. [st1 EXCEPT ![i] = s][i] = s
        BY <2>3, <2>5
      <3> QED
        BY <2>2, <2>3, <2>4, <2>7, <3>1 DEF Retold
    <2>10. NewItem(i, type, s)
      BY <2>1, <2>2, <2>3, <2>4, <2>7, <2>8, <2>9 DEF NewItem
    <2> QED
      BY <2>2, <2>3, <2>10
  <1>4. ASSUME NEW row \in Rows, NEW s \in Active, NEW type \in {"index", "prepare"},
               NEW r \in {"upload", "import"},
               Room(1), row.kind \in RootKinds(type), row.group = NoItem,
               item' = [item EXCEPT ![Made + 1] = row],
               status' = [status EXCEPT ![Made + 1] = s],
               type = "prepare" => s \in {"idle", "preparing"},
               type = "index" => s = "processing",
               jobs' = Append(jobs, NewJob(type, Made + 1)),
               UNCHANGED <<vectors, stage, fails, keys, others>>,
               Spend(r)
        PROVE  \E i \in Items, t \in {"index", "prepare"}, st \in Active : NewItem(i, t, st)
    <2>1. row.kind \in Kinds /\ s \in Statuses
      BY <1>2, <1>4 DEF Kinds, Statuses
    <2> DEFINE i == Made + 1
    <2>2. /\ i \in Items /\ item[i] = NoRow
          /\ RowsInOrder(item', status')
      BY <1>4, <2>1, NewRowInOrder
    <2>3. item'[i] = row /\ status'[i] = s
      BY <1>1, <1>4, <2>2 DEF RowsInOrder
    <2>4. Retold(item', status', status')
      BY <2>2 DEF Retold, RowsInOrder
    <2>5. NewItem(i, type, s)
      BY <1>4, <2>2, <2>3, <2>4 DEF NewItem
    <2> QED
      BY <2>2, <2>5
  <1>5. ASSUME NEW f \in Files, NEW where \in {"disk", "s3"}, Upload(f, where)
        PROVE  \E i \in Items, type \in {"index", "prepare"}, s \in Active : NewItem(i, type, s)
    <2> DEFINE row == Row("file", NoItem, f, {})
    <2>1. /\ row \in Rows /\ row.kind \in RootKinds("index") /\ row.group = NoItem
          /\ "processing" \in Active
      BY <1>2 DEF Row, Rows, Kinds, Leaves, Active
    <2>2. /\ Room(1) /\ Spend("upload")
          /\ item' = [item EXCEPT ![Made + 1] = row]
          /\ status' = [status EXCEPT ![Made + 1] = "processing"]
          /\ jobs' = Append(jobs, NewJob("index", Made + 1))
          /\ UNCHANGED <<vectors, stage, fails, keys, others>>
      BY <1>5 DEF Upload
    <2> HIDE DEF row
    <2> QED
      BY <1>4, <2>1, <2>2
  <1>6. ASSUME NEW T \in SUBSET Files, NEW where \in [T -> {"disk", "s3"}], Import(T, where)
        PROVE  \E i \in Items, type \in {"index", "prepare"}, s \in Active : NewItem(i, type, s)
    <2> DEFINE row == Row("directory", NoItem, NoFile, T)
    <2>1. /\ row \in Rows /\ row.kind \in RootKinds("prepare") /\ row.group = NoItem
          /\ "idle" \in Active
      BY <1>2 DEF Row, Rows, Kinds, Active
    <2>2. /\ Room(1 + Cardinality(T)) /\ Spend("import")
          /\ item' = [item EXCEPT ![Made + 1] = row]
          /\ status' = [status EXCEPT ![Made + 1] = "idle"]
          /\ jobs' = Append(jobs, NewJob("prepare", Made + 1))
          /\ UNCHANGED <<vectors, stage, fails, keys, others>>
      BY <1>6 DEF Import
    <2> HIDE DEF row
    <2>3. Room(1)
      <3>1. Cardinality(T) \in Nat
        BY FilesInOrder
      <3>2. Made \in Nat
        BY <1>1, MadeIsLast
      <3> QED
        BY <2>2, <3>1, <3>2, MaxItemsAssumption DEF Room
    <2> QED
      BY <1>4, <2>1, <2>2, <2>3
  <1> QED
    BY <1>3, <1>5, <1>6 DEF Adds

\* Its row is new, and so is its job; what was there is still there.
LEMMA NewItemKeeps ==
  ASSUME Sound, NEW i \in Items, NEW type \in {"index", "prepare"}, NEW s \in Active,
         NewItem(i, type, s)
  PROVE  /\ status[i] = "absent"
         /\ \A k \in Items : k # i => /\ item'[k] = item[k]
                                      /\ status'[k] = "absent" <=> status[k] = "absent"
                                      /\ status'[k] = "deleting" <=> status[k] = "deleting"
                                      /\ status'[k] = "preparing" <=> status[k] = "preparing"
                                      /\ item[k].kind \in Leaves => status'[k] = status[k]
         /\ \A q \in {"reindex", "delete", "remove", "fetch", "crash", "fault"} : spent'[q] = spent[q]
  <1>1. item[i] = NoRow /\ RowsInOrder(item, status)
    BY DEF NewItem, Sound
  <1>2. status[i] = "absent"
    BY <1>1 DEF RowsInOrder
  <1>3. item' = [item EXCEPT ![i] = item'[i]] /\ Retold(item', [status EXCEPT ![i] = s], status')
    BY DEF NewItem
  <1>4. ASSUME NEW k \in Items, k # i
        PROVE  /\ item'[k] = item[k]
               /\ status'[k] = "absent" <=> status[k] = "absent"
               /\ status'[k] = "deleting" <=> status[k] = "deleting"
               /\ status'[k] = "preparing" <=> status[k] = "preparing"
               /\ item[k].kind \in Leaves => status'[k] = status[k]
    <2>1. item'[k] = item[k]
      BY <1>1, <1>3, <1>4 DEF RowsInOrder
    <2>2. [status EXCEPT ![i] = s][k] = status[k]
      BY <1>1, <1>4 DEF RowsInOrder
    <2> QED
      BY <1>3, <2>1, <2>2 DEF Retold, Leaves
  <1>5. PICK r \in {"add", "upload", "import"} : Spend(r)
    BY DEF NewItem
  <1>6. \A q \in {"reindex", "delete", "remove", "fetch", "crash", "fault"} : spent'[q] = spent[q]
    BY <1>5, SpendCounts DEF Requests, Sound
  <1> QED
    BY <1>2, <1>4, <1>6

-----------------------------------------------------------------------------
(* What a job leaves of the leaves                                         *)

\* Among the leaves, only i may have another status in st2, and then it is new.
OneLeaf(it, st, i, new, st2) ==
  \A k \in Items : it[k].kind \in Leaves =>
    st2[k] = IF k = i /\ st[i] # "absent" /\ (st[i] = "deleting" => new = "deleting")
             THEN new ELSE st[k]

\* A status is written to one leaf only.
LEMMA LeafWritten ==
  ASSUME NEW it, NEW st, NEW i \in Items, NEW new \in Statuses \ {"absent"},
         RowsInOrder(it, st)
  PROVE  OneLeaf(it, st, i, new, Written(it, st, i, new))
  <1> DEFINE st1 == [st EXCEPT ![i] = new]
             st2 == Written(it, st, i, new)
  <1>1. Forest(it) /\ st \in [Items -> Statuses]
    BY RowsAreForest DEF RowsInOrder
  <1>2. Present(st, i) <=> st[i] # "absent"
    BY DEF Present, Items, NoItem
  <1>3. \/ /\ ~Present(st, i) \/ (st[i] = "deleting" /\ new # "deleting")
           /\ st2 = st
        \/ /\ Present(st, i)
           /\ st[i] = "deleting" => new = "deleting"
           /\ Retold(it, st1, st2)
    BY <1>1, WrittenRetells
  <1>4. \A k \in Items : it[k].kind \in Leaves => it[k].kind # "directory"
    BY DEF Leaves
  <1> HIDE DEF st2
  <1>5. CASE ~Present(st, i) \/ (st[i] = "deleting" /\ new # "deleting")
    <2>1. st2 = st
      BY <1>1, <1>5, WrittenRetells DEF st2
    <2> QED
      BY <1>2, <1>5, <2>1 DEF st2, OneLeaf
  <1>6. CASE Present(st, i) /\ (st[i] = "deleting" => new = "deleting") /\ Retold(it, st1, st2)
    <2>1. \A k \in Items : it[k].kind \in Leaves => st2[k] = st1[k]
      BY <1>4, <1>6 DEF Retold
    <2>2. \A k \in Items : st1[k] = IF k = i THEN new ELSE st[k]
      BY <1>1
    <2> QED
      BY <1>2, <1>6, <2>1, <2>2 DEF st2, OneLeaf
  <1> QED
    BY <1>3, <1>5, <1>6

LEMMA LeafRemoved ==
  ASSUME NEW it, NEW st, NEW gone, NEW groups \in Seq(Items \cup {NoItem}),
         RowsInOrder(it, st)
  PROVE  \A k \in Items : it[k].kind \in Leaves =>
           Removed(it, st, gone, groups)[k] = IF k \in gone THEN "absent" ELSE st[k]
  <1> DEFINE st1 == [i \in Items |-> IF i \in gone THEN "absent" ELSE st[i]]
  <1>1. Retold(it, st1, Removed(it, st, gone, groups))
    BY RowsAreForest, RemovedRetells DEF RowsInOrder
  <1>2. \A k \in Items : it[k].kind \in Leaves => it[k].kind # "directory"
    BY DEF Leaves
  <1> QED
    BY <1>1, <1>2 DEF Retold

\* A job that is given up leaves a leaf failed.
LEMMA LeafSettled ==
  ASSUME NEW it, NEW st, NEW job \in SoundJobs(it),
         RowsInOrder(it, st)
  PROVE  \A k \in Items : it[k].kind \in Leaves =>
           OnSettled(it, st, job)[k] \in {st[k], "failed"}
  <1> DEFINE r == CHOOSE r \in job.roots : TRUE
  <1>1. CASE OnSettled(it, st, job) = st
    BY <1>1
  <1>2. CASE job.type # "delete" /\ OnSettled(it, st, job) = Written(it, st, r, "failed")
    <2>1. r \in Items
      BY <1>2 DEF SoundJobs
    <2>2. "failed" \in Statuses \ {"absent"}
      BY DEF Statuses
    <2> HIDE DEF r
    <2>3. OneLeaf(it, st, r, "failed", Written(it, st, r, "failed"))
      BY <2>1, <2>2, LeafWritten
    <2> QED
      BY <1>2, <2>3 DEF OneLeaf
  <1> QED
    BY <1>1, <1>2 DEF OnSettled

\* No leaf has become completed.
Completes(it, st, st2) ==
  \E k \in Items : it[k].kind \in Leaves /\ st2[k] = "completed" /\ st[k] # "completed"

LEMMA RaisesCompletes ==
  ASSUME NEW it, NEW st, NEW q \in Seq(SoundJobs(it)),
         q # <<>>, RowsInOrder(it, st), Raises(it, st, q)
  PROVE  ~Completes(it, st, status')
  <1>1. Head(q) \in SoundJobs(it)
    OBVIOUS
  <1>2. status' = st \/ status' = OnSettled(it, st, Head(q))
    BY DEF Raises, Returns
  <1> QED
    BY <1>1, <1>2, LeafSettled DEF Completes

LEMMA BreaksCompletes ==
  ASSUME NEW it, NEW st, NEW q \in Seq(SoundJobs(it)),
         q # <<>>, RowsInOrder(it, st), Breaks(it, st, q)
  PROVE  ~Completes(it, st, status')
  <1>1. Restarts(st) => ~Completes(it, st, status')
    BY DEF Restarts, Completes
  <1> QED
    BY <1>1, RaisesCompletes DEF Breaks

LEMMA WrittenCompletes ==
  ASSUME NEW it, NEW st, NEW i \in Items, NEW new \in Statuses \ {"absent"},
         RowsInOrder(it, st), new # "completed" \/ it[i].kind \notin Leaves
  PROVE  ~Completes(it, st, Written(it, st, i, new))
  <1>1. OneLeaf(it, st, i, new, Written(it, st, i, new))
    BY LeafWritten
  <1> QED
    BY <1>1 DEF OneLeaf, Completes

LEMMA RemovedCompletes ==
  ASSUME NEW it, NEW st, NEW gone, NEW groups \in Seq(Items \cup {NoItem}),
         RowsInOrder(it, st)
  PROVE  ~Completes(it, st, Removed(it, st, gone, groups))
  BY LeafRemoved DEF Completes

LEMMA CompletesTwice ==
  ASSUME NEW it, NEW st, NEW st2, NEW st3, ~Completes(it, st, st2), ~Completes(it, st2, st3)
  PROVE  ~Completes(it, st, st3)
  BY DEF Completes

-----------------------------------------------------------------------------
(* What is completed can be found                                          *)

OnlyDirectoriesContain ==
  \A i \in Items : item[i].group \in Items => item[item[i].group].kind = "directory"

\* Only a refused statement fails an attempt of a delete or a reindex job.
AttemptsAreFaults ==
  jobs # <<>> /\ Head(jobs).type \in {"delete", "reindex"} => fails <= spent["fault"]

Nodeless(i) == item[i].kind \in Leaves /\ status[i] = "completed" /\ i \notin vectors

\* The first job will work on item i again.
Repeats(i) ==
  /\ jobs # <<>>
  /\ i \in Subtree(item, status, Head(jobs).roots)
  /\ \/ Head(jobs).type = "delete"
     \/ Head(jobs).type = "reindex" /\ status[Root] \notin {"absent", "deleting"}

\* A leaf is without its nodes only after a stop, and then the job that was
\* stopped is the first one and will do it all again.
Found ==
  /\ OnlyDirectoriesContain
  /\ Stops = 0 /\ spent["fetch"] = 0 => \A i \in Items : ~Nodeless(i)
  /\ OnLoop /\ Stops = 1 => \A i \in Items : Nodeless(i) => Repeats(i)

\* Rows and stops only become more.
LEMMA StepsAdd ==
  ASSUME Sound, Next
  PROVE  /\ \A i \in Items : item[i] # NoRow => item'[i] = item[i]
         /\ \A q \in Requests : spent[q] \in Nat /\ spent'[q] \in Nat /\ spent[q] <= spent'[q]
  <1>1. ASSUME NEW r \in Requests, Spend(r)
        PROVE  \A q \in Requests : spent[q] \in Nat /\ spent'[q] \in Nat /\ spent[q] <= spent'[q]
    BY <1>1, SpendCounts DEF Sound
  <1>2. \A q \in Requests : spent[q] \in Nat /\ spent[q] <= spent[q]
    BY DEF Sound
  <1>3. UNCHANGED spent \/ \E r \in Requests : Spend(r)
    <2>1. {"add", "upload", "import", "reindex", "delete", "remove", "fetch", "crash", "fault"} \subseteq Requests
      BY DEF Requests
    <2>2. CASE Ask
      BY <2>1, <2>2 DEF Ask, AddItem, Upload, Import, RequestReindex, RequestDelete, FetchPage, RemoveRow
    <2>3. CASE Work
      BY <2>3 DEF Work, PrepareRoot, BeginIndex, UrlFetched, Embedded, EmbeddingFails, DeleteSubtree, ReindexSubtree
    <2>4. CASE PageFetched \/ ReadContainer \/ WriteContainer
      BY <2>4 DEF PageFetched, ReadContainer, WriteContainer
    <2>5. CASE Stop
      <3>1. \A it, st, q : Breaks(it, st, q) => Spend("crash") \/ Spend("fault")
        BY DEF Breaks, Restarts
      <3>2. PrepareBreaks \/ DeleteBreaks \/ ReindexBreaks \/ IndexBreaks => Spend("crash") \/ Spend("fault")
        BY <3>1 DEF PrepareBreaks, DeleteBreaks, ReindexBreaks, IndexBreaks, Restarts
      <3> QED
        BY <2>1, <2>5, <3>2 DEF Stop, IdleCrash
    <2> QED
      BY <2>2, <2>3, <2>4, <2>5 DEF Next
  <1>4. \A i \in Items : item[i] # NoRow => item'[i] = item[i]
    <2>1. CASE UNCHANGED item
      BY <2>1
    <2>2. CASE Adds
      <3>1. PICK i \in Items, type \in {"index", "prepare"}, s \in Active : NewItem(i, type, s)
        BY <2>2, NewItemIs
      <3> QED
        BY <3>1, NewItemKeeps DEF NewItem
    <2>3. CASE PrepareRoot \/ PrepareBreaks
      <3>1. Root \in Items /\ item[Root].kind = "directory" /\ RowsInOrder(item, status)
        <4>1. jobs # <<>> /\ Head(jobs).type = "prepare"
          BY <2>3 DEF PrepareRoot, PrepareBreaks, Begins
        <4> QED
          BY <4>1, RootIsThere DEF Sound, RootKinds
      <3>2. \/ UNCHANGED item
            \/ \E n : item' = WithChildren(Root, n)
        BY <2>3 DEF PrepareRoot, PrepareBreaks
      <3>3. ASSUME NEW n, NEW i \in Items, item[i] # NoRow
            PROVE  WithChildren(Root, n)[i] = item[i]
        <4>1. i <= Made /\ Made \in Nat /\ i \in Nat
          BY <3>1, <3>3, MadeIsLast DEF Items
        <4>2. i \notin Born(n)
          BY <4>1 DEF Born
        <4> QED
          BY <4>2 DEF WithChildren
      <3> QED
        BY <3>2, <3>3
    <2> QED
      BY <2>1, <2>2, <2>3 DEF Next, Ask, Adds, RequestReindex, RequestDelete, FetchPage, RemoveRow, rows,
         Work, BeginIndex, UrlFetched, Embedded, EmbeddingFails, DeleteSubtree, ReindexSubtree,
         PageFetched, ReadContainer, WriteContainer, Stop, IndexBreaks, DeleteBreaks, ReindexBreaks, IdleCrash
  <1> QED
    BY <1>1, <1>2, <1>3, <1>4

LEMMA ContainersStay ==
  ASSUME Sound, Next, OnlyDirectoriesContain,
         \A i \in Items : item[i] = NoRow /\ item'[i].group \in Items =>
                            item[item'[i].group].kind = "directory"
  PROVE  OnlyDirectoriesContain'
  <1>1. \A i \in Items : item[i] # NoRow => item'[i] = item[i]
    BY StepsAdd
  <1>2. \A i \in Items : item[i].kind = "directory" => item[i] # NoRow
    BY DEF NoRow
  <1>3. ASSUME NEW i \in Items, item'[i].group \in Items
        PROVE  item'[item'[i].group].kind = "directory"
    <2>1. item[item'[i].group].kind = "directory"
      <3>1. CASE item[i] = NoRow
        BY <1>3, <3>1
      <3>2. CASE item[i] # NoRow
        BY <1>1, <1>3, <3>2 DEF OnlyDirectoriesContain
      <3> QED
        BY <3>1, <3>2
    <2> QED
      BY <1>1, <1>2, <1>3, <2>1
  <1> QED
    BY <1>3 DEF OnlyDirectoriesContain

LEMMA AttemptsStay ==
  ASSUME Sound, Sound', Next, AttemptsAreFaults,
         \/ fails' = 0
         \/ jobs' # <<>> => Head(jobs').type \notin {"delete", "reindex"}
         \/ fails' = fails /\ (jobs # <<>> => Head(jobs') = Head(jobs))
         \/ /\ fails' = fails + 1 /\ spent'["fault"] = spent["fault"] + 1
            /\ jobs # <<>> /\ Head(jobs') = Head(jobs)
  PROVE  AttemptsAreFaults'
  <1>1. "fault" \in Requests
    BY DEF Requests
  <1>2. spent["fault"] \in Nat /\ spent'["fault"] \in Nat /\ spent["fault"] <= spent'["fault"]
    BY <1>1, StepsAdd
  <1>3. fails \in Nat /\ (jobs = <<>> => fails = 0)
    BY ItemsAssumption DEF Sound, QueueIsSound
  <1> QED
    BY <1>2, <1>3 DEF AttemptsAreFaults

\* What is left to show of a step after which no leaf has lost its nodes.
LEMMA FoundStays ==
  ASSUME Sound, Found, Next, OnlyDirectoriesContain',
         spent'["fetch"] = 0 => \A i \in Items : Nodeless(i)' => Nodeless(i),
         OnLoop /\ OnLoop' /\ Stops = 1 /\ Stops' = 1 =>
           \A i \in Items : Nodeless(i)' /\ Nodeless(i) /\ Repeats(i) => Repeats(i)'
  PROVE  Found'
  <1>1. {"fetch", "remove", "crash", "fault"} \subseteq Requests
    BY DEF Requests
  <1>2. \A q \in {"fetch", "remove", "crash", "fault"} :
          spent[q] \in Nat /\ spent'[q] \in Nat /\ spent[q] <= spent'[q]
    BY <1>1, StepsAdd
  <1>3. /\ Stops \in Nat /\ Stops' \in Nat /\ Stops <= Stops'
        /\ OnLoop' => OnLoop /\ spent'["fetch"] = 0 /\ spent["fetch"] = 0
        /\ spent'["fetch"] = 0 => spent["fetch"] = 0
    BY <1>2 DEF Stops, OnLoop
  <1>4. Stops' = 0 /\ spent'["fetch"] = 0 => \A i \in Items : ~Nodeless(i)'
    BY <1>3 DEF Found
  <1>5. OnLoop' /\ Stops' = 1 => \A i \in Items : Nodeless(i)' => Repeats(i)'
    <2> SUFFICES ASSUME OnLoop', Stops' = 1, NEW i \in Items, Nodeless(i)'
                 PROVE  Repeats(i)'
      OBVIOUS
    <2>1. Nodeless(i) /\ OnLoop /\ spent["fetch"] = 0
      BY <1>3
    <2>2. Stops = 1 \/ Stops = 0
      BY <1>3
    <2>3. Stops = 1
      BY <2>1, <2>2 DEF Found
    <2> QED
      BY <2>1, <2>3 DEF Found
  <1> QED
    BY <1>4, <1>5 DEF Found

\* A job at the head of the queue stays there when others come behind it.
LEMMA HeadStays ==
  ASSUME Sound, NEW j, jobs' = Append(jobs, j), j \in Job
  PROVE  jobs' # <<>> /\ (jobs # <<>> => Head(jobs') = Head(jobs))
  <1>1. jobs \in Seq(Job)
    BY SoundIsTyped DEF TypeOK
  <1> QED
    BY <1>1

\* Requests leave the first job where it is.
LEMMA RequestsKeepHead ==
  ASSUME Sound, Ask
  PROVE  fails' = fails /\ (jobs # <<>> => jobs' # <<>> /\ Head(jobs') = Head(jobs))
  <1>1. CASE Adds
    <2>1. PICK i \in Items, type \in {"index", "prepare"}, s \in Active : NewItem(i, type, s)
      BY <1>1, NewItemIs
    <2>2. jobs' = Append(jobs, NewJob(type, i)) /\ fails' = fails /\ NewJob(type, i) \in Job
      BY <2>1 DEF NewItem, NewJob, Job
    <2> QED
      BY <2>2, HeadStays
  <1>2. ASSUME NEW type \in {"reindex", "delete"}, NEW R \in SUBSET Items, EnqueueOnce(type, R)
        PROVE  jobs # <<>> => jobs' # <<>> /\ Head(jobs') = Head(jobs)
    <2> DEFINE job == [type |-> type, roots |-> R]
    <2>1. jobs' = jobs \/ jobs' = Append(jobs, job)
      BY <1>2 DEF EnqueueOnce
    <2>2. job \in Job
      BY DEF Job
    <2> HIDE DEF job
    <2> QED
      BY <2>1, <2>2, HeadStays
  <1>3. CASE \E r \in Items : RequestReindex(r)
    BY <1>2, <1>3 DEF RequestReindex
  <1>4. CASE \E R \in SUBSET Items : RequestDelete(R)
    <2>1. \A R : Outermost(item, status, R) \subseteq R
      BY DEF Outermost
    <2> QED
      BY <1>2, <1>4, <2>1 DEF RequestDelete
  <1>5. CASE \E i \in Items : FetchPage(i) \/ RemoveRow(i)
    BY <1>5 DEF FetchPage, RemoveRow, queue
  <1> QED
    BY <1>1, <1>3, <1>4, <1>5 DEF Ask, Adds

LEMMA NextAttempts ==
  ASSUME Sound, Sound', AttemptsAreFaults, Next
  PROVE  AttemptsAreFaults'
  <1>1. CASE Ask
    BY <1>1, RequestsKeepHead, AttemptsStay
  <1>2. CASE PageFetched \/ ReadContainer \/ WriteContainer
    BY <1>2, AttemptsStay DEF PageFetched, ReadContainer, WriteContainer, queue
  <1>3. CASE IdleCrash \/ DeleteSubtree \/ ReindexSubtree
    BY <1>3, AttemptsStay DEF IdleCrash, DeleteSubtree, ReindexSubtree, Returns
  <1>4. \A it, st, q : Breaks(it, st, q) =>
          \/ fails' = 0
          \/ spent'["fault"] = spent["fault"] + 1 /\ fails' = fails + 1 /\ jobs' = q
    <2>1. Spend("fault") => spent'["fault"] = spent["fault"] + 1
      BY SpendCounts DEF Sound, Requests
    <2> QED
      BY <2>1 DEF Breaks, Restarts, Raises, Returns
  <1>5. CASE BeginIndex \/ UrlFetched \/ Embedded \/ EmbeddingFails \/ IndexBreaks
    <2>1. jobs # <<>> /\ Head(jobs).type = "index"
      BY <1>5, WaitsForIndex DEF BeginIndex, Begins, UrlFetched, Embedded, EmbeddingFails, IndexBreaks
    <2>2. fails' = 0 \/ jobs' = jobs
      BY <1>4, <1>5 DEF BeginIndex, UrlFetched, Embedded, EmbeddingFails, IndexBreaks,
         Raises, Returns, Suspends, Restarts
    <2> QED
      BY <2>1, <2>2, AttemptsStay
  <1>6. CASE PrepareRoot \/ PrepareBreaks
    <2>1. jobs # <<>> /\ Head(jobs).type = "prepare" /\ jobs \in Seq(Job)
      BY <1>6, SoundIsTyped DEF PrepareRoot, PrepareBreaks, Begins, TypeOK
    <2>2. ASSUME NEW n \in Nat
          PROVE  Head(jobs \o IndexJobs(n)) = Head(jobs)
      BY <2>1 DEF IndexJobs
    <2>3. Cardinality(OnDisk(item[Root].tree)) \in Nat
      <3>1. Root \in Items /\ RowsInOrder(item, status)
        BY <2>1, RootIsThere DEF Sound
      <3> QED
        BY <3>1, OnDiskIsFew
    <2>4. fails' = 0 \/ jobs' = jobs \/ \E n \in Nat : jobs' = jobs \o IndexJobs(n)
      <3>1. CASE PrepareRoot
        BY <3>1 DEF PrepareRoot, Raises, Returns
      <3>2. CASE PrepareBreaks
        <4>1. PICK n \in 0 .. Cardinality(OnDisk(item[Root].tree)) :
                Breaks(item', WithIdle(Preparing(Root), n), jobs \o IndexJobs(n))
          BY <3>2 DEF PrepareBreaks
        <4>2. n \in Nat
          BY <2>3
        <4>3. fails' = 0 \/ jobs' = jobs \o IndexJobs(n)
          <5> DEFINE q == jobs \o IndexJobs(n)
                     st == WithIdle(Preparing(Root), n)
          <5>1. Breaks(item', st, q)
            BY <4>1
          <5> HIDE DEF q, st
          <5>2. fails' = 0 \/ jobs' = q
            BY <1>4, <5>1
          <5> QED
            BY <5>2 DEF q
        <4> QED
          BY <4>2, <4>3
      <3> QED
        BY <1>6, <3>1, <3>2
    <2> QED
      BY <2>1, <2>2, <2>4, AttemptsStay
  <1>7. CASE DeleteBreaks \/ ReindexBreaks
    <2> DEFINE q == <<Head(jobs)>> \o Uncancelled(Tail(jobs), Subtree(item, status, Head(jobs).roots))
    <2>1. jobs # <<>>
      BY <1>7 DEF DeleteBreaks, ReindexBreaks, Begins
    <2>2. Head(q) = Head(jobs)
      <3> DEFINE doomed == Subtree(item, status, Head(jobs).roots)
      <3> HIDE DEF doomed
      <3>1. /\ Uncancelled(Tail(jobs), doomed) \in Seq(SoundJobs(item))
            /\ Head(jobs) \in SoundJobs(item)
        BY <2>1, HeadIsSound, UncancelledIs
      <3>2. Head(<<Head(jobs)>> \o Uncancelled(Tail(jobs), doomed)) = Head(jobs)
        BY <3>1
      <3> QED
        BY <3>2 DEF doomed
    <2>3. \/ \E st : Breaks(item, st, q)
          \/ \E st : Breaks(item, st, jobs)
      BY <1>7 DEF DeleteBreaks, ReindexBreaks
    <2> HIDE DEF q
    <2> QED
      BY <1>4, <2>1, <2>2, <2>3, AttemptsStay
  <1> QED
    BY <1>1, <1>2, <1>3, <1>5, <1>6, <1>7 DEF Next, Work, Stop

LEMMA AlwaysAttempts == Spec => []AttemptsAreFaults
  <1>1. Init => AttemptsAreFaults
    BY DEF Init, AttemptsAreFaults
  <1>2. Sound /\ Sound' /\ AttemptsAreFaults /\ [Next]_vars => AttemptsAreFaults'
    <2>1. UNCHANGED vars /\ AttemptsAreFaults => AttemptsAreFaults'
      BY DEF vars, AttemptsAreFaults
    <2> QED
      BY <2>1, NextAttempts
  <1> QED
    BY <1>1, <1>2, AlwaysSound, PTL DEF Spec

LEMMA AddsFound ==
  ASSUME Sound, Sound', Found, Next, Parents \subseteq {"directory"}, Adds
  PROVE  Found'
  <1>1. PICK i \in Items, type \in {"index", "prepare"}, s \in Active : NewItem(i, type, s)
    BY NewItemIs
  <1>2. /\ status[i] = "absent" /\ item[i] = NoRow
        /\ \A k \in Items : k # i => /\ item'[k] = item[k]
                                     /\ status'[k] = "absent" <=> status[k] = "absent"
                                     /\ status'[k] = "deleting" <=> status[k] = "deleting"
                                     /\ item[k].kind \in Leaves => status'[k] = status[k]
    BY <1>1, NewItemKeeps DEF NewItem
  <1>3. /\ status'[i] = s /\ s # "completed"
        /\ jobs' = Append(jobs, NewJob(type, i))
        /\ vectors' = vectors /\ fails' = fails
    BY <1>1 DEF NewItem, Active
  <1>4. NewJob(type, i) \in Job
    BY DEF NewJob, Job
  <1>5. jobs' # <<>> /\ (jobs # <<>> => Head(jobs') = Head(jobs))
    BY <1>3, <1>4, HeadStays
  <1>6. OnlyDirectoriesContain'
    <2>1. item'[i].group \in Items => item[item'[i].group].kind = "directory"
      BY <1>1 DEF NewItem, NoItem, Items
    <2>2. \A k \in Items : item[k] = NoRow /\ k # i => item'[k].group \notin Items
      BY <1>2 DEF NoRow, NoItem, Items
    <2> QED
      BY <2>1, <2>2, ContainersStay DEF Found
  <1>8. \A k \in Items : Nodeless(k)' => Nodeless(k)
    BY <1>2, <1>3 DEF Nodeless
  <1>9. ASSUME NEW k \in Items, Repeats(k)
        PROVE  Repeats(k)'
    <2> DEFINE R == Head(jobs).roots
    <2>1. jobs # <<>> /\ Head(jobs') = Head(jobs) /\ Root' = Root
      BY <1>5, <1>9 DEF Repeats, Root
    <2>2. Subtree(item, status, R) \subseteq Subtree(item', status', R)
      <3>1. Forest(item)
        BY RowsAreForest DEF Sound
      <3>2. \A m \in Items : Present(status, m) => Present(status', m) /\ item'[m].group = item[m].group
        BY <1>2 DEF Present
      <3> HIDE DEF R
      <3> QED
        BY <3>1, <3>2, SubtreeGrows
    <2>3. Head(jobs).type # "delete" => Root \in Items
      BY <2>1, RootIsThere DEF Sound
    <2>4. Head(jobs).type # "delete" => status'[Root] \notin {"absent", "deleting"}
      BY <1>2, <1>9, <2>3 DEF Repeats
    <2> QED
      BY <1>5, <1>9, <2>1, <2>2, <2>4 DEF Repeats
  <1> QED
    BY <1>6, <1>8, <1>9, FoundStays

\* The routes that change or delete what is there.
LEMMA RequestsFound ==
  ASSUME Sound, Sound', Found, Next, Ask,
         \/ \E r \in Items : RequestReindex(r)
         \/ \E R \in SUBSET Items : RequestDelete(R)
         \/ \E i \in Items : FetchPage(i) \/ RemoveRow(i)
  PROVE  Found'
  <1>1. /\ UNCHANGED item /\ fails' = fails
        /\ vectors' = vectors \/ \E i \in Items : RemoveRow(i)
    BY DEF RequestReindex, RequestDelete, FetchPage, RemoveRow, rows, queue
  <1>2. OnlyDirectoriesContain'
    BY <1>1 DEF Found, OnlyDirectoriesContain
  <1>3. /\ jobs # <<>> => Head(jobs') = Head(jobs)
        /\ jobs # <<>> => jobs' # <<>>
    BY RequestsKeepHead
  <1>5. CASE \E i \in Items : RemoveRow(i)
    <2>1. PICK i \in Items : RemoveRow(i)
      BY <1>5
    <2>2. \A k \in Items : Nodeless(k)' => Nodeless(k)
      <3>1. status' = [status EXCEPT ![i] = "absent"] /\ vectors' = vectors \ {i}
        BY <2>1 DEF RemoveRow
      <3>2. status \in [Items -> Statuses]
        BY DEF Sound, RowsInOrder
      <3>3. \A k \in Items : status'[k] = IF k = i THEN "absent" ELSE status[k]
        BY <3>1, <3>2
      <3> QED
        BY <1>1, <3>1, <3>3 DEF Nodeless
    <2>3. ~OnLoop'
      <3>1. spent'["remove"] = spent["remove"] + 1 /\ spent["remove"] \in Nat
        BY <2>1, SpendCounts DEF RemoveRow, Sound, Requests
      <3> QED
        BY <3>1 DEF OnLoop
    <2> QED
      BY <1>2, <2>2, <2>3, FoundStays
  <1>6. CASE status' = status /\ vectors' = vectors
    <2>1. \A k \in Items : Nodeless(k)' => Nodeless(k)
      BY <1>1, <1>6 DEF Nodeless
    <2>2. \A k \in Items : Repeats(k) => Repeats(k)'
      BY <1>1, <1>3, <1>6 DEF Repeats, Root
    <2> QED
      BY <1>2, <2>1, <2>2, FoundStays
  <1>7. CASE \E R \in SUBSET Items : RequestDelete(R)
    <2>1. PICK R \in SUBSET Items : RequestDelete(R)
      BY <1>7
    <2> DEFINE doomed == Subtree(item, status, Outermost(item, status, R))
    <2>2. /\ status' = [i \in Items |-> IF i \in doomed THEN "deleting" ELSE status[i]]
          /\ vectors' = vectors
      BY <2>1 DEF RequestDelete, MarkedDeleting
    <2>3. \A i \in doomed : i \in Items /\ Present(status, i)
      BY SubtreeHolds
    <2>4. \A r \in doomed : Subtree(item, status, {r}) \subseteq doomed
      <3>1. Forest(item)
        BY RowsAreForest DEF Sound
      <3>2. ASSUME NEW r \in doomed
            PROVE  \A i \in Items : i \in {r} /\ Present(status, i) => i \in doomed
        OBVIOUS
      <3> QED
        BY <3>1, <3>2, SubtreeWithin
    <2> HIDE DEF doomed
    <2>5. \A k \in Items : Nodeless(k)' => Nodeless(k) /\ k \notin doomed
      BY <1>1, <2>2 DEF Nodeless
    <2>6. \A k \in Items : Present(status', k) <=> Present(status, k)
      BY <2>2, <2>3 DEF Present
    <2>7. ASSUME NEW k \in Items, Repeats(k), k \notin doomed
          PROVE  Repeats(k)'
      <3> DEFINE Q == Head(jobs).roots
      <3>1. jobs # <<>> /\ Head(jobs') = Head(jobs) /\ Root' = Root /\ jobs' # <<>>
        BY <1>3, <2>7 DEF Repeats, Root
      <3>2. Subtree(item, status, Q) \subseteq Subtree(item, status', Q)
        <4>1. Forest(item)
          BY RowsAreForest DEF Sound
        <4> HIDE DEF Q
        <4> QED
          BY <2>6, <4>1, SubtreeGrows
      <3>3. Head(jobs).type # "delete" => status'[Root] \notin {"absent", "deleting"}
        <4>1. ASSUME Head(jobs).type # "delete"
              PROVE  Root \in Items /\ Q = {Root}
          BY <3>1, <4>1, RootIsThere DEF Sound
        <4>2. Head(jobs).type # "delete" => Root \notin doomed
          BY <2>4, <2>7, <4>1 DEF Repeats
        <4> QED
          BY <2>2, <2>7, <4>1, <4>2 DEF Repeats
      <3> QED
        BY <1>1, <2>7, <3>1, <3>2, <3>3 DEF Repeats
    <2> QED
      BY <1>2, <2>5, <2>7, FoundStays
  <1> QED
    BY <1>5, <1>6, <1>7 DEF RequestReindex, FetchPage, rows

LEMMA ThreadsFound ==
  ASSUME Sound, Sound', Found, Next, PageFetched \/ ReadContainer \/ WriteContainer
  PROVE  Found'
  <1>1. UNCHANGED <<item, vectors, queue, spent>>
    BY DEF PageFetched, ReadContainer, WriteContainer, rows
  <1>2. OnlyDirectoriesContain'
    BY <1>1 DEF Found, OnlyDirectoriesContain
  <1>3. CASE PageFetched
    <2>1. spent'["fetch"] # 0
      BY <1>1, <1>3 DEF PageFetched, Sound, ThreadsAreSound
    <2> QED
      BY <1>2, <2>1, FoundStays DEF OnLoop
  <1>4. CASE ReadContainer \/ WriteContainer
    <2>1. ~OnLoop
      BY <1>4 DEF ReadContainer, WriteContainer, OnLoop, Sound, ThreadsAreSound, Idle
    <2>2. \A k \in Items : item[k].kind \in Leaves => status'[k] = status[k]
      <3>1. CASE ReadContainer
        BY <3>1 DEF ReadContainer, rows
      <3>2. CASE WriteContainer
        BY <3>2 DEF WriteContainer, Sound, ThreadsAreSound, Leaves
      <3> QED
        BY <1>4, <3>1, <3>2
    <2>3. \A k \in Items : Nodeless(k)' => Nodeless(k)
      BY <1>1, <2>2 DEF Nodeless
    <2> QED
      BY <1>2, <2>1, <2>3, FoundStays
  <1> QED
    BY <1>3, <1>4

\* A process end while no handler runs loses jobs, but none that was stopped.
LEMMA IdleCrashFound ==
  ASSUME Sound, Sound', Found, Next, IdleCrash
  PROVE  Found'
  <1>1. /\ UNCHANGED <<item, status, vectors>> /\ fails' = 0 /\ Spend("crash")
    BY DEF IdleCrash, rows
  <1>2. /\ spent["crash"] \in Nat /\ spent["fault"] \in Nat
        /\ spent'["crash"] = spent["crash"] + 1 /\ spent'["fault"] = spent["fault"]
    BY <1>1, SpendCounts DEF Requests, Sound
  <1>3. OnlyDirectoriesContain'
    BY <1>1 DEF Found, OnlyDirectoriesContain
  <1>5. \A k \in Items : Nodeless(k)' => Nodeless(k)
    BY <1>1 DEF Nodeless
  <1>6. ~(Stops = 1 /\ Stops' = 1)
    BY <1>2 DEF Stops
  <1> QED
    BY <1>3, <1>5, <1>6, FoundStays

\* Indexing writes nodes and then the status: an index job that is stopped in
\* between has not completed its item.
LEMMA IndexingFound ==
  ASSUME Sound, Sound', Found, Next,
         BeginIndex \/ UrlFetched \/ Embedded \/ EmbeddingFails \/ IndexBreaks
  PROVE  Found'
  <1> DEFINE i == Root
             reading == Written(item, status, i, "reading")
  <1>1. jobs # <<>> /\ Head(jobs).type = "index" /\ i \in Items
    <2>1. CASE BeginIndex
      <3>1. jobs # <<>> /\ Head(jobs).type = "index"
        BY <2>1 DEF BeginIndex, Begins
      <3> QED
        BY <3>1, RootIsThere DEF Sound
    <2>2. CASE stage \in {"fetch", "embed"}
      BY <2>2, WaitsForIndex
    <2> QED
      BY <2>1, <2>2 DEF UrlFetched, Embedded, EmbeddingFails, IndexBreaks
  <1>2. RowsInOrder(item, status) /\ jobs \in Seq(SoundJobs(item))
    BY <1>1, HeadIsSound DEF Sound
  <1>3. /\ {"reading", "failed", "completed"} \subseteq Statuses \ {"absent"}
        /\ UNCHANGED item
    BY DEF Statuses, Active, BeginIndex, UrlFetched, Embedded, EmbeddingFails, IndexBreaks
  <1>4. \/ Raises(item, status, jobs)
        \/ Returns(status, Tail(jobs))
        \/ Suspends(reading, "fetch") \/ Suspends(reading, "embed")
        \/ Raises(item, reading, jobs)
        \/ Returns(Written(item, reading, i, "failed"), Tail(jobs))
        \/ Suspends(status, "embed")
        \/ Returns(Written(item, status, i, "failed"), Tail(jobs))
        \/ /\ Returns(Written(item, status, i, "completed"), Tail(jobs))
           /\ vectors' = vectors \cup {i}
        \/ Restarts(status)
        \/ Breaks(item, status, jobs)
    BY DEF BeginIndex, UrlFetched, Embedded, EmbeddingFails, IndexBreaks
  <1>5. vectors \subseteq vectors'
    BY DEF BeginIndex, UrlFetched, Embedded, EmbeddingFails, IndexBreaks
  <1> HIDE DEF i
  <1>6. RowsInOrder(item, reading) /\ ~Completes(item, status, reading)
    BY <1>1, <1>2, <1>3, WrittenInOrder, WrittenCompletes
  <1> HIDE DEF reading
  <1>7. \/ ~Completes(item, status, status')
        \/ status' = Written(item, status, i, "completed") /\ vectors' = vectors \cup {i}
    <2>1. CASE Raises(item, status, jobs) \/ Breaks(item, status, jobs)
      BY <1>1, <1>2, <2>1, RaisesCompletes, BreaksCompletes
    <2>2. CASE Raises(item, reading, jobs)
      <3>1. ~Completes(item, reading, status')
        BY <1>1, <1>2, <1>6, <2>2, RaisesCompletes
      <3> QED
        BY <1>6, <3>1, CompletesTwice
    <2>3. CASE status' = Written(item, reading, i, "failed")
      <3>1. ~Completes(item, reading, status')
        BY <1>1, <1>3, <1>6, <2>3, WrittenCompletes
      <3> QED
        BY <1>6, <3>1, CompletesTwice
    <2>4. CASE status' = Written(item, status, i, "failed")
      BY <1>1, <1>2, <1>3, <2>4, WrittenCompletes
    <2>5. CASE status' = status \/ status' = reading
      BY <1>6, <2>5 DEF Completes
    <2> QED
      BY <1>4, <2>1, <2>2, <2>3, <2>4, <2>5 DEF Returns, Suspends, Restarts
  <1>8. \A k \in Items : Nodeless(k)' => Nodeless(k)
    <2>1. CASE ~Completes(item, status, status')
      BY <1>3, <1>5, <2>1 DEF Nodeless, Completes
    <2>2. CASE status' = Written(item, status, i, "completed") /\ vectors' = vectors \cup {i}
      <3>1. OneLeaf(item, status, i, "completed", status')
        BY <1>1, <1>2, <1>3, <2>2, LeafWritten
      <3> QED
        BY <1>3, <2>2, <3>1 DEF OneLeaf, Nodeless
    <2> QED
      BY <1>7, <2>1, <2>2
  <1>9. \A k \in Items : ~Repeats(k)
    BY <1>1 DEF Repeats
  <1>10. OnlyDirectoriesContain'
    BY <1>3 DEF Found, OnlyDirectoriesContain
  <1> QED
    BY <1>8, <1>9, <1>10, FoundStays

\* A container is not searched itself, and its new children are not completed.
LEMMA PreparationFound ==
  ASSUME Sound, Sound', Found, Next, PrepareRoot \/ PrepareBreaks
  PROVE  Found'
  <1> DEFINE d == Root
             all == Cardinality(OnDisk(item[d].tree))
             preparing == Preparing(d)
  <1>1. jobs # <<>> /\ Head(jobs).type = "prepare" /\ RowsInOrder(item, status) /\ vectors' = vectors
    BY DEF PrepareRoot, PrepareBreaks, Begins, Sound
  <1>2. d \in Items /\ item[d].kind = "directory" /\ jobs \in Seq(SoundJobs(item))
    BY <1>1, RootIsThere, HeadIsSound DEF Sound, RootKinds
  <1>3. all \in Nat /\ all \in 0 .. all
    BY <1>2, OnDiskIsFew
  <1>4. RowsInOrder(item, preparing) /\ ~Completes(item, status, preparing)
    <2>1. "preparing" \in Statuses \ {"absent"}
      BY DEF Statuses, Active
    <2> HIDE DEF d
    <2> QED
      BY <1>1, <1>2, <2>1, WrittenInOrder, WrittenCompletes DEF Preparing
  <1>5. \/ /\ UNCHANGED item
           /\ Raises(item, status, jobs) \/ Returns(status, Tail(jobs)) \/ Raises(item, preparing, jobs)
        \/ \E n \in 0 .. all :
             /\ Room(n)
             /\ item' = WithChildren(d, n)
             /\ \/ status' = Written(item', WithIdle(preparing, n), d, "completed")
                   /\ fails' = 0
                \/ Breaks(item', WithIdle(preparing, n), jobs \o IndexJobs(n))
    <2>1. CASE PrepareRoot
      BY <1>3, <2>1 DEF PrepareRoot, Returns
    <2>2. CASE PrepareBreaks
      <3>1. PICK n \in 0 .. all :
              /\ Room(n + Cardinality(item[d].tree))
              /\ item' = WithChildren(d, n)
              /\ Breaks(item', WithIdle(preparing, n), jobs \o IndexJobs(n))
        BY <2>2 DEF PrepareBreaks
      <3>2. Room(n)
        <4>1. Made \in Nat /\ Cardinality(item[d].tree) \in Nat
          BY <1>1, <1>2, MadeIsLast, OnDiskIsFew
        <4> HIDE DEF d, all
        <4> QED
          BY <1>3, <3>1, <4>1, MaxItemsAssumption DEF Room
      <3> QED
        BY <3>1, <3>2
    <2> QED
      BY <2>1, <2>2
  <1> HIDE DEF preparing, d, all
  <1>6. \A k \in Items : ~Repeats(k)
    BY <1>1 DEF Repeats
  <1>7. /\ \A k \in Items : Nodeless(k)' => Nodeless(k)
        /\ OnlyDirectoriesContain'
    <2>1. CASE /\ UNCHANGED item
               /\ Raises(item, status, jobs) \/ Returns(status, Tail(jobs)) \/ Raises(item, preparing, jobs)
      <3>1. ~Completes(item, status, status')
        <4>1. CASE Raises(item, status, jobs)
          BY <1>1, <1>2, <4>1, RaisesCompletes
        <4>2. CASE Returns(status, Tail(jobs))
          BY <4>2 DEF Returns, Completes
        <4>3. CASE Raises(item, preparing, jobs)
          <5>1. ~Completes(item, preparing, status')
            BY <1>1, <1>2, <1>4, <4>3, RaisesCompletes
          <5> QED
            BY <1>4, <5>1, CompletesTwice
        <4> QED
          BY <2>1, <4>1, <4>2, <4>3
      <3> QED
        BY <1>1, <2>1, <3>1 DEF Completes, Nodeless, Found, OnlyDirectoriesContain
    <2>2. ASSUME NEW n \in 0 .. all, Room(n), item' = WithChildren(d, n),
                 \/ status' = Written(item', WithIdle(preparing, n), d, "completed")
                    /\ fails' = 0
                 \/ Breaks(item', WithIdle(preparing, n), jobs \o IndexJobs(n))
          PROVE  /\ \A k \in Items : Nodeless(k)' => Nodeless(k)
                 /\ OnlyDirectoriesContain'
      <3> DEFINE st == WithIdle(preparing, n)
                 q == jobs \o IndexJobs(n)
      <3>1. n \in 0 .. Cardinality(OnDisk(item[d].tree))
        BY DEF all
      <3>2. /\ RowsInOrder(item', st)
            /\ \A i \in Items : item[i] # NoRow => item'[i] = item[i]
            /\ \A i \in Items : item[i] # NoRow => st[i] = preparing[i]
            /\ \A i \in Items : item[i] = NoRow /\ item'[i] # NoRow =>
                 item'[i].group = d /\ st[i] = "idle"
            /\ IndexJobs(n) \in Seq(SoundJobs(item'))
        BY <1>2, <1>4, <2>2, <3>1, ChildrenInOrder
      <3>3. jobs \in Seq(SoundJobs(item'))
        BY <1>2, <3>2, SoundJobsGrow
      <3>4. q \in Seq(SoundJobs(item')) /\ q # <<>>
        BY <1>1, <3>2, <3>3, ConcatEqualIffEmpty
      <3>6. OnlyDirectoriesContain'
        <4>1. NoRow.group \notin Items
          BY DEF NoRow, NoItem, Items
        <4>2. \A i \in Items : item[i] = NoRow /\ item'[i].group \in Items => item'[i].group = d
          BY <3>2, <4>1
        <4> QED
          BY <1>2, <4>2, ContainersStay DEF Found
      <3>7. \A i \in Items : item'[i].kind \in Leaves => item'[i] # NoRow
        BY DEF NoRow, Leaves
      <3> HIDE DEF st, q
      <3>8. ~Completes(item', st, status')
        <4>1. CASE status' = Written(item', st, d, "completed")
          <5>1. "completed" \in Statuses \ {"absent"}
            BY DEF Statuses
          <5>2. item'[d].kind \notin Leaves
            BY <1>2, <3>2 DEF Leaves, NoRow
          <5> QED
            BY <1>2, <3>2, <4>1, <5>1, <5>2, WrittenCompletes
        <4>2. CASE Breaks(item', st, q)
          BY <3>2, <3>4, <4>2, BreaksCompletes
        <4> QED
          BY <2>2, <4>1, <4>2 DEF st, q
      <3>9. ASSUME NEW k \in Items, Nodeless(k)'
            PROVE  Nodeless(k)
        <4>1. item'[k].kind \in Leaves /\ item'[k] # NoRow /\ st[k] = "completed" /\ k \notin vectors
          BY <1>1, <3>7, <3>8, <3>9 DEF Nodeless, Completes
        <4>2. item[k] # NoRow
          BY <3>2, <4>1
        <4> QED
          BY <1>4, <3>2, <4>1, <4>2 DEF Nodeless, Completes
      <3> QED
        BY <3>6, <3>9
    <2> QED
      BY <1>5, <2>1, <2>2
  <1> QED
    BY <1>6, <1>7, FoundStays

\* A stop of a delete or a reindex job, the first one: the job stays.
LEMMA BreaksRepeats ==
  ASSUME Sound, AttemptsAreFaults, jobs # <<>>, Head(jobs).type \in {"delete", "reindex"},
         NEW it, NEW st, NEW q \in Seq(SoundJobs(it)), q # <<>>, Head(q) = Head(jobs),
         Breaks(it, st, q)
  PROVE  /\ Stops \in Nat /\ Stops' = Stops + 1
         /\ Stops = 0 => status' = st /\ jobs' # <<>> /\ Head(jobs') = Head(jobs)
  <1>1. /\ spent["crash"] \in Nat /\ spent["fault"] \in Nat
        /\ Spend("crash") => spent'["crash"] = spent["crash"] + 1 /\ spent'["fault"] = spent["fault"]
        /\ Spend("fault") => spent'["fault"] = spent["fault"] + 1 /\ spent'["crash"] = spent["crash"]
    BY SpendCounts DEF Sound, Requests
  <1>2. Stops \in Nat /\ Stops' = Stops + 1
    BY <1>1 DEF Breaks, Restarts, Stops
  <1>3. CASE Restarts(st)
    <2>1. jobs \in Seq(SoundJobs(item))
      BY HeadIsSound
    <2>2. jobs' # <<>> /\ Head(jobs') = Head(jobs)
      BY <1>3, <2>1 DEF Restarts
    <2> QED
      BY <1>2, <1>3, <2>2 DEF Restarts
  <1>4. CASE Spend("fault") /\ Raises(it, st, q)
    <2>1. Stops = 0 => fails = 0 /\ ~(fails + 1 = MaxTries)
      <3>1. Stops = 0 => spent["fault"] = 0
        BY <1>1 DEF Stops
      <3> QED
        BY <3>1, ItemsAssumption DEF AttemptsAreFaults, Sound, QueueIsSound
    <2> QED
      BY <1>1, <1>2, <1>4, <2>1 DEF Raises, Returns
  <1> QED
    BY <1>3, <1>4 DEF Breaks

\* Deleting deletes whatever had lost its nodes...
LEMMA DeletionFound ==
  ASSUME Sound, Sound', Found, Next, DeleteSubtree
  PROVE  Found'
  <1> DEFINE doomed == Subtree(item, status, Head(jobs).roots)
  <1>1. PICK groups \in SetToSeqs(GroupsOf(doomed)) :
          status' = Removed(item, status, doomed, groups)
    BY DEF DeleteSubtree, Returns
  <1>2. /\ vectors' = vectors \ doomed /\ UNCHANGED item /\ fails' = 0
        /\ RowsInOrder(item, status)
    BY DEF DeleteSubtree, Returns, Sound
  <1>3. doomed \in SUBSET Items
    BY SubtreeHolds
  <1>4. \A k \in Items : Repeats(k) => k \in doomed
    BY DEF Repeats
  <1> HIDE DEF doomed
  <1>5. groups \in Seq(Items \cup {NoItem})
    BY <1>1, <1>3, GroupsAreContainers
  <1>6. \A k \in Items : item[k].kind \in Leaves =>
          status'[k] = IF k \in doomed THEN "absent" ELSE status[k]
    BY <1>1, <1>2, <1>5, LeafRemoved
  <1>7. \A k \in Items : Nodeless(k)' => Nodeless(k) /\ ~Repeats(k)
    BY <1>2, <1>4, <1>6 DEF Nodeless
  <1>8. OnlyDirectoriesContain'
    BY <1>2 DEF Found, OnlyDirectoriesContain
  <1> QED
    BY <1>7, <1>8, FoundStays

\* ...and a delete job that is stopped will do so.
LEMMA DeleteBreaksFound ==
  ASSUME Sound, Sound', AttemptsAreFaults, Found, Next, DeleteBreaks
  PROVE  Found'
  <1> DEFINE doomed == Subtree(item, status, Head(jobs).roots)
             q == <<Head(jobs)>> \o Uncancelled(Tail(jobs), doomed)
  <1>1. /\ jobs # <<>> /\ Head(jobs).type = "delete" /\ UNCHANGED item
        /\ vectors' \in {vectors, vectors \ doomed}
        /\ Breaks(item, status, q)
    BY DEF DeleteBreaks, Begins
  <1>2. \A k \in doomed : k \in Subtree(item, status, Head(jobs).roots)
    OBVIOUS
  <1> HIDE DEF doomed
  <1>3. /\ Uncancelled(Tail(jobs), doomed) \in Seq(SoundJobs(item))
        /\ Head(jobs) \in SoundJobs(item)
    BY <1>1, HeadIsSound, UncancelledIs
  <1>4. q \in Seq(SoundJobs(item)) /\ q # <<>> /\ Head(q) = Head(jobs)
    BY <1>3
  <1> HIDE DEF q
  <1>5. /\ Stops \in Nat /\ Stops' = Stops + 1
        /\ Stops = 0 => status' = status /\ jobs' # <<>> /\ Head(jobs') = Head(jobs)
    BY <1>1, <1>4, BreaksRepeats
  <1>6. OnlyDirectoriesContain'
    BY <1>1 DEF Found, OnlyDirectoriesContain
  <1>8. OnLoop' => OnLoop /\ spent["fetch"] = 0
    <2>1. {"remove", "fetch"} \subseteq Requests
      BY DEF Requests
    <2> QED
      BY <2>1, StepsAdd DEF OnLoop
  <1>9. ASSUME OnLoop', Stops' = 1, NEW k \in Items, Nodeless(k)'
        PROVE  Repeats(k)'
    <2>1. Stops = 0 /\ status' = status /\ jobs' # <<>> /\ Head(jobs') = Head(jobs)
      BY <1>5, <1>9
    <2>2. ~Nodeless(k)
      BY <1>8, <1>9, <2>1 DEF Found
    <2>3. k \in doomed
      BY <1>1, <1>9, <2>1, <2>2 DEF Nodeless
    <2> QED
      BY <1>1, <1>2, <2>1, <2>3 DEF Repeats
  <1> QED
    BY <1>5, <1>6, <1>9 DEF Found

\* In a directory all leaves below go; an item that is none is alone.
LEMMA ReindexReaches ==
  ASSUME Sound, OnlyDirectoriesContain, NEW r \in Items, item[r].kind \in Kinds
  PROVE  \/ item[r].kind \in Leaves /\ Subtree(item, status, {r}) \subseteq {r} /\ Pruned(r) = status
         \/ /\ item[r].kind = "directory"
            /\ \A k \in Items : item[k].kind \in Leaves =>
                 Pruned(r)[k] = IF k \in Subtree(item, status, {r}) THEN "absent" ELSE status[k]
  <1> DEFINE below == Subtree(item, status, {r}) \ {r}
  <1>1. RowsInOrder(item, status) /\ Forest(item) /\ <<r>> \in Seq(Items \cup {NoItem})
    BY RowsAreForest DEF Sound
  <1>2. CASE item[r].kind \in Leaves
    <2>1. Children(item, status, r) = {}
      BY <1>2 DEF OnlyDirectoriesContain, Children, Leaves
    <2>2. Subtree(item, status, {r}) \subseteq {r}
      BY <1>1, <2>1, LeafSubtree
    <2>3. Pruned(r) = status
      BY <2>2 DEF Pruned
    <2> QED
      BY <1>2, <2>2, <2>3
  <1>3. CASE item[r].kind = "directory"
    <2>1. \A k \in Items : item[k].kind \in Leaves => (k \in Subtree(item, status, {r}) <=> k \in below)
      BY <1>3 DEF Leaves
    <2>2. CASE below = {}
      BY <1>3, <2>1, <2>2 DEF Pruned
    <2>3. CASE below # {}
      <3>1. Pruned(r) = Removed(item, status, below, <<r>>)
        BY <1>3, <2>3 DEF Pruned
      <3> DEFINE groups == <<r>>
      <3>2. groups \in Seq(Items \cup {NoItem}) /\ Pruned(r) = Removed(item, status, below, groups)
        BY <1>1, <3>1
      <3> HIDE DEF below, groups
      <3>3. \A k \in Items : item[k].kind \in Leaves =>
              Pruned(r)[k] = IF k \in below THEN "absent" ELSE status[k]
        BY <1>1, <3>2, LeafRemoved
      <3> QED
        BY <1>3, <2>1, <3>3
    <2> QED
      BY <2>2, <2>3
  <1> QED
    BY <1>2, <1>3 DEF Kinds

\* Reindexing takes the nodes of a subtree and all its leaves, or the status of
\* the one leaf that it is...
LEMMA ReindexFound ==
  ASSUME Sound, Sound', Found, Next, ReindexSubtree
  PROVE  Found'
  <1> DEFINE r == Root
             sub == Subtree(item, status, {r})
             pruned == Pruned(r)
  <1>1. /\ jobs # <<>> /\ Head(jobs).type = "reindex" /\ UNCHANGED item
        /\ RowsInOrder(item, status) /\ fails' = 0
    BY DEF ReindexSubtree, Begins, Sound, Returns
  <1>2. r \in Items /\ item[r].kind \in Kinds /\ Head(jobs).roots = {r}
    BY <1>1, RootIsThere DEF Sound, RootKinds
  <1>3. \/ item[r].kind \in Leaves /\ sub \subseteq {r} /\ pruned = status
        \/ /\ item[r].kind = "directory"
           /\ \A k \in Items : item[k].kind \in Leaves =>
                pruned[k] = IF k \in sub THEN "absent" ELSE status[k]
    BY <1>2, ReindexReaches DEF Found
  <1>4. /\ RowsInOrder(item, pruned)
        /\ {"preparing", "processing"} \subseteq Statuses \ {"absent"}
    BY <1>2, PrunedSticks DEF Statuses, Active
  <1>5. OnlyDirectoriesContain'
    BY <1>1 DEF Found, OnlyDirectoriesContain
  <1>7. \A k \in Items : Repeats(k) => k \in sub /\ status[r] \notin {"absent", "deleting"}
    BY <1>1, <1>2 DEF Repeats
  <1>8. \/ /\ status[r] \in {"absent", "deleting"}
           /\ status' = status /\ vectors' = vectors
        \/ /\ vectors' = vectors \ sub
           /\ item[r].kind = "directory"
           /\ status' = Written(item, pruned, r, "preparing")
        \/ /\ vectors' = vectors \ sub
           /\ item[r].kind # "directory"
           /\ status[r] \notin {"absent", "deleting"}
           /\ status' = Written(item, status, r, "processing")
    <2>1. Here(r) <=> status[r] # "absent"
      BY <1>2 DEF Here, Present, Items, NoItem
    <2> QED
      BY <2>1 DEF ReindexSubtree, Returns
  <1> HIDE DEF r, sub, pruned
  <1>9. \A k \in Items : Nodeless(k)' => Nodeless(k) /\ ~Repeats(k)
    <2>1. CASE status[r] \in {"absent", "deleting"} /\ status' = status /\ vectors' = vectors
      BY <1>1, <1>7, <2>1 DEF Nodeless
    <2>2. CASE /\ vectors' = vectors \ sub
               /\ item[r].kind = "directory"
               /\ status' = Written(item, pruned, r, "preparing")
      <3>1. OneLeaf(item, pruned, r, "preparing", status')
        BY <1>2, <1>4, <2>2, LeafWritten
      <3>2. item[r].kind \notin Leaves
        BY <2>2 DEF Leaves
      <3> QED
        BY <1>1, <1>3, <1>7, <2>2, <3>1, <3>2 DEF OneLeaf, Nodeless
    <2>3. CASE /\ vectors' = vectors \ sub
               /\ item[r].kind # "directory"
               /\ status[r] \notin {"absent", "deleting"}
               /\ status' = Written(item, status, r, "processing")
      <3>1. OneLeaf(item, status, r, "processing", status')
        BY <1>1, <1>2, <1>4, <2>3, LeafWritten
      <3>2. sub \subseteq {r}
        BY <1>3, <2>3
      <3> QED
        BY <1>1, <1>7, <2>3, <3>1, <3>2 DEF OneLeaf, Nodeless
    <2> QED
      BY <1>8, <2>1, <2>2, <2>3
  <1> QED
    BY <1>5, <1>9, FoundStays

\* ...and a reindex job that is stopped will do so.
LEMMA ReindexBreaksFound ==
  ASSUME Sound, Sound', AttemptsAreFaults, Found, Next, ReindexBreaks
  PROVE  Found'
  <1> DEFINE r == Root
             sub == Subtree(item, status, {r})
  <1>1. /\ jobs # <<>> /\ Head(jobs).type = "reindex" /\ UNCHANGED item
        /\ vectors' = vectors \ sub
        /\ status[r] \notin {"absent", "deleting"}
    BY DEF ReindexBreaks, Begins, Here, Present
  <1>2. PICK st \in {status, Pruned(r)} : Breaks(item, st, jobs)
    BY DEF ReindexBreaks
  <1>3. /\ r \in Items /\ item[r].kind \in Kinds /\ Head(jobs).roots = {r}
        /\ jobs \in Seq(SoundJobs(item))
    BY <1>1, RootIsThere, HeadIsSound DEF Sound, RootKinds
  <1>4. \/ item[r].kind \in Leaves /\ sub \subseteq {r} /\ Pruned(r) = status
        \/ /\ item[r].kind = "directory"
           /\ \A k \in Items : item[k].kind \in Leaves =>
                Pruned(r)[k] = IF k \in sub THEN "absent" ELSE status[k]
    BY <1>3, ReindexReaches DEF Found
  <1>5. /\ Stops \in Nat /\ Stops' = Stops + 1
        /\ Stops = 0 => status' = st /\ jobs' # <<>> /\ Head(jobs') = Head(jobs)
    BY <1>1, <1>2, <1>3, BreaksRepeats
  <1>6. OnlyDirectoriesContain'
    BY <1>1 DEF Found, OnlyDirectoriesContain
  <1>8. OnLoop' => OnLoop /\ spent["fetch"] = 0
    <2>1. {"remove", "fetch"} \subseteq Requests
      BY DEF Requests
    <2> QED
      BY <2>1, StepsAdd DEF OnLoop
  <1>9. ASSUME OnLoop', Stops' = 1, NEW k \in Items, Nodeless(k)'
        PROVE  Repeats(k)'
    <2>1. Stops = 0 /\ status' = st /\ jobs' # <<>> /\ Head(jobs') = Head(jobs) /\ Root' = r
      BY <1>5, <1>9 DEF Root
    <2>2. ~Nodeless(k)
      BY <1>8, <1>9, <2>1 DEF Found
    <2>3. st = status /\ k \in sub
      <3>1. CASE item[r].kind \in Leaves
        BY <1>1, <1>2, <1>4, <1>9, <2>1, <2>2, <3>1 DEF Nodeless, Leaves
      <3>2. CASE st = status
        BY <1>1, <1>9, <2>1, <2>2, <3>2 DEF Nodeless
      <3>3. CASE item[r].kind = "directory" /\ st = Pruned(r)
        BY <1>1, <1>4, <1>9, <2>1, <2>2, <3>3 DEF Nodeless, Leaves
      <3> QED
        BY <1>2, <1>4, <3>1, <3>2, <3>3
    <2> QED
      BY <1>1, <1>3, <2>1, <2>3 DEF Repeats
  <1> QED
    BY <1>5, <1>6, <1>9 DEF Found

LEMMA InitFound == Init => Found
  <1> SUFFICES ASSUME Init PROVE Found
    OBVIOUS
  <1>1. NoRow.group \notin Items /\ NoRow.kind \notin Leaves
    BY DEF NoRow, NoItem, Items, Leaves
  <1>2. {"crash", "fault"} \subseteq Requests
    BY DEF Requests
  <1> QED
    BY <1>1, <1>2 DEF Init, Found, OnlyDirectoriesContain, Nodeless, Stops

LEMMA NextFound ==
  ASSUME Parents \subseteq {"directory"}
  PROVE  Sound /\ AttemptsAreFaults /\ Found /\ [Next]_vars => Found'
  <1> SUFFICES ASSUME Sound, AttemptsAreFaults, Found, [Next]_vars PROVE Found'
    OBVIOUS
  <1>1. CASE UNCHANGED vars
    BY <1>1 DEF vars, Found, OnlyDirectoriesContain, Nodeless, Repeats, Root, Stops, OnLoop
  <1>2. CASE Next
    <2>1. Sound'
      BY NextSound
    <2> QED
      BY <1>2, <2>1, AddsFound, RequestsFound, ThreadsFound, IdleCrashFound, IndexingFound, PreparationFound,
         DeletionFound, DeleteBreaksFound, ReindexFound, ReindexBreaksFound
         DEF Next, Ask, Adds, Work, Stop
  <1> QED
    BY <1>1, <1>2

LEMMA FoundIsSearchable ==
  Sound /\ Found => CompletedIsSearchable /\ RestoredIsSearchable
  <1> SUFFICES ASSUME Sound, Found PROVE CompletedIsSearchable /\ RestoredIsSearchable
    OBVIOUS
  <1>1. Stops \in Nat
    BY DEF Sound, Stops, Requests
  <1>2. CompletedIsSearchable
    BY DEF CompletedIsSearchable, Searchable, Found, Nodeless
  <1>3. RestoredIsSearchable
    BY <1>1 DEF RestoredIsSearchable, Searchable, Found, Nodeless, Repeats, OnLoop
  <1> QED
    BY <1>2, <1>3

\* A leaf that says completed can be found by a search as long as no handler
\* was stopped and no page was fetched beside the handlers, for any number of
\* items, files and requests: no order of reindexing, indexing, preparation and
\* deletion completes an item without nodes or takes the nodes of one that
\* stays completed.  Users put items into directories only: a leaf with
\* children that is reindexed would leave its children without their nodes.
THEOREM CompletedCanBeFound ==
  ASSUME Parents \subseteq {"directory"}
  PROVE  Spec => []CompletedIsSearchable
  <1>1. Sound /\ AttemptsAreFaults /\ Found /\ [Next]_vars => Found'
    BY NextFound
  <1> QED
    BY <1>1, InitFound, AlwaysSound, AlwaysAttempts, FoundIsSearchable, PTL DEF Spec

\* One stop of a handler between two statements, by a process end or a refused
\* statement, is repaired by the time the queue is empty: what the stop left
\* completed without nodes the same job, kept at the head of the queue, resets
\* or deletes.
THEOREM RestoredCanBeFound ==
  ASSUME Parents \subseteq {"directory"}
  PROVE  Spec => []RestoredIsSearchable
  <1>1. Sound /\ AttemptsAreFaults /\ Found /\ [Next]_vars => Found'
    BY NextFound
  <1> QED
    BY <1>1, InitFound, AlwaysSound, AlwaysAttempts, FoundIsSearchable, PTL DEF Spec

-----------------------------------------------------------------------------
(* No item is left without the job that brings it on                       *)

\* Item i is on its way to a status that a job of that type gives it.
Needing(it, st, i, type) ==
  \/ type = "index" /\ it[i].kind \in Leaves /\ st[i] \in Active
  \/ type = "prepare" /\ st[i] = "preparing"

Needs(i, type) == Needing(item, status, i, type)

\* The job is there; or a stop of a delete job has taken it, and the delete
\* job is there.
Follows(i, type) ==
  \/ NewJob(type, i) \in Queued(jobs)
  \/ spent["fault"] > 0 /\ Doomed(i)

\* Item i is being deleted, or the deletion of it has been asked for.
Condemned(i) == Here(i) /\ (status[i] = "deleting" \/ <<"delete", {i}>> \in keys)

\* A deletion of one item was asked for when the item was there.
KeysAreOne ==
  \A R : <<"delete", R>> \in keys => \E i \in Items : R = {i} /\ item[i] # NoRow

\* The hypothesis of ActiveHasJob.
HardlyDisturbed == Undisturbed /\ 0 \in {spent["fault"], spent["remove"]}

\* What is on its way has its job, and what is to be deleted is in the subtree
\* of a delete job, so that a used key stands for a job that will be done.
Followed ==
  HardlyDisturbed =>
    /\ \A j \in Queued(jobs) : j.type = "delete" => <<"delete", j.roots>> \in keys
    /\ \A i \in Items : \A type : Needs(i, type) => Follows(i, type)
    /\ spent["remove"] = 0 => \A i \in Items : Condemned(i) => Doomed(i)

LEMMA DoomedIs ==
  /\ \A i : Doomed(i) <=> \E j \in Queued(jobs) :
                            j.type = "delete" /\ i \in Subtree(item, status, j.roots)
  /\ \A i : Doomed(i)' <=> \E j \in Queued(jobs') :
                             j.type = "delete" /\ i \in Subtree(item', status', j.roots)
  BY DEF Doomed, Queued

LEMMA SpentGrows ==
  ASSUME Sound, Next
  PROVE  /\ HardlyDisturbed' => HardlyDisturbed
         /\ spent'["remove"] = 0 => spent["remove"] = 0
         /\ spent["fault"] > 0 => spent'["fault"] > 0
  <1>1. {"fault", "remove", "crash"} \subseteq Requests
    BY DEF Requests
  <1>2. \A q \in {"fault", "remove", "crash"} :
          spent[q] \in Nat /\ spent'[q] \in Nat /\ spent[q] <= spent'[q]
    BY <1>1, StepsAdd
  <1> QED
    BY <1>2, ItemsAssumption DEF HardlyDisturbed, Undisturbed

\* What is left to show of a step.
LEMMA FollowedStays ==
  ASSUME Sound, Followed, Next,
         HardlyDisturbed' =>
           /\ \A j \in Queued(jobs') : j.type = "delete" =>
                j \in Queued(jobs) \/ <<"delete", j.roots>> \in keys'
           /\ keys \subseteq keys'
           /\ \A i \in Items : \A type : Needs(i, type)' =>
                \/ Follows(i, type)'
                \/ /\ Needs(i, type)
                   /\ NewJob(type, i) \in Queued(jobs) => NewJob(type, i) \in Queued(jobs')
           /\ spent'["remove"] = 0 => \A i \in Items :
                /\ Condemned(i)' => Condemned(i) \/ Doomed(i)'
                /\ Here(i)' /\ Doomed(i) => Doomed(i)'
  PROVE  Followed'
  <1> SUFFICES ASSUME HardlyDisturbed' PROVE Followed'
    BY DEF Followed
  <1>1. HardlyDisturbed /\ (spent'["remove"] = 0 => spent["remove"] = 0)
    BY SpentGrows
  <1>2. \A j \in Queued(jobs') : j.type = "delete" => <<"delete", j.roots>> \in keys'
    BY <1>1 DEF Followed
  <1>3. ASSUME spent'["remove"] = 0, NEW i \in Items, Condemned(i)'
        PROVE  Doomed(i)'
    BY <1>1, <1>3 DEF Followed, Condemned
  <1>4. ASSUME NEW i \in Items, NEW type, Needs(i, type)'
        PROVE  Follows(i, type)'
    <2>1. CASE Follows(i, type)'
      BY <2>1
    <2>2. CASE /\ Needs(i, type)
               /\ NewJob(type, i) \in Queued(jobs) => NewJob(type, i) \in Queued(jobs')
      <3>1. Follows(i, type)
        BY <1>1, <2>2 DEF Followed
      <3>2. CASE NewJob(type, i) \in Queued(jobs)
        BY <2>2, <3>2 DEF Follows
      <3>3. CASE spent["fault"] > 0 /\ Doomed(i)
        <4>1. spent'["fault"] > 0 /\ spent'["fault"] # 0
          BY <3>3, SpentGrows
        <4>2. spent'["remove"] = 0
          BY <4>1 DEF HardlyDisturbed
        <4>3. Here(i)'
          BY <1>4 DEF Needs, Needing, Here, Present, Active, Items, NoItem
        <4> QED
          BY <3>3, <4>1, <4>2, <4>3 DEF Follows
      <3> QED
        BY <3>1, <3>2, <3>3 DEF Follows
    <2> QED
      BY <1>4, <2>1, <2>2
  <1> QED
    BY <1>2, <1>3, <1>4 DEF Followed

\* A delete job that stays reaches what it reached, but for what is gone.
LEMMA DoomedStays ==
  ASSUME Sound, Next, NEW gone,
         \A i \in Items : Present(status, i) /\ item[i].group \in gone => i \in gone,
         \A i \in Items : Present(status, i) /\ i \notin gone => Present(status', i),
         \A i \in Items : Present(status', i) => i \notin gone,
         \A j \in Queued(jobs) : j.type = "delete" =>
           j \in Queued(jobs') \/ Subtree(item, status, j.roots) \subseteq gone
  PROVE  \A i \in Items : Here(i)' /\ Doomed(i) => Doomed(i)'
  <1>1. Forest(item)
    BY RowsAreForest DEF Sound
  <1>2. \A i \in Items : Present(status, i) => item'[i] = item[i]
    <2>1. \A i \in Items : Present(status, i) => item[i] # NoRow
      BY DEF Sound, RowsInOrder, Present
    <2> QED
      BY <2>1, StepsAdd
  <1>3. ASSUME NEW i \in Items, Here(i)', Doomed(i)
        PROVE  Doomed(i)'
    <2>1. PICK j \in Queued(jobs) : j.type = "delete" /\ i \in Subtree(item, status, j.roots)
      BY <1>3, DoomedIs
    <2>2. i \notin gone /\ j \in Queued(jobs')
      BY <1>3, <2>1 DEF Here
    <2> DEFINE R == j.roots
    <2>3. Subtree(item, status, R) \ gone \subseteq Subtree(item', status', R)
      <3>1. \A k \in Items : Present(status, k) /\ k \notin gone =>
                               Present(status', k) /\ item'[k].group = item[k].group
        BY <1>2
      <3> HIDE DEF R
      <3> QED
        BY <1>1, <3>1, SubtreeStays
    <2> QED
      BY <2>1, <2>2, <2>3, DoomedIs
  <1> QED
    BY <1>3

LEMMA NothingGone ==
  ASSUME Sound, Next,
         \A i \in Items : Present(status, i) => Present(status', i),
         \A j \in Queued(jobs) : j.type = "delete" => j \in Queued(jobs')
  PROVE  \A i \in Items : Here(i)' /\ Doomed(i) => Doomed(i)'
  <1> DEFINE gone == {}
  <1>1. /\ \A i \in Items : Present(status, i) /\ item[i].group \in gone => i \in gone
        /\ \A i \in Items : Present(status, i) /\ i \notin gone => Present(status', i)
        /\ \A i \in Items : Present(status', i) => i \notin gone
        /\ \A j \in Queued(jobs) : j.type = "delete" =>
             j \in Queued(jobs') \/ Subtree(item, status, j.roots) \subseteq gone
    OBVIOUS
  <1> HIDE DEF gone
  <1> QED
    BY <1>1, DoomedStays

\* Deletions select one item: its own key is the only one that stands for it.
LEMMA DeletesOne ==
  ASSUME Sound, MaxRoots = 1, NEW R \in SUBSET Items, Cardinality(R) <= MaxRoots,
         RequestDelete(R)
  PROVE  \E r \in Items : /\ R = {r} /\ Here(r) /\ item[r] # NoRow
                          /\ status' = MarkedDeleting(item, status, {r})
                          /\ EnqueueOnce("delete", {r})
                          /\ UNCHANGED item /\ Spend("delete")
  <1>1. /\ R # {} /\ \A r \in R : Here(r)
        /\ status' = MarkedDeleting(item, status, Outermost(item, status, R))
        /\ EnqueueOnce("delete", Outermost(item, status, R))
        /\ UNCHANGED item /\ Spend("delete")
    BY DEF RequestDelete
  <1>2. PICK r \in Items : R = {r} /\ Outermost(item, status, R) = {r}
    BY <1>1, SelectsOne
  <1>3. item[r] # NoRow
    BY <1>1, <1>2 DEF Sound, RowsInOrder, Here, Present
  <1> QED
    BY <1>1, <1>2, <1>3

LEMMA NextKeysAreOne ==
  ASSUME MaxRoots = 1, Sound, KeysAreOne, Next
  PROVE  KeysAreOne'
  <1>1. \A i \in Items : item[i] # NoRow => item'[i] # NoRow
    BY StepsAdd
  <1>2. ASSUME NEW R \in SUBSET Items, Cardinality(R) <= MaxRoots, RequestDelete(R)
        PROVE  KeysAreOne'
    <2>1. PICK r \in Items : item[r] # NoRow /\ EnqueueOnce("delete", {r})
      BY <1>2, DeletesOne
    <2>2. keys' = keys \cup {<<"delete", {r}>>}
      BY <2>1 DEF EnqueueOnce
    <2>3. \A S : <<"delete", S>> \in keys' => <<"delete", S>> \in keys \/ S = {r}
      BY <2>2
    <2> QED
      BY <1>1, <2>1, <2>3 DEF KeysAreOne
  <1>3. CASE \E r \in Items : RequestReindex(r)
    BY <1>1, <1>3 DEF RequestReindex, EnqueueOnce, KeysAreOne
  <1>4. CASE UNCHANGED keys
    BY <1>1, <1>4 DEF KeysAreOne
  <1>5. CASE Ask
    BY <1>2, <1>3, <1>4, <1>5 DEF Ask, AddItem, Upload, Import, FetchPage, RemoveRow
  <1>6. CASE Work
    BY <1>4, <1>6 DEF Work, PrepareRoot, BeginIndex, UrlFetched, Embedded, EmbeddingFails,
       DeleteSubtree, ReindexSubtree
  <1>7. CASE Stop
    BY <1>4, <1>7 DEF Stop, PrepareBreaks, IndexBreaks, DeleteBreaks, ReindexBreaks, IdleCrash
  <1>8. CASE PageFetched \/ ReadContainer \/ WriteContainer
    BY <1>4, <1>8 DEF PageFetched, ReadContainer, WriteContainer
  <1> QED
    BY <1>5, <1>6, <1>7, <1>8 DEF Next

LEMMA AlwaysKeysAreOne ==
  ASSUME MaxRoots = 1
  PROVE  Spec => []KeysAreOne
  <1>1. Init => KeysAreOne
    BY DEF Init, KeysAreOne
  <1>2. Sound /\ KeysAreOne /\ [Next]_vars => KeysAreOne'
    <2>1. UNCHANGED vars /\ KeysAreOne => KeysAreOne'
      BY DEF vars, KeysAreOne
    <2> QED
      BY <2>1, NextKeysAreOne
  <1> QED
    BY <1>1, <1>2, AlwaysSound, PTL DEF Spec

LEMMA EnqueuedIs ==
  ASSUME Sound, NEW type \in {"reindex", "delete"}, NEW R \in SUBSET Items, EnqueueOnce(type, R)
  PROVE  /\ Queued(jobs) \subseteq Queued(jobs')
         /\ \A j \in Queued(jobs') : j \in Queued(jobs) \/ j = [type |-> type, roots |-> R]
         /\ <<type, R>> \notin keys => [type |-> type, roots |-> R] \in Queued(jobs')
         /\ keys' = keys \cup {<<type, R>>}
  <1> DEFINE job == [type |-> type, roots |-> R]
  <1>1. jobs \in Seq(Job) /\ job \in Job
    BY SoundIsTyped DEF TypeOK, Job
  <1>2. /\ keys' = keys \cup {<<type, R>>}
        /\ jobs' = IF <<type, R>> \in keys THEN jobs ELSE Append(jobs, job)
    BY DEF EnqueueOnce
  <1> HIDE DEF job
  <1>3. Queued(Append(jobs, job)) = Queued(jobs) \cup {job}
    BY <1>1, QueuedIs
  <1>4. /\ Queued(jobs) \subseteq Queued(jobs')
        /\ \A j \in Queued(jobs') : j \in Queued(jobs) \/ j = job
        /\ <<type, R>> \notin keys => job \in Queued(jobs')
    BY <1>2, <1>3
  <1> QED
    BY <1>2, <1>4 DEF job

\* Nobody else touches an item that is put there.
LEMMA AddsFollowed ==
  ASSUME Sound, KeysAreOne, Followed, Next, Adds
  PROVE  Followed'
  <1>1. PICK i \in Items, type \in {"index", "prepare"}, s \in Active : NewItem(i, type, s)
    BY NewItemIs
  <1>2. /\ status[i] = "absent" /\ item[i] = NoRow
        /\ \A k \in Items : k # i => /\ item'[k] = item[k]
                                     /\ status'[k] = "absent" <=> status[k] = "absent"
                                     /\ status'[k] = "deleting" <=> status[k] = "deleting"
                                     /\ status'[k] = "preparing" <=> status[k] = "preparing"
                                     /\ item[k].kind \in Leaves => status'[k] = status[k]
    BY <1>1, NewItemKeeps DEF NewItem
  <1>3. /\ status'[i] = s
        /\ jobs' = Append(jobs, NewJob(type, i)) /\ keys' = keys
        /\ item'[i].kind \in Leaves => type = "index"
        /\ status'[i] = "preparing" => type = "prepare"
        /\ NewJob(type, i).type # "delete"
    BY <1>1 DEF NewItem, RootKinds, Leaves, NewJob
  <1>4. Queued(jobs') = Queued(jobs) \cup {NewJob(type, i)}
    <2>1. jobs \in Seq(Job) /\ NewJob(type, i) \in Job
      BY SoundIsTyped DEF TypeOK, NewJob, Job
    <2> QED
      BY <1>3, <2>1, QueuedIs
  <1>5. ASSUME NEW k \in Items, NEW t, Needs(k, t)'
        PROVE  \/ NewJob(t, k) \in Queued(jobs')
               \/ Needs(k, t)
    <2>1. CASE k = i
      BY <1>3, <1>4, <1>5, <2>1 DEF Needs, Needing
    <2>2. CASE k # i
      BY <1>2, <1>5, <2>2 DEF Needs, Needing
    <2> QED
      BY <2>1, <2>2
  <1>6. ASSUME NEW k \in Items, Condemned(k)'
        PROVE  Condemned(k)
    <2>1. CASE k = i
      <3>1. <<"delete", {i}>> \notin keys
        BY <1>2 DEF KeysAreOne
      <3> QED
        BY <1>3, <1>6, <2>1, <3>1 DEF Condemned, Active
    <2>2. CASE k # i
      BY <1>2, <1>3, <1>6, <2>2 DEF Condemned, Here, Present
    <2> QED
      BY <2>1, <2>2
  <1>7. \A k \in Items : Here(k)' /\ Doomed(k) => Doomed(k)'
    <2>1. \A k \in Items : Present(status, k) => Present(status', k)
      BY <1>2 DEF Present
    <2> QED
      BY <1>4, <2>1, NothingGone
  <1> QED
    BY <1>3, <1>4, <1>5, <1>6, <1>7, FollowedStays DEF Follows

\* A deletion marks what a delete job will reach: the new one, or, if the key
\* was used before, one that is still in the queue.
LEMMA RequestDeleteFollowed ==
  ASSUME MaxRoots = 1, Sound, Followed, Next,
         NEW R \in SUBSET Items, Cardinality(R) <= MaxRoots, RequestDelete(R)
  PROVE  Followed'
  <1>1. PICK r \in Items : /\ R = {r} /\ Here(r) /\ item[r] # NoRow
                           /\ status' = MarkedDeleting(item, status, {r})
                           /\ EnqueueOnce("delete", {r})
                           /\ UNCHANGED item /\ Spend("delete")
    BY DeletesOne
  <1> DEFINE job == [type |-> "delete", roots |-> {r}]
             marked == Subtree(item, status, {r})
  <1>2. /\ Queued(jobs) \subseteq Queued(jobs')
        /\ \A j \in Queued(jobs') : j \in Queued(jobs) \/ j = job
        /\ <<"delete", {r}>> \notin keys => job \in Queued(jobs')
        /\ keys' = keys \cup {<<"delete", {r}>>}
    BY <1>1, EnqueuedIs
  <1>3. \A i \in Items : status'[i] = IF i \in marked THEN "deleting" ELSE status[i]
    BY <1>1 DEF MarkedDeleting
  <1>4. /\ \A i \in marked : i \in Items /\ Present(status, i)
        /\ r \in marked
    BY <1>1, SubtreeHolds DEF Here
  <1>5. Forest(item)
    BY RowsAreForest DEF Sound
  <1>6. job.type = "delete" /\ job.roots = {r}
    OBVIOUS
  <1> HIDE DEF job
  <1>7. \A i \in Items : Present(status', i) <=> Present(status, i)
    BY <1>3, <1>4 DEF Present
  <1>8. \A i \in Items : Here(i)' /\ Doomed(i) => Doomed(i)'
    BY <1>2, <1>7, NothingGone
  <1>9. ASSUME HardlyDisturbed', spent'["remove"] = 0, NEW i \in marked
        PROVE  Doomed(i)'
    <2>1. CASE <<"delete", {r}>> \notin keys
      <3>1. Subtree(item, status, {r}) \subseteq Subtree(item', status', {r})
        <4>1. \A k \in Items : Present(status, k) => Present(status', k) /\ item'[k].group = item[k].group
          BY <1>1, <1>7
        <4> QED
          BY <1>5, <4>1, SubtreeGrows
      <3> QED
        BY <1>2, <1>6, <2>1, <3>1, DoomedIs
    <2>2. CASE <<"delete", {r}>> \in keys
      <3>1. Doomed(r)
        BY <1>1, <1>9, <2>2, SpentGrows DEF Followed, Condemned
      <3>2. PICK j \in Queued(jobs) : j.type = "delete" /\ r \in Subtree(item, status, j.roots)
        BY <3>1, DoomedIs
      <3> DEFINE Q == j.roots
      <3>3. \A k \in Items : k \in {r} /\ Present(status, k) => k \in Subtree(item, status, Q)
        BY <3>2
      <3> HIDE DEF Q
      <3>4. Subtree(item, status, {r}) \subseteq Subtree(item, status, Q)
        BY <1>5, <3>3, SubtreeWithin
      <3>5. Doomed(i)
        BY <3>2, <3>4, DoomedIs DEF Q
      <3> QED
        BY <1>4, <1>7, <1>8, <3>5 DEF Here
    <2> QED
      BY <2>1, <2>2
  <1> HIDE DEF marked
  <1>10. ASSUME NEW i \in Items, Condemned(i)'
         PROVE  Condemned(i) \/ i \in marked
    <2>1. <<"delete", {i}>> \in keys' => <<"delete", {i}>> \in keys \/ i = r
      BY <1>2
    <2> QED
      BY <1>3, <1>4, <1>7, <1>10, <2>1 DEF Condemned, Here
  <1>11. \A i \in Items : \A type : Needs(i, type)' => Needs(i, type)
    BY <1>1, <1>3 DEF Needs, Needing, Active
  <1> QED
    BY <1>2, <1>6, <1>8, <1>9, <1>10, <1>11, FollowedStays

\* The other requests on the event loop leave statuses and jobs as they are,
\* but for a reindex job.
LEMMA QuietFollowed ==
  ASSUME Sound, KeysAreOne, Followed, Next,
         \/ \E r \in Items : RequestReindex(r) \/ FetchPage(r)
         \/ PageFetched
  PROVE  Followed'
  <1>1. /\ UNCHANGED item
        /\ Queued(jobs) \subseteq Queued(jobs')
        /\ \A j \in Queued(jobs') : j.type = "delete" => j \in Queued(jobs)
        /\ keys \subseteq keys'
        /\ \A R : <<"delete", R>> \in keys' => <<"delete", R>> \in keys
    <2>1. CASE \E r \in Items : RequestReindex(r)
      <3>1. PICK r \in Items : EnqueueOnce("reindex", {r})
        BY <2>1 DEF RequestReindex
      <3> DEFINE R == {r}
                 job == [type |-> "reindex", roots |-> R]
      <3>2. R \in SUBSET Items /\ EnqueueOnce("reindex", R) /\ job.type = "reindex"
        BY <3>1
      <3> HIDE DEF R
      <3>3. /\ Queued(jobs) \subseteq Queued(jobs')
            /\ \A j \in Queued(jobs') : j \in Queued(jobs) \/ j = job
            /\ keys' = keys \cup {<<"reindex", R>>}
        BY <3>2, EnqueuedIs
      <3> HIDE DEF job
      <3>4. \A S : <<"delete", S>> \in keys' => <<"delete", S>> \in keys
        BY <3>3
      <3> QED
        BY <2>1, <3>2, <3>3, <3>4 DEF RequestReindex, rows
    <2>2. CASE (\E r \in Items : FetchPage(r)) \/ PageFetched
      BY <2>2 DEF FetchPage, PageFetched, rows, queue
    <2> QED
      BY <2>1, <2>2
  <1>2. \A i \in Items : status'[i] = status[i] \/ (Here(i) /\ status'[i] = "completed")
    <2>1. CASE PageFetched /\ Here(fetching) /\ status' = [status EXCEPT ![fetching] = "completed"]
      <3>1. status \in [Items -> Statuses]
        BY DEF Sound, RowsInOrder
      <3> QED
        BY <2>1, <3>1
    <2>2. CASE status' = status
      BY <2>2
    <2> QED
      BY <2>1, <2>2 DEF RequestReindex, FetchPage, PageFetched, rows
  <1>3. \A i \in Items : Present(status', i) <=> Present(status, i)
    BY <1>2 DEF Here, Present
  <1>4. \A i \in Items : \A type : Needs(i, type)' => Needs(i, type)
    BY <1>1, <1>2 DEF Needs, Needing, Active
  <1>5. \A i \in Items : Condemned(i)' => Condemned(i)
    BY <1>1, <1>2, <1>3 DEF Condemned, Here
  <1>6. \A i \in Items : Here(i)' /\ Doomed(i) => Doomed(i)'
    BY <1>1, <1>3, NothingGone
  <1> QED
    BY <1>1, <1>4, <1>5, <1>6, FollowedStays

\* A route in a thread removes a row, or writes the status of a container.
LEMMA ThreadsFollowed ==
  ASSUME Sound, Followed, Next,
         \/ \E i \in Items : RemoveRow(i)
         \/ ReadContainer \/ WriteContainer
  PROVE  Followed'
  <1>1. UNCHANGED <<item, jobs, keys>>
    BY DEF RemoveRow, ReadContainer, WriteContainer, rows, queue
  <1>2. spent'["remove"] # 0
    <2>1. CASE \E i \in Items : RemoveRow(i)
      BY <2>1, SpendCounts DEF RemoveRow, Sound, Requests
    <2>2. CASE ReadContainer \/ WriteContainer
      BY <2>2 DEF ReadContainer, WriteContainer, Sound, ThreadsAreSound, Idle
    <2> QED
      BY <2>1, <2>2
  <1>3. \A i \in Items : \A type : Needs(i, type)' => Needs(i, type)
    <2>1. CASE \E i \in Items : RemoveRow(i)
      <3>1. PICK i \in Items : status' = [status EXCEPT ![i] = "absent"]
        BY <2>1 DEF RemoveRow
      <3>2. status \in [Items -> Statuses]
        BY DEF Sound, RowsInOrder
      <3>3. \A k \in Items : status'[k] = IF k = i THEN "absent" ELSE status[k]
        BY <3>1, <3>2
      <3> QED
        BY <1>1, <3>3 DEF Needs, Needing, Active
    <2>2. CASE ReadContainer
      BY <1>1, <2>2 DEF ReadContainer, rows, Needs, Needing
    <2>3. CASE WriteContainer
      <3>1. /\ thread.at \in Items /\ item[thread.at].kind \notin Leaves
            /\ thread.verdict # "preparing"
        BY <2>3 DEF WriteContainer, Sound, ThreadsAreSound, Leaves
      <3>2. \A k \in Items : status'[k] = status[k] \/ (k = thread.at /\ status'[k] = thread.verdict)
        BY <2>3 DEF WriteContainer
      <3> QED
        BY <1>1, <3>1, <3>2 DEF Needs, Needing
    <2> QED
      BY <2>1, <2>2, <2>3
  <1> QED
    BY <1>1, <1>2, <1>3, FollowedStays

\* A process end is more than a hardly disturbed behaviour has.
LEMMA CrashFollowed ==
  ASSUME Sound, Next, Spend("crash")
  PROVE  Followed'
  <1>1. spent'["crash"] # 0
    BY SpendCounts DEF Sound, Requests
  <1> QED
    BY <1>1 DEF Followed, HardlyDisturbed, Undisturbed

\* Nothing is newly deleted, and nothing is newly on its way but for what the
\* job will bring on.
Steady(it, st, st2, job) ==
  \A k \in Items :
    /\ st2[k] = "absent" <=> st[k] = "absent"
    /\ st2[k] = "deleting" => st[k] = "deleting"
    /\ \A type : Needing(it, st2, k, type) => Needing(it, st, k, type) \/ NewJob(type, k) = job

LEMMA SameSteady == \A it, st, job : Steady(it, st, st, job)
  BY DEF Steady

LEMMA SteadyTwice ==
  ASSUME NEW it, NEW st, NEW st2, NEW st3, NEW job,
         Steady(it, st, st2, job), Steady(it, st2, st3, job)
  PROVE  Steady(it, st, st3, job)
  BY DEF Steady

LEMMA RetoldSteady ==
  ASSUME NEW it, NEW st, NEW st2, Retold(it, st, st2)
  PROVE  \A job : Steady(it, st, st2, job)
  <1>1. "directory" \notin Leaves
    BY DEF Leaves
  <1> QED
    BY <1>1 DEF Retold, Steady, Needing

LEMMA WrittenSteady ==
  ASSUME NEW it, NEW st, NEW i \in Items, NEW new \in Statuses \ {"absent", "deleting"}, NEW job,
         RowsInOrder(it, st),
         \A type : /\ type = "index" => it[i].kind \in Leaves /\ new \in Active
                   /\ type = "prepare" => new = "preparing"
                   /\ type \in {"index", "prepare"}
                   => job = NewJob(type, i)
  PROVE  Steady(it, st, Written(it, st, i, new), job)
  <1> DEFINE st1 == [st EXCEPT ![i] = new]
             st2 == Written(it, st, i, new)
  <1>1. Forest(it) /\ st \in [Items -> Statuses]
    BY RowsAreForest DEF RowsInOrder
  <1>2. st2 = st \/ (Present(st, i) /\ Retold(it, st1, st2))
    BY <1>1, WrittenRetells
  <1> HIDE DEF st2
  <1>3. CASE st2 = st
    BY <1>3, SameSteady DEF st2
  <1>4. CASE Present(st, i) /\ Retold(it, st1, st2)
    <2>1. Steady(it, st1, st2, job)
      BY <1>4, RetoldSteady
    <2>2. Steady(it, st, st1, job)
      <3>1. \A k \in Items : st1[k] = IF k = i THEN new ELSE st[k]
        BY <1>1
      <3>2. st[i] # "absent" /\ new \notin {"absent", "deleting"}
        BY <1>4 DEF Present
      <3>3. ASSUME NEW type, Needing(it, st1, i, type)
            PROVE  job = NewJob(type, i)
        BY <3>1, <3>3 DEF Needing
      <3> HIDE DEF st1
      <3> QED
        BY <3>1, <3>2, <3>3 DEF Steady, Needing
    <2> QED
      BY <2>1, <2>2, SteadyTwice DEF st2
  <1> QED
    BY <1>2, <1>3, <1>4

\* What has failed or is completed needs nothing.
LEMMA WrittenSettles ==
  ASSUME NEW it, NEW st, NEW i \in Items, NEW new \in {"failed", "completed"},
         RowsInOrder(it, st)
  PROVE  /\ \A type : ~Needing(it, Written(it, st, i, new), i, type)
         /\ \A job : Steady(it, st, Written(it, st, i, new), job)
  <1>1. new \in Statuses \ {"absent", "deleting"} /\ new \notin Active
    BY DEF Statuses, Active
  <1>2. ASSUME NEW job
        PROVE  Steady(it, st, Written(it, st, i, new), job)
    <2>1. new # "preparing"
      OBVIOUS
    <2> QED
      BY <1>1, <2>1, WrittenSteady
  <1> DEFINE st1 == [st EXCEPT ![i] = new]
             st2 == Written(it, st, i, new)
  <1>3. Forest(it) /\ st \in [Items -> Statuses]
    BY RowsAreForest DEF RowsInOrder
  <1>4. \/ (~Present(st, i) \/ st[i] = "deleting") /\ st2 = st
        \/ Retold(it, st1, st2)
    <2>1. \/ /\ ~Present(st, i) \/ (st[i] = "deleting" /\ new # "deleting")
             /\ Written(it, st, i, new) = st
          \/ Retold(it, [st EXCEPT ![i] = new], Written(it, st, i, new))
      BY <1>1, <1>3, WrittenRetells
    <2> QED
      BY <2>1
  <1>5. st1[i] = new
    BY <1>3
  <1> HIDE DEF st1, st2
  <1>6. st2[i] \notin Active \/ (it[i].kind \notin Leaves /\ st2[i] # "preparing")
    BY <1>1, <1>4, <1>5 DEF Retold, Present, Active, Items, NoItem, Leaves
  <1>7. \A type : ~Needing(it, st2, i, type)
    BY <1>6 DEF Needing, Active
  <1> QED
    BY <1>2, <1>7 DEF st2

\* An attempt of the job leaves it where it is, or what it was for is settled.
Attempted(it, st, q, i) ==
  /\ Steady(it, st, status', Head(q))
  /\ \/ jobs' = q
     \/ jobs' = Tail(q) /\ \A type : ~Needing(it, status', i, type)

LEMMA RaisesAttempted ==
  ASSUME NEW it, NEW st, NEW q \in Seq(SoundJobs(it)), q # <<>>,
         NEW i \in Items, Head(q).roots = {i}, Head(q).type \in {"index", "prepare"},
         RowsInOrder(it, st), Raises(it, st, q)
  PROVE  Attempted(it, st, q, i)
  <1>1. CASE status' = st /\ jobs' = q
    BY <1>1, SameSteady DEF Attempted
  <1>2. CASE status' = OnSettled(it, st, Head(q)) /\ jobs' = Tail(q)
    <2>1. OnSettled(it, st, Head(q)) = Written(it, st, i, "failed")
      BY DEF OnSettled
    <2> QED
      BY <1>2, <2>1, WrittenSettles DEF Attempted
  <1> QED
    BY <1>1, <1>2 DEF Raises, Returns

LEMMA BreaksAttempted ==
  ASSUME NEW it, NEW st, NEW q \in Seq(SoundJobs(it)), q # <<>>,
         NEW i \in Items, Head(q).roots = {i}, Head(q).type \in {"index", "prepare"},
         RowsInOrder(it, st), Breaks(it, st, q)
  PROVE  Spend("crash") \/ Attempted(it, st, q, i)
  BY RaisesAttempted DEF Breaks, Restarts

\* What is left to show of a step of an index or a prepare job.
LEMMA WorkFollowed ==
  ASSUME Sound, KeysAreOne, Followed, Next,
         jobs # <<>>, Head(jobs).type \in {"index", "prepare"}, keys' = keys,
         NEW i \in Items, Head(jobs).roots = {i},
         NEW st, NEW q \in Seq(SoundJobs(item')), q # <<>>, Head(q) = Head(jobs),
         Attempted(item', st, q, i),
         Queued(jobs) \subseteq Queued(q),
         \A j \in Queued(q) : j.type = "delete" => j \in Queued(jobs),
         \A k \in Items : item[k] # NoRow =>
           /\ st[k] = "absent" <=> status[k] = "absent"
           /\ st[k] = "deleting" => status[k] = "deleting"
           /\ \A type : Needing(item', st, k, type) => Needs(k, type) \/ NewJob(type, k) = Head(jobs),
         \A k \in Items : item[k] = NoRow =>
           /\ st[k] # "deleting"
           /\ \A type : Needing(item', st, k, type) => NewJob(type, k) \in Queued(q)
  PROVE  Followed'
  <1>2. /\ Queued(q) = {Head(jobs)} \cup Queued(Tail(q))
    BY QueuedIs
  <1>3. /\ Queued(jobs') \subseteq Queued(q)
        /\ \A j \in Queued(q) : j # Head(jobs) => j \in Queued(jobs')
        /\ Head(jobs) \in Queued(jobs') \/ \A type : ~Needs(i, type)'
    BY <1>2 DEF Attempted, Needs
  <1>4. \A k \in Items : \A type : NewJob(type, k) = Head(jobs) => k = i
    BY DEF NewJob
  <1>5. ASSUME NEW k \in Items, NEW type, Needs(k, type)'
        PROVE  \/ NewJob(type, k) \in Queued(jobs')
               \/ /\ Needs(k, type)
                  /\ NewJob(type, k) \in Queued(jobs) => NewJob(type, k) \in Queued(jobs')
    <2>1. Needing(item', st, k, type) \/ NewJob(type, k) = Head(jobs)
      BY <1>5 DEF Attempted, Steady, Needs
    <2>2. CASE NewJob(type, k) = Head(jobs)
      BY <1>3, <1>4, <1>5, <2>2
    <2>3. CASE NewJob(type, k) # Head(jobs) /\ Needing(item', st, k, type)
      BY <1>3, <2>3
    <2> QED
      BY <2>1, <2>2, <2>3
  <1>6. \A k \in Items : item[k] # NoRow =>
          /\ status'[k] = "absent" <=> status[k] = "absent"
          /\ status'[k] = "deleting" => status[k] = "deleting"
    BY DEF Attempted, Steady
  <1>7. \A k \in Items : Present(status, k) => item[k] # NoRow
    BY DEF Sound, RowsInOrder, Present
  <1>8. ASSUME NEW k \in Items, Condemned(k)'
        PROVE  Condemned(k)
    <2>1. CASE item[k] = NoRow
      <3>1. status'[k] # "deleting"
        BY <2>1 DEF Attempted, Steady
      <3>2. <<"delete", {k}>> \notin keys
        <4>1. <<"delete", {k}>> \in keys => \E m \in Items : {k} = {m} /\ item[m] # NoRow
          BY DEF KeysAreOne
        <4> QED
          BY <2>1, <4>1
      <3> QED
        BY <1>8, <3>1, <3>2 DEF Condemned
    <2>2. CASE item[k] # NoRow
      BY <1>6, <1>8, <2>2 DEF Condemned, Here, Present
    <2> QED
      BY <2>1, <2>2
  <1>9. \A k \in Items : Here(k)' /\ Doomed(k) => Doomed(k)'
    <2>1. \A k \in Items : Present(status, k) => Present(status', k)
      BY <1>6, <1>7 DEF Present
    <2>2. \A j \in Queued(jobs) : j.type = "delete" => j \in Queued(jobs')
      BY <1>3
    <2> QED
      BY <2>1, <2>2, NothingGone
  <1>10. \A j \in Queued(jobs') : j.type = "delete" => j \in Queued(jobs)
    BY <1>3
  <1> QED
    BY <1>5, <1>8, <1>9, <1>10, FollowedStays DEF Follows

\* Indexing ends an attempt with the item settled or the job still there.
LEMMA IndexingFollowed ==
  ASSUME Sound, KeysAreOne, Followed, Next,
         BeginIndex \/ UrlFetched \/ Embedded \/ EmbeddingFails \/ IndexBreaks
  PROVE  Followed'
  <1>1. jobs # <<>> /\ Head(jobs).type = "index" /\ UNCHANGED <<item, keys>>
    BY WaitsForIndex DEF BeginIndex, Begins, UrlFetched, Embedded, EmbeddingFails, IndexBreaks
  <1>2. /\ jobs \in Seq(SoundJobs(item)) /\ RowsInOrder(item, status)
        /\ Root \in Items /\ Head(jobs).roots = {Root} /\ item[Root].kind \in Leaves
    BY <1>1, HeadIsSound, RootIsThere DEF Sound, RootKinds
  <1>3. PICK i \in Items : i = Root
    BY <1>2
  <1> DEFINE reading == Written(item, status, i, "reading")
  <1>4. \/ Raises(item, status, jobs)
        \/ status[i] = "deleting" /\ Returns(status, Tail(jobs))
        \/ Suspends(reading, "fetch") \/ Suspends(reading, "embed")
        \/ Raises(item, reading, jobs)
        \/ Returns(Written(item, reading, i, "failed"), Tail(jobs))
        \/ Suspends(status, "embed")
        \/ Returns(Written(item, status, i, "failed"), Tail(jobs))
        \/ Returns(Written(item, status, i, "completed"), Tail(jobs))
        \/ Restarts(status)
        \/ Breaks(item, status, jobs)
    BY <1>3 DEF BeginIndex, UrlFetched, Embedded, EmbeddingFails, IndexBreaks
  <1>5. RowsInOrder(item, reading) /\ Steady(item, status, reading, Head(jobs))
    <2>1. "reading" \in Statuses \ {"absent", "deleting"} /\ "reading" # "preparing"
      BY DEF Statuses, Active
    <2>2. Head(jobs) = NewJob("index", i)
      <3>1. Head(jobs) \in Job
        BY <1>1, <1>2 DEF SoundJobs
      <3> QED
        BY <1>1, <1>2, <1>3, <3>1 DEF NewJob, Job
    <2> QED
      BY <1>2, <2>1, <2>2, WrittenInOrder, WrittenSteady
  <1> HIDE DEF reading
  <1>6. \A st \in {status, reading} :
          RowsInOrder(item, st) /\ Steady(item, status, st, Head(jobs))
    BY <1>2, <1>5, SameSteady
  <1>7. Spend("crash") \/ \E st \in {status, reading} : Attempted(item, st, jobs, i)
    <2>1. CASE \E st \in {status, reading} : Raises(item, st, jobs)
      BY <1>1, <1>2, <1>3, <1>6, <2>1, RaisesAttempted
    <2>2. CASE Breaks(item, status, jobs)
      BY <1>1, <1>2, <1>3, <2>2, BreaksAttempted
    <2>3. CASE Restarts(status)
      BY <2>3 DEF Restarts
    <2>4. CASE \E st \in {status, reading} : status' = st /\ jobs' = jobs
      BY <2>4, SameSteady DEF Attempted
    <2>5. CASE status[i] = "deleting" /\ Returns(status, Tail(jobs))
      BY <2>5, SameSteady DEF Attempted, Returns, Needing, Active
    <2>6. CASE \E st \in {status, reading}, new \in {"failed", "completed"} :
                 Returns(Written(item, st, i, new), Tail(jobs))
      <3>1. PICK st \in {status, reading}, new \in {"failed", "completed"} :
              Returns(Written(item, st, i, new), Tail(jobs))
        BY <2>6
      <3>2. /\ \A type : ~Needing(item, Written(item, st, i, new), i, type)
            /\ Steady(item, st, Written(item, st, i, new), Head(jobs))
        BY <1>6, WrittenSettles
      <3>3. status' = Written(item, st, i, new) /\ jobs' = Tail(jobs)
        BY <3>1 DEF Returns
      <3> QED
        BY <3>2, <3>3 DEF Attempted
    <2> QED
      BY <1>4, <2>1, <2>2, <2>3, <2>4, <2>5, <2>6 DEF Suspends
  <1>8. ASSUME NEW st \in {status, reading}, Attempted(item, st, jobs, i)
        PROVE  Followed'
    <2>1. \A k \in Items :
            /\ st[k] = "absent" <=> status[k] = "absent"
            /\ st[k] = "deleting" => status[k] = "deleting"
            /\ \A type : Needing(item, st, k, type) => Needs(k, type) \/ NewJob(type, k) = Head(jobs)
      BY <1>6 DEF Steady, Needs
    <2>2. \A k \in Items : item[k] = NoRow =>
            /\ st[k] # "deleting"
            /\ \A type : ~Needing(item, st, k, type)
      BY <1>6 DEF RowsInOrder, Needing, Active
    <2>3. item' = item /\ Head(jobs).type \in {"index", "prepare"} /\ Head(jobs).roots = {i}
      BY <1>1, <1>2, <1>3
    <2> QED
      BY <1>1, <1>2, <1>8, <2>1, <2>2, <2>3, WorkFollowed
  <1> QED
    BY <1>7, <1>8, CrashFollowed

\* Preparation gives each new child its job, and ends with the directory
\* completed or failed or the job still there.
LEMMA PreparationFollowed ==
  ASSUME Sound, KeysAreOne, Followed, Next, PrepareRoot \/ PrepareBreaks
  PROVE  Followed'
  <1>1. jobs # <<>> /\ Head(jobs).type = "prepare" /\ UNCHANGED keys
    BY DEF PrepareRoot, PrepareBreaks, Begins
  <1>2. /\ jobs \in Seq(SoundJobs(item)) /\ RowsInOrder(item, status)
        /\ Root \in Items /\ Head(jobs).roots = {Root} /\ item[Root].kind = "directory"
    BY <1>1, HeadIsSound, RootIsThere DEF Sound, RootKinds
  <1>3. PICK d \in Items : d = Root
    BY <1>2
  <1> DEFINE all == Cardinality(OnDisk(item[d].tree))
             preparing == Preparing(d)
  <1>4. all \in Nat /\ all \in 0 .. all /\ Cardinality(item[d].tree) \in Nat
    BY OnDiskIsFew
  <1>5. RowsInOrder(item, preparing) /\ Steady(item, status, preparing, Head(jobs))
    <2>1. "preparing" \in Statuses \ {"absent", "deleting"} /\ item[d].kind \notin Leaves
      BY <1>2, <1>3 DEF Statuses, Active, Leaves
    <2>2. Head(jobs) = NewJob("prepare", d)
      <3>1. Head(jobs) \in Job
        BY <1>1, <1>2 DEF SoundJobs
      <3> QED
        BY <1>1, <1>2, <1>3, <3>1 DEF NewJob, Job
    <2> QED
      BY <1>2, <2>1, <2>2, WrittenInOrder, WrittenSteady DEF Preparing
  <1>6. \/ /\ UNCHANGED item
           /\ \/ Raises(item, status, jobs)
              \/ status[d] = "deleting" /\ Returns(status, Tail(jobs))
              \/ Raises(item, preparing, jobs)
        \/ \E n \in 0 .. all :
             /\ Room(n)
             /\ item' = WithChildren(d, n)
             /\ \/ Returns(Written(item', WithIdle(preparing, n), d, "completed"),
                           Tail(jobs) \o IndexJobs(n))
                \/ Breaks(item', WithIdle(preparing, n), jobs \o IndexJobs(n))
    <2>1. CASE PrepareRoot
      BY <1>3, <1>4, <2>1 DEF PrepareRoot
    <2>2. CASE PrepareBreaks
      <3>1. PICK n \in 0 .. all :
              /\ Room(n + Cardinality(item[d].tree))
              /\ item' = WithChildren(d, n)
              /\ Breaks(item', WithIdle(preparing, n), jobs \o IndexJobs(n))
        BY <1>3, <2>2 DEF PrepareBreaks
      <3>2. Room(n)
        <4>1. Made \in Nat
          BY <1>2, MadeIsLast
        <4> HIDE DEF all
        <4> QED
          BY <1>4, <3>1, <4>1, MaxItemsAssumption DEF Room
      <3> QED
        BY <3>1, <3>2
    <2> QED
      BY <2>1, <2>2
  <1> HIDE DEF preparing
  <1>7. CASE /\ UNCHANGED item
             /\ \/ Raises(item, status, jobs)
                \/ status[d] = "deleting" /\ Returns(status, Tail(jobs))
                \/ Raises(item, preparing, jobs)
    <2>1. \E st \in {status, preparing} : Attempted(item, st, jobs, d)
      <3>1. CASE \E st \in {status, preparing} : Raises(item, st, jobs)
        BY <1>1, <1>2, <1>3, <1>5, <3>1, RaisesAttempted
      <3>2. CASE status[d] = "deleting" /\ Returns(status, Tail(jobs))
        BY <3>2, SameSteady DEF Attempted, Returns, Needing, Active
      <3> QED
        BY <1>7, <3>1, <3>2
    <2>2. ASSUME NEW st \in {status, preparing}, Attempted(item, st, jobs, d)
          PROVE  Followed'
      <3>1. \A k \in Items :
              /\ st[k] = "absent" <=> status[k] = "absent"
              /\ st[k] = "deleting" => status[k] = "deleting"
              /\ \A type : Needing(item, st, k, type) => Needs(k, type) \/ NewJob(type, k) = Head(jobs)
        BY <1>5, SameSteady DEF Steady, Needs
      <3>2. \A k \in Items : item[k] = NoRow =>
              /\ st[k] # "deleting"
              /\ \A type : ~Needing(item, st, k, type)
        BY <1>2, <1>5 DEF RowsInOrder, Needing, Active
      <3>3. item' = item /\ Head(jobs).type \in {"index", "prepare"} /\ Head(jobs).roots = {d}
        BY <1>1, <1>2, <1>3, <1>7
      <3> QED
        BY <1>1, <1>2, <2>2, <3>1, <3>2, <3>3, WorkFollowed
    <2> QED
      BY <2>1, <2>2
  <1>8. ASSUME NEW n \in 0 .. all, Room(n), item' = WithChildren(d, n),
               \/ Returns(Written(item', WithIdle(preparing, n), d, "completed"),
                          Tail(jobs) \o IndexJobs(n))
               \/ Breaks(item', WithIdle(preparing, n), jobs \o IndexJobs(n))
        PROVE  Followed'
    <2> DEFINE st == WithIdle(preparing, n)
               q == jobs \o IndexJobs(n)
    <2>1. item[d].kind = "directory" /\ n \in 0 .. Cardinality(OnDisk(item[d].tree))
      BY <1>2, <1>3
    <2>2. /\ RowsInOrder(item', st)
          /\ \A i \in Items : item[i] # NoRow => item'[i] = item[i]
          /\ \A i \in Items : item[i] # NoRow => st[i] = preparing[i]
          /\ \A i \in Items : item[i] = NoRow /\ item'[i] # NoRow =>
               /\ item'[i].kind = "file"
               /\ st[i] = "idle"
               /\ NewJob("index", i) \in Queued(IndexJobs(n))
          /\ IndexJobs(n) \in Seq(SoundJobs(item'))
          /\ \A j \in Queued(IndexJobs(n)) : j.type = "index"
      BY <1>5, <1>8, <2>1, ChildrenInOrder
    <2>3. jobs \in Seq(SoundJobs(item'))
      BY <1>2, <2>2, SoundJobsGrow
    <2>4. /\ q \in Seq(SoundJobs(item')) /\ q # <<>>
          /\ Queued(q) = Queued(jobs) \cup Queued(IndexJobs(n))
      BY <1>1, <2>2, <2>3, ConcatEqualIffEmpty, QueuedIs
    <2>5. Head(q) = Head(jobs) /\ Tail(q) = Tail(jobs) \o IndexJobs(n)
      <3> DEFINE more == IndexJobs(n)
      <3>1. jobs \in Seq(SoundJobs(item')) /\ more \in Seq(SoundJobs(item')) /\ jobs # <<>>
        BY <1>1, <2>2, <2>3
      <3> HIDE DEF more
      <3>2. Head(jobs \o more) = Head(jobs) /\ Tail(jobs \o more) = Tail(jobs) \o more
        BY <3>1
      <3> QED
        BY <3>2 DEF more
    <2> HIDE DEF st, q
    <2>6. Spend("crash") \/ Attempted(item', st, q, d)
      <3>1. CASE Returns(Written(item', st, d, "completed"), Tail(q))
        <4>1. /\ \A type : ~Needing(item', Written(item', st, d, "completed"), d, type)
              /\ Steady(item', st, Written(item', st, d, "completed"), Head(q))
          BY <2>2, WrittenSettles
        <4>2. status' = Written(item', st, d, "completed") /\ jobs' = Tail(q)
          BY <3>1 DEF Returns
        <4> QED
          BY <4>1, <4>2 DEF Attempted
      <3>2. CASE Breaks(item', st, q)
        <4>1. Head(q).roots = {d} /\ Head(q).type \in {"index", "prepare"}
          BY <1>1, <1>2, <1>3, <2>5
        <4> QED
          BY <2>2, <2>4, <3>2, <4>1, BreaksAttempted
      <3> QED
        BY <1>8, <2>5, <3>1, <3>2 DEF st, q
    <2>7. \A k \in Items : item[k] # NoRow =>
            /\ st[k] = "absent" <=> status[k] = "absent"
            /\ st[k] = "deleting" => status[k] = "deleting"
            /\ \A type : Needing(item', st, k, type) => Needs(k, type) \/ NewJob(type, k) = Head(jobs)
      BY <1>5, <2>2 DEF Steady, Needs, Needing
    <2>8. ASSUME NEW k \in Items, item[k] = NoRow
          PROVE  /\ st[k] # "deleting"
                 /\ \A type : Needing(item', st, k, type) => NewJob(type, k) \in Queued(q)
      <3>1. CASE item'[k] = NoRow
        BY <2>2, <3>1 DEF RowsInOrder, Needing, Active
      <3>2. CASE item'[k] # NoRow
        BY <2>2, <2>4, <2>8, <3>2 DEF Needing
      <3> QED
        BY <3>1, <3>2
    <2>9. /\ Queued(jobs) \subseteq Queued(q)
          /\ \A j \in Queued(q) : j.type = "delete" => j \in Queued(jobs)
      BY <2>2, <2>4
    <2>10. Head(jobs).type \in {"index", "prepare"} /\ Head(jobs).roots = {d}
      BY <1>1, <1>2, <1>3
    <2>11. CASE Attempted(item', st, q, d)
      BY <1>1, <2>4, <2>5, <2>7, <2>8, <2>9, <2>10, <2>11, WorkFollowed
    <2> QED
      BY <2>6, <2>11, CrashFollowed
  <1> QED
    BY <1>6, <1>7, <1>8

\* A delete job cancels jobs of what it deletes: delete jobs that reach less
\* than itself, and the jobs of what will be gone.
LEMMA CancelledIs ==
  ASSUME Sound, KeysAreOne, Followed, HardlyDisturbed,
         jobs # <<>>, Head(jobs).type = "delete",
         NEW doomed, doomed = Subtree(item, status, Head(jobs).roots)
  PROVE  /\ Uncancelled(Tail(jobs), doomed) \in Seq(SoundJobs(item))
         /\ Queued(Uncancelled(Tail(jobs), doomed)) \subseteq Queued(jobs)
         /\ \A j \in Queued(jobs) : j.type = "delete" =>
              \/ j \in Queued(Uncancelled(Tail(jobs), doomed))
              \/ Subtree(item, status, j.roots) \subseteq doomed
         /\ \A k \in Items \ doomed, type \in {"index", "prepare"} :
              NewJob(type, k) \in Queued(jobs) =>
                NewJob(type, k) \in Queued(Uncancelled(Tail(jobs), doomed))
  <1>1. /\ Tail(jobs) \in Seq(SoundJobs(item))
        /\ Queued(jobs) = {Head(jobs)} \cup Queued(Tail(jobs))
    BY HeadIsSound, QueuedIs
  <1>2. /\ Uncancelled(Tail(jobs), doomed) \in Seq(SoundJobs(item))
        /\ \A j : j \in Queued(Uncancelled(Tail(jobs), doomed))
                    <=> j \in Queued(Tail(jobs)) /\ j.roots \cap doomed = {}
    <2> DEFINE S == SoundJobs(item)
               q == Tail(jobs)
    <2>1. q \in Seq(S)
      BY <1>1
    <2> HIDE DEF S, q
    <2>2. /\ Uncancelled(q, doomed) \in Seq(S)
          /\ \A j : j \in Queued(Uncancelled(q, doomed))
                      <=> j \in Queued(q) /\ j.roots \cap doomed = {}
      BY <2>1, UncancelledIs
    <2> QED
      BY <2>2 DEF S, q
  <1>3. ASSUME NEW j \in Queued(jobs), j.type = "delete",
               j \notin Queued(Uncancelled(Tail(jobs), doomed))
        PROVE  Subtree(item, status, j.roots) \subseteq doomed
    <2>1. CASE j = Head(jobs)
      BY <2>1
    <2>2. CASE j.roots \cap doomed # {}
      <3>1. PICK r \in Items : j.roots = {r}
        BY <1>3 DEF Followed, KeysAreOne
      <3> DEFINE R == Head(jobs).roots
      <3>2. r \in Subtree(item, status, R)
        BY <2>2, <3>1
      <3>3. \A k \in Items : k \in {r} /\ Present(status, k) => k \in Subtree(item, status, R)
        BY <3>2
      <3>4. Forest(item)
        BY RowsAreForest DEF Sound
      <3> HIDE DEF R
      <3>5. Subtree(item, status, {r}) \subseteq Subtree(item, status, R)
        BY <3>3, <3>4, SubtreeWithin
      <3> QED
        BY <3>1, <3>5 DEF R
    <2> QED
      BY <1>1, <1>2, <1>3, <2>1, <2>2
  <1>4. ASSUME NEW k \in Items \ doomed, NEW type \in {"index", "prepare"},
               NewJob(type, k) \in Queued(jobs)
        PROVE  NewJob(type, k) \in Queued(Uncancelled(Tail(jobs), doomed))
    <2>1. NewJob(type, k).type = type /\ NewJob(type, k).roots = {k}
      BY DEF NewJob
    <2>2. NewJob(type, k) # Head(jobs) /\ NewJob(type, k).roots \cap doomed = {}
      BY <2>1
    <2> QED
      BY <1>1, <1>2, <1>4, <2>2
  <1> QED
    BY <1>1, <1>2, <1>3, <1>4

LEMMA DeletionFollowed ==
  ASSUME Sound, KeysAreOne, Followed, Next, DeleteSubtree
  PROVE  Followed'
  <1> SUFFICES ASSUME HardlyDisturbed' PROVE Followed'
    BY DEF Followed
  <1> DEFINE sub == Subtree(item, status, Head(jobs).roots)
  <1>1. /\ jobs # <<>> /\ Head(jobs).type = "delete" /\ UNCHANGED <<item, keys>>
        /\ HardlyDisturbed
    BY SpentGrows DEF DeleteSubtree, Begins
  <1>2. PICK doomed \in SUBSET Items : doomed = sub
    BY SubtreeHolds
  <1>3. PICK groups \in SetToSeqs(GroupsOf(doomed)) :
          /\ status' = Removed(item, status, doomed, groups)
          /\ jobs' = Uncancelled(Tail(jobs), doomed)
    BY <1>2 DEF DeleteSubtree, Returns
  <1>4. /\ \A j \in Queued(jobs') : j \in Queued(jobs)
        /\ \A j \in Queued(jobs) : j.type = "delete" =>
             j \in Queued(jobs') \/ Subtree(item, status, j.roots) \subseteq doomed
        /\ \A k \in Items \ doomed, type \in {"index", "prepare"} :
             NewJob(type, k) \in Queued(jobs) => NewJob(type, k) \in Queued(jobs')
    BY <1>1, <1>2, <1>3, CancelledIs
  <1> DEFINE st == [i \in Items |-> IF i \in doomed THEN "absent" ELSE status[i]]
  <1>5. Steady(item, st, status', Head(jobs))
    <2>1. groups \in Seq(Items \cup {NoItem})
      BY GroupsAreContainers
    <2>2. Forest(item) /\ status \in [Items -> Statuses]
      BY RowsAreForest DEF Sound, RowsInOrder
    <2>3. Retold(item, st, status')
      BY <1>3, <2>1, <2>2, RemovedRetells
    <2> HIDE DEF st
    <2> QED
      BY <2>3, RetoldSteady
  <1>6. \A k \in Items :
          /\ status'[k] = "absent" <=> (k \in doomed \/ status[k] = "absent")
          /\ status'[k] = "deleting" => status[k] = "deleting"
    BY <1>5 DEF Steady
  <1>7. ASSUME NEW k \in Items, NEW type, Needs(k, type)'
        PROVE  /\ Needs(k, type)
               /\ NewJob(type, k) \in Queued(jobs) => NewJob(type, k) \in Queued(jobs')
    <2>1. type \in {"index", "prepare"} /\ status'[k] # "absent"
      BY <1>7 DEF Needs, Needing, Active
    <2>2. NewJob(type, k) # Head(jobs)
      BY <1>1, <2>1 DEF NewJob
    <2>3. Needing(item, st, k, type)
      BY <1>1, <1>5, <1>7, <2>2 DEF Steady, Needs
    <2> QED
      BY <1>4, <1>6, <2>1, <2>3 DEF Needs, Needing
  <1>8. \A k \in Items : Condemned(k)' => Condemned(k)
    BY <1>1, <1>6 DEF Condemned, Here, Present
  <1>9. \A k \in Items : Here(k)' /\ Doomed(k) => Doomed(k)'
    <2>1. \A i \in Items : Present(status, i) /\ item[i].group \in doomed => i \in doomed
      BY <1>2, SubtreeHolds
    <2>2. /\ \A i \in Items : Present(status, i) /\ i \notin doomed => Present(status', i)
          /\ \A i \in Items : Present(status', i) => i \notin doomed
      BY <1>6 DEF Present
    <2> QED
      BY <1>4, <2>1, <2>2, DoomedStays
  <1> QED
    BY <1>1, <1>4, <1>7, <1>8, <1>9, FollowedStays

\* A refused statement of a delete or a reindex job costs an attempt, and there
\* is always another one.
LEMMA FaultRetries ==
  ASSUME Sound, AttemptsAreFaults, HardlyDisturbed',
         jobs # <<>>, Head(jobs).type \in {"delete", "reindex"},
         NEW it, NEW st, NEW q, Breaks(it, st, q)
  PROVE  status' = st /\ jobs' = q /\ spent'["fault"] > 0
  <1>1. /\ spent["crash"] \in Nat /\ spent["fault"] \in Nat
        /\ Spend("crash") => spent'["crash"] = spent["crash"] + 1
        /\ Spend("fault") => spent'["fault"] = spent["fault"] + 1
    BY SpendCounts DEF Sound, Requests
  <1>2. spent'["crash"] = 0 /\ spent'["fault"] < MaxTries
    BY DEF HardlyDisturbed, Undisturbed
  <1>3. Spend("fault") /\ Raises(it, st, q)
    BY <1>1, <1>2 DEF Breaks, Restarts
  <1>4. fails \in Nat /\ fails <= spent["fault"]
    BY ItemsAssumption DEF AttemptsAreFaults, Sound, QueueIsSound
  <1>5. ~(fails + 1 = MaxTries)
    BY <1>1, <1>2, <1>3, <1>4, ItemsAssumption
  <1> QED
    BY <1>1, <1>3, <1>5 DEF Raises

LEMMA DeleteBreaksFollowed ==
  ASSUME Sound, KeysAreOne, AttemptsAreFaults, Followed, Next, DeleteBreaks
  PROVE  Followed'
  <1> SUFFICES ASSUME HardlyDisturbed' PROVE Followed'
    BY DEF Followed
  <1>1. /\ jobs # <<>> /\ Head(jobs).type = "delete" /\ UNCHANGED <<item, keys>>
        /\ HardlyDisturbed
    BY SpentGrows DEF DeleteBreaks, Begins
  <1>2. PICK doomed \in SUBSET Items : doomed = Subtree(item, status, Head(jobs).roots)
    BY SubtreeHolds
  <1> DEFINE rest == Uncancelled(Tail(jobs), doomed)
             first == <<Head(jobs)>>
  <1>3. Breaks(item, status, first \o rest)
    BY <1>2 DEF DeleteBreaks
  <1>4. /\ rest \in Seq(SoundJobs(item))
        /\ Queued(rest) \subseteq Queued(jobs)
        /\ \A j \in Queued(jobs) : j.type = "delete" =>
             j \in Queued(rest) \/ Subtree(item, status, j.roots) \subseteq doomed
        /\ \A k \in Items \ doomed, type \in {"index", "prepare"} :
             NewJob(type, k) \in Queued(jobs) => NewJob(type, k) \in Queued(rest)
    BY <1>1, <1>2, CancelledIs
  <1>5. /\ first \in Seq(SoundJobs(item)) /\ Queued(first) = {Head(jobs)}
        /\ Head(jobs) \in Queued(jobs)
    <2>1. Head(jobs) \in SoundJobs(item) /\ jobs \in Seq(SoundJobs(item))
      BY <1>1, HeadIsSound
    <2>2. Head(jobs) \in Queued(jobs)
      BY <1>1, <2>1, QueuedIs
    <2>3. Queued(first) = {first[1]}
      BY DEF Queued
    <2> QED
      BY <2>1, <2>2, <2>3
  <1> HIDE DEF rest, first
  <1>6. Queued(first \o rest) = Queued(first) \cup Queued(rest)
    BY <1>4, <1>5, QueuedIs
  <1>7. status' = status /\ jobs' = first \o rest /\ spent'["fault"] > 0
    <2> DEFINE q == first \o rest
    <2>1. Breaks(item, status, q) /\ Head(jobs).type \in {"delete", "reindex"}
      BY <1>1, <1>3
    <2> HIDE DEF q
    <2>2. status' = status /\ jobs' = q /\ spent'["fault"] > 0
      BY <1>1, <2>1, FaultRetries
    <2> QED
      BY <2>2 DEF q
  <1>8. Queued(jobs') = {Head(jobs)} \cup Queued(rest)
    BY <1>5, <1>6, <1>7
  <1>9. \A k \in Items : k \in doomed => Doomed(k)'
    BY <1>1, <1>2, <1>7, <1>8, DoomedIs
  <1>10. \A k \in Items : Here(k)' /\ Doomed(k) => Doomed(k)'
    <2> SUFFICES ASSUME NEW k \in Items, Doomed(k) PROVE Doomed(k)'
      OBVIOUS
    <2>1. PICK j \in Queued(jobs) : j.type = "delete" /\ k \in Subtree(item, status, j.roots)
      BY DoomedIs
    <2>2. CASE j \in Queued(rest)
      BY <1>1, <1>7, <1>8, <2>1, <2>2, DoomedIs
    <2>3. CASE Subtree(item, status, j.roots) \subseteq doomed
      BY <1>9, <2>1, <2>3
    <2> QED
      BY <1>4, <2>1, <2>2, <2>3
  <1>11. ASSUME NEW k \in Items, NEW type, Needs(k, type)'
         PROVE  \/ Follows(k, type)'
                \/ /\ Needs(k, type)
                   /\ NewJob(type, k) \in Queued(jobs) => NewJob(type, k) \in Queued(jobs')
    <2>1. Needs(k, type) /\ type \in {"index", "prepare"}
      BY <1>1, <1>7, <1>11 DEF Needs, Needing
    <2>2. CASE k \in doomed
      BY <1>7, <1>9, <2>2 DEF Follows
    <2>3. CASE k \notin doomed
      BY <1>4, <1>8, <2>1, <2>3
    <2> QED
      BY <2>2, <2>3
  <1>12. \A k \in Items : Condemned(k)' => Condemned(k)
    BY <1>1, <1>7 DEF Condemned, Here
  <1> QED
    BY <1>1, <1>4, <1>5, <1>8, <1>10, <1>11, <1>12, FollowedStays

\* Some items are gone, the others are what they were or have been told.
Shrinks(it, st, st2, gone) ==
  \A k \in Items :
    /\ st2[k] = "absent" <=> (k \in gone \/ st[k] = "absent")
    /\ st2[k] = "deleting" => st[k] = "deleting"
    /\ \A type : Needing(it, st2, k, type) => Needing(it, st, k, type)

LEMMA PrunedShrinks ==
  ASSUME Sound, NEW r \in Items
  PROVE  \E gone : /\ Shrinks(item, status, Pruned(r), gone)
                   /\ \A i \in Items : Present(status, i) /\ item[i].group \in gone => i \in gone
                   /\ r \notin gone
  <1> DEFINE below == Subtree(item, status, {r}) \ {r}
  <1>1. CASE below = {} \/ item[r].kind # "directory"
    <2>1. Pruned(r) = status
      BY <1>1 DEF Pruned
    <2> DEFINE gone == {}
    <2>2. /\ Shrinks(item, status, Pruned(r), gone)
          /\ \A i \in Items : Present(status, i) /\ item[i].group \in gone => i \in gone
          /\ r \notin gone
      BY <2>1 DEF Shrinks
    <2> QED
      BY <2>2
  <1>2. CASE below # {} /\ item[r].kind = "directory"
    <2> DEFINE groups == <<r>>
               st == [i \in Items |-> IF i \in below THEN "absent" ELSE status[i]]
    <2>1. Pruned(r) = Removed(item, status, below, groups) /\ groups \in Seq(Items \cup {NoItem})
      BY <1>2 DEF Pruned
    <2>2. Forest(item) /\ status \in [Items -> Statuses]
      BY RowsAreForest DEF Sound, RowsInOrder
    <2>3. /\ \A i \in Items : Present(status, i) /\ item[i].group \in below => i \in below
          /\ r \notin below
      BY <2>2, BelowIsClosed
    <2> HIDE DEF below, groups
    <2>4. Retold(item, st, Pruned(r))
      BY <2>1, <2>2, RemovedRetells
    <2>5. \A k \in Items : st[k] = IF k \in below THEN "absent" ELSE status[k]
      OBVIOUS
    <2> HIDE DEF st
    <2>6. \A job : Steady(item, st, Pruned(r), job)
      BY <2>4, RetoldSteady
    <2>7. \A k \in Items :
            /\ Pruned(r)[k] = "absent" <=> st[k] = "absent"
            /\ Pruned(r)[k] = "deleting" => st[k] = "deleting"
            /\ \A type : Needing(item, Pruned(r), k, type) => Needing(item, st, k, type)
      <3> DEFINE job == NewJob("delete", r)
      <3>1. ASSUME NEW k \in Items, NEW type, Needing(item, Pruned(r), k, type)
            PROVE  NewJob(type, k) # job
        BY <3>1 DEF Needing, NewJob
      <3> HIDE DEF job
      <3>2. Steady(item, st, Pruned(r), job)
        BY <2>6
      <3> QED
        BY <3>1, <3>2 DEF Steady
    <2>8. Shrinks(item, status, Pruned(r), below)
      BY <2>5, <2>7 DEF Shrinks, Needing, Active
    <2> QED
      BY <2>3, <2>8
  <1> QED
    BY <1>1, <1>2

\* What is left to show of a step of a reindex job.
LEMMA ReindexStep ==
  ASSUME Sound, Followed, Next,
         jobs # <<>>, Head(jobs).type = "reindex", UNCHANGED <<item, keys>>,
         NEW gone, NEW st,
         Shrinks(item, status, st, gone),
         \A i \in Items : Present(status, i) /\ item[i].group \in gone => i \in gone,
         \A k \in Items :
           /\ status'[k] = "absent" <=> st[k] = "absent"
           /\ status'[k] = "deleting" => st[k] = "deleting"
           /\ \A type : Needing(item, status', k, type) =>
                Needing(item, st, k, type) \/ NewJob(type, k) \in Queued(jobs'),
         \A j \in Queued(jobs) : j # Head(jobs) => j \in Queued(jobs'),
         \A j \in Queued(jobs') : j.type = "delete" => j \in Queued(jobs)
  PROVE  Followed'
  <1>1. \A k \in Items :
          /\ status'[k] = "absent" <=> (k \in gone \/ status[k] = "absent")
          /\ status'[k] = "deleting" => status[k] = "deleting"
    BY DEF Shrinks
  <1>2. ASSUME NEW k \in Items, NEW type, Needs(k, type)'
        PROVE  \/ NewJob(type, k) \in Queued(jobs')
               \/ /\ Needs(k, type)
                  /\ NewJob(type, k) \in Queued(jobs) => NewJob(type, k) \in Queued(jobs')
    <2>1. type \in {"index", "prepare"}
      BY <1>2 DEF Needs, Needing
    <2>2. NewJob(type, k) # Head(jobs)
      BY <2>1 DEF NewJob
    <2> QED
      BY <1>2, <2>2 DEF Needs, Shrinks
  <1>3. \A k \in Items : Condemned(k)' => Condemned(k)
    BY <1>1 DEF Condemned, Here, Present
  <1>4. \A k \in Items : Here(k)' /\ Doomed(k) => Doomed(k)'
    <2>1. /\ \A i \in Items : Present(status, i) /\ i \notin gone => Present(status', i)
          /\ \A i \in Items : Present(status', i) => i \notin gone
      BY <1>1 DEF Present
    <2>2. \A j \in Queued(jobs) : j.type = "delete" => j \in Queued(jobs')
      OBVIOUS
    <2> QED
      BY <2>1, <2>2, DoomedStays
  <1> QED
    BY <1>2, <1>3, <1>4, FollowedStays DEF Follows

\* What reindexing resets gets the job it then needs.
LEMMA ReindexingFollowed ==
  ASSUME Sound, Followed, Next, ReindexSubtree
  PROVE  Followed'
  <1>1. /\ jobs # <<>> /\ Head(jobs).type = "reindex" /\ UNCHANGED <<item, keys>>
        /\ RowsInOrder(item, status)
    BY DEF ReindexSubtree, Begins, Sound
  <1>2. /\ Root \in Items /\ item[Root].kind \in Kinds /\ jobs \in Seq(SoundJobs(item))
    BY <1>1, HeadIsSound, RootIsThere DEF Sound, RootKinds
  <1>3. PICK r \in Items : r = Root
    BY <1>2
  <1> DEFINE rest == Tail(jobs)
  <1>4. /\ rest \in Seq(SoundJobs(item)) /\ Head(jobs) \in SoundJobs(item)
        /\ Queued(jobs) = {Head(jobs)} \cup Queued(rest)
    BY <1>1, <1>2, HeadIsSound, QueuedIs
  <1>5. \/ status' = status /\ jobs' = rest
        \/ /\ item[r].kind = "directory"
           /\ status' = Written(item, Pruned(r), r, "preparing")
           /\ jobs' = Append(rest, NewJob("prepare", r))
        \/ /\ item[r].kind # "directory"
           /\ status' = Written(item, status, r, "processing")
           /\ jobs' = Append(rest, NewJob("index", r))
    BY <1>3 DEF ReindexSubtree, Returns
  <1> HIDE DEF rest
  <1>6. ASSUME NEW type \in {"index", "prepare"}, item[r].kind \in RootKinds(type)
        PROVE  Queued(Append(rest, NewJob(type, r))) = Queued(rest) \cup {NewJob(type, r)}
    <2>1. NewJob(type, r) \in SoundJobs(item)
      BY <1>6 DEF SoundJobs, NewJob, Job
    <2> QED
      BY <1>4, <2>1, QueuedIs
  <1>7. {"preparing", "processing"} \subseteq Statuses \ {"absent", "deleting"}
    BY DEF Statuses, Active
  <1>8. \A type, k : NewJob(type, k).type = type
    BY DEF NewJob
  <1> DEFINE gone0 == {}
  <1>9. /\ Shrinks(item, status, status, gone0)
        /\ \A i \in Items : Present(status, i) /\ item[i].group \in gone0 => i \in gone0
    BY DEF Shrinks
  <1> HIDE DEF gone0
  <1>10. CASE status' = status /\ jobs' = rest
    <2>1. /\ \A j \in Queued(jobs) : j # Head(jobs) => j \in Queued(jobs')
          /\ \A j \in Queued(jobs') : j.type = "delete" => j \in Queued(jobs)
      BY <1>4, <1>10
    <2> QED
      BY <1>1, <1>9, <1>10, <2>1, ReindexStep
  <1>11. CASE /\ item[r].kind = "directory"
              /\ status' = Written(item, Pruned(r), r, "preparing")
              /\ jobs' = Append(rest, NewJob("prepare", r))
    <2>1. PICK gone : /\ Shrinks(item, status, Pruned(r), gone)
                      /\ \A i \in Items : Present(status, i) /\ item[i].group \in gone => i \in gone
      BY PrunedShrinks
    <2>2. Queued(jobs') = Queued(rest) \cup {NewJob("prepare", r)}
      BY <1>6, <1>11 DEF RootKinds
    <2>3. Steady(item, Pruned(r), status', NewJob("prepare", r))
      <3>1. RowsInOrder(item, Pruned(r)) /\ item[r].kind \notin Leaves
        BY <1>11, PrunedSticks DEF Leaves
      <3> QED
        BY <1>7, <1>11, <3>1, WrittenSteady
    <2>4. /\ \A j \in Queued(jobs) : j # Head(jobs) => j \in Queued(jobs')
          /\ \A j \in Queued(jobs') : j.type = "delete" => j \in Queued(jobs)
      BY <1>4, <1>8, <2>2
    <2> QED
      BY <1>1, <2>1, <2>2, <2>3, <2>4, ReindexStep DEF Steady
  <1>12. CASE /\ item[r].kind # "directory"
              /\ status' = Written(item, status, r, "processing")
              /\ jobs' = Append(rest, NewJob("index", r))
    <2>1. item[r].kind \in Leaves
      BY <1>2, <1>3, <1>12 DEF Kinds
    <2>2. Queued(jobs') = Queued(rest) \cup {NewJob("index", r)}
      BY <1>6, <1>12, <2>1 DEF RootKinds
    <2>3. Steady(item, status, status', NewJob("index", r))
      BY <1>1, <1>7, <1>12, <2>1, WrittenSteady
    <2>4. /\ \A j \in Queued(jobs) : j # Head(jobs) => j \in Queued(jobs')
          /\ \A j \in Queued(jobs') : j.type = "delete" => j \in Queued(jobs)
      BY <1>4, <1>8, <2>2
    <2> QED
      BY <1>1, <1>9, <2>2, <2>3, <2>4, ReindexStep DEF Steady
  <1> QED
    BY <1>5, <1>10, <1>11, <1>12

LEMMA ReindexBreaksFollowed ==
  ASSUME Sound, AttemptsAreFaults, Followed, Next, ReindexBreaks
  PROVE  Followed'
  <1> SUFFICES ASSUME HardlyDisturbed' PROVE Followed'
    BY DEF Followed
  <1>1. jobs # <<>> /\ Head(jobs).type = "reindex" /\ UNCHANGED <<item, keys>>
    BY DEF ReindexBreaks, Begins
  <1>2. PICK r \in Items : r = Root
    BY <1>1, RootIsThere DEF Sound
  <1>3. PICK st \in {status, Pruned(r)} : Breaks(item, st, jobs)
    BY <1>2 DEF ReindexBreaks
  <1>4. status' = st /\ jobs' = jobs
    <2>1. Head(jobs).type \in {"delete", "reindex"}
      BY <1>1
    <2> QED
      BY <1>1, <1>3, <2>1, FaultRetries
  <1>5. \E gone : /\ Shrinks(item, status, st, gone)
                  /\ \A i \in Items : Present(status, i) /\ item[i].group \in gone => i \in gone
    <2>1. CASE st = Pruned(r)
      BY <2>1, PrunedShrinks
    <2>2. CASE st = status
      <3> DEFINE gone == {}
      <3>1. /\ Shrinks(item, status, st, gone)
            /\ \A i \in Items : Present(status, i) /\ item[i].group \in gone => i \in gone
        BY <2>2 DEF Shrinks
      <3> QED
        BY <3>1
    <2> QED
      BY <2>1, <2>2
  <1> QED
    BY <1>1, <1>4, <1>5, ReindexStep

LEMMA NextFollowed ==
  ASSUME MaxRoots = 1
  PROVE  Sound /\ KeysAreOne /\ AttemptsAreFaults /\ Followed /\ [Next]_vars => Followed'
  <1> SUFFICES ASSUME Sound, KeysAreOne, AttemptsAreFaults, Followed, [Next]_vars PROVE Followed'
    OBVIOUS
  <1>1. CASE UNCHANGED vars
    BY <1>1 DEF vars, Followed, HardlyDisturbed, Undisturbed, Needs, Follows, Condemned, Here, Doomed
  <1>2. CASE Next
    <2>1. IdleCrash => Spend("crash")
      BY DEF IdleCrash
    <2> QED
      BY <1>2, <2>1, AddsFollowed, RequestDeleteFollowed, QuietFollowed, ThreadsFollowed, CrashFollowed,
         IndexingFollowed, PreparationFollowed, DeletionFollowed, DeleteBreaksFollowed,
         ReindexingFollowed, ReindexBreaksFollowed
         DEF Next, Ask, Adds, Work, Stop
  <1> QED
    BY <1>1, <1>2

LEMMA InitFollowed == Init => Followed
  BY DEF Init, Followed, Queued, Needs, Needing, Condemned, Here, Present, Active

LEMMA FollowedIs == Followed => ActiveHasJob /\ NoItemForgotten
  <1> SUFFICES ASSUME Followed PROVE ActiveHasJob /\ NoItemForgotten
    OBVIOUS
  <1>1. \A i, type : NewJob(type, i) \in Queued(jobs) <=> WaitingFor(i, type)
    BY DEF Queued, WaitingFor
  <1>2. ActiveHasJob
    BY <1>1 DEF ActiveHasJob, Followed, HardlyDisturbed, Follows, Needs, Needing
  <1>3. NoItemForgotten
    <2>1. \A i \in Items : status[i] = "deleting" => Condemned(i)
      BY DEF Condemned, Here, Present, Items, NoItem
    <2> QED
      BY <2>1 DEF NoItemForgotten, Followed, HardlyDisturbed
  <1> QED
    BY <1>2, <1>3

\* Every item on its way has the job that brings it there, or one that will
\* delete it, for any number of items and requests: among the routes that add,
\* import, reindex and delete, the retries, the cancellations by delete jobs and
\* fewer refused statements than a job has attempts none takes the job away.
\* The routes delete one item at a time.
THEOREM NothingIsStuck ==
  ASSUME MaxRoots = 1
  PROVE  Spec => []ActiveHasJob
  <1>1. Sound /\ KeysAreOne /\ AttemptsAreFaults /\ Followed /\ [Next]_vars => Followed'
    BY NextFollowed
  <1>2. Spec => []KeysAreOne
    BY AlwaysKeysAreOne
  <1> QED
    BY <1>1, <1>2, InitFollowed, AlwaysSound, AlwaysAttempts, FollowedIs, PTL DEF Spec

\* An item that is being deleted has a job that deletes it: a used idempotency
\* key stands for a job that is still in the queue as long as the item is there.
\* With several items in one deletion it does not: a job that deletes one of
\* them cancels the job for all of them.
THEOREM NothingIsForgotten ==
  ASSUME MaxRoots = 1
  PROVE  Spec => []NoItemForgotten
  <1>1. Sound /\ KeysAreOne /\ AttemptsAreFaults /\ Followed /\ [Next]_vars => Followed'
    BY NextFollowed
  <1>2. Spec => []KeysAreOne
    BY AlwaysKeysAreOne
  <1> QED
    BY <1>1, <1>2, InitFollowed, AlwaysSound, AlwaysAttempts, FollowedIs, PTL DEF Spec

-----------------------------------------------------------------------------
(* The containers agree with their children                                *)

LEMMA WritesTell ==
  ASSUME NEW it, NEW st, NEW i \in Items, NEW new \in Statuses \ {"absent"},
         RowsInOrder(it, st), AllTell(it, st)
  PROVE  AllTell(it, Written(it, st, i, new))
  <1>1. Forest(it) /\ st \in [Items -> Statuses]
    BY RowsAreForest DEF RowsInOrder
  <1> QED
    BY <1>1, WrittenStillTells

LEMMA OnSettledTells ==
  ASSUME NEW it, NEW st, NEW job \in SoundJobs(it),
         RowsInOrder(it, st), AllTell(it, st)
  PROVE  AllTell(it, OnSettled(it, st, job))
  <1> DEFINE r == CHOOSE r \in job.roots : TRUE
  <1>1. CASE OnSettled(it, st, job) = st
    BY <1>1
  <1>2. CASE job.type # "delete" /\ OnSettled(it, st, job) = Written(it, st, r, "failed")
    <2>1. r \in Items
      BY <1>2 DEF SoundJobs
    <2>2. "failed" \in Statuses \ {"absent"}
      BY DEF Statuses
    <2> HIDE DEF r
    <2> QED
      BY <1>2, <2>1, <2>2, WritesTell
  <1> QED
    BY <1>1, <1>2 DEF OnSettled

LEMMA RaisesTells ==
  ASSUME NEW it, NEW st, NEW q \in Seq(SoundJobs(it)),
         q # <<>>, RowsInOrder(it, st), AllTell(it, st), Raises(it, st, q)
  PROVE  AllTell(it, status')
  <1>1. Head(q) \in SoundJobs(it)
    OBVIOUS
  <1> QED
    BY <1>1, OnSettledTells DEF Raises, Returns

LEMMA BreaksTells ==
  ASSUME NEW it, NEW st, NEW q \in Seq(SoundJobs(it)),
         q # <<>>, RowsInOrder(it, st), AllTell(it, st), Breaks(it, st, q)
  PROVE  AllTell(it, status')
  BY RaisesTells DEF Breaks, Restarts

\* A new row is told about in its group, and says nothing of its own yet.
LEMMA NewRowTells ==
  ASSUME NEW it, NEW st, NEW it2, NEW st2, NEW i \in Items,
         RowsInOrder(it, st), AllTell(it, st),
         it[i] = NoRow,
         \A k \in Items \ {i} : it2[k] = it[k] /\ st2[k] = st[k]
  PROVE  \A d \in Items : d = i \/ d = it2[i].group \/ Tells(it2, st2, d)
  <1>1. st[i] = "absent"
    BY DEF RowsInOrder
  <1>2. ASSUME NEW d \in Items, d # i, d # it2[i].group
        PROVE  Tells(it2, st2, d)
    <2>1. Tells(it, st, d) /\ it2[d] = it[d] /\ st2[d] = st[d]
      BY <1>2 DEF AllTell
    <2>2. Children(it2, st2, d) = Children(it, st, d)
      BY <1>1, <1>2 DEF Children, Present
    <2>3. \A k \in Children(it, st, d) : st2[k] = st[k]
      BY <1>1 DEF Children, Present
    <2> QED
      BY <2>1, <2>2, <2>3 DEF Tells
  <1> QED
    BY <1>2

LEMMA AddItemTells ==
  ASSUME Sound, AllTell(item, status),
         NEW kind \in {"note", "url", "directory"}, NEW g \in Items \cup {NoItem},
         AddItem(kind, g)
  PROVE  AllTell(item', status')
  <1> DEFINE i   == Made + 1
             row == Row(kind, g, NoFile, {})
             s   == IF kind = "directory" THEN "preparing" ELSE "processing"
             st1 == [status EXCEPT ![i] = "idle"]
  <1>1. /\ Room(1)
        /\ g = NoItem \/ Here(g)
        /\ item' = [item EXCEPT ![i] = row]
        /\ status' = Written(item', st1, i, s)
        /\ RowsInOrder(item, status)
    BY DEF AddItem, Sound
  <1>2. /\ row \in Rows /\ row.kind \in Kinds /\ row.group = g
        /\ s \in Statuses \ {"absent"} /\ "idle" \in Statuses
    BY DEF Row, Rows, Kinds, Leaves, Statuses, Active
  <1> HIDE DEF row, s
  <1>3. /\ i \in Items /\ item[i] = NoRow
        /\ RowsInOrder(item', st1)
    BY <1>1, <1>2, NewRowInOrder
  <1>4. \A k \in Items \ {i} : item'[k] = item[k] /\ st1[k] = status[k]
    BY <1>1, <1>3 DEF RowsInOrder
  <1>5. Present(st1, i) /\ st1[i] # "deleting" /\ st1 \in [Items -> Statuses]
    BY <1>1, <1>2, <1>3 DEF Present, RowsInOrder, Items, NoItem
  <1> HIDE DEF i, st1
  <1>6. \A d \in Items : d = i \/ d = item'[i].group \/ Tells(item', st1, d)
    <2> DEFINE it2 == item'
    <2>1. \A k \in Items \ {i} : it2[k] = item[k] /\ st1[k] = status[k]
      BY <1>4
    <2> HIDE DEF it2
    <2>2. \A d \in Items : d = i \/ d = it2[i].group \/ Tells(it2, st1, d)
      BY <1>1, <1>3, <2>1, NewRowTells
    <2> QED
      BY <2>2 DEF it2
  <1>7. Forest(item')
    BY <1>3, RowsAreForest
  <1>8. AllTell(item', Written(item', st1, i, s))
    BY <1>2, <1>3, <1>5, <1>6, <1>7, WrittenTells
  <1> QED
    BY <1>1, <1>8

\* A file, or a folder that has not been looked into, at the top.
LEMMA RootRowTells ==
  ASSUME Sound, AllTell(item, status), NEW row, NEW s, Room(1),
         item' = [item EXCEPT ![Made + 1] = row],
         status' = [status EXCEPT ![Made + 1] = s],
         row.group = NoItem,
         row.kind # "directory" \/ s = "idle"
  PROVE  AllTell(item', status')
  <1> DEFINE i == Made + 1
  <1>1. i \in Items /\ item[i] = NoRow /\ RowsInOrder(item, status)
    <2>1. RowsInOrder(item, status)
      BY DEF Sound
    <2>2. Made \in 0 .. MaxItems /\ \A k \in Items : item[k] # NoRow <=> k <= Made
      BY <2>1, MadeIsLast
    <2> QED
      BY <2>1, <2>2, MaxItemsAssumption DEF Room, Items
  <1>2. /\ item'[i] = row /\ status'[i] = s
        /\ \A k \in Items \ {i} : item'[k] = item[k] /\ status'[k] = status[k]
    BY <1>1 DEF RowsInOrder
  <1> HIDE DEF i
  <1>3. \A d \in Items : d = i \/ d = item'[i].group \/ Tells(item', status', d)
    <2> DEFINE it2 == item'
               st2 == status'
    <2>1. \A k \in Items \ {i} : it2[k] = item[k] /\ st2[k] = status[k]
      BY <1>2
    <2> HIDE DEF it2, st2
    <2>2. \A d \in Items : d = i \/ d = it2[i].group \/ Tells(it2, st2, d)
      BY <1>1, <2>1, NewRowTells
    <2> QED
      BY <2>2 DEF it2, st2
  <1>4. Tells(item', status', i)
    BY <1>2 DEF Tells
  <1>5. item'[i].group \notin Items
    BY <1>2 DEF Items, NoItem
  <1> QED
    BY <1>3, <1>4, <1>5 DEF AllTell

LEMMA RoutesTell ==
  ASSUME Sound, AllTell(item, status), Ask, OnLoop'
  PROVE  AllTell(item', status')
  <1>1. RowsInOrder(item, status)
    BY DEF Sound
  <1>2. ASSUME NEW f \in Files, NEW where \in {"disk", "s3"}, Upload(f, where)
        PROVE  AllTell(item', status')
    <2> DEFINE row == Row("file", NoItem, f, {})
    <2>1. row.group = NoItem /\ row.kind # "directory"
      BY DEF Row
    <2> HIDE DEF row
    <2> QED
      BY <1>2, <2>1, RootRowTells DEF Upload, row
  <1>3. ASSUME NEW T \in SUBSET Files, NEW where \in [T -> {"disk", "s3"}], Import(T, where)
        PROVE  AllTell(item', status')
    <2> DEFINE row == Row("directory", NoItem, NoFile, T)
    <2>1. row.group = NoItem
      BY DEF Row
    <2>2. Room(1)
      <3>1. Cardinality(T) \in Nat
        BY FilesInOrder
      <3>2. Made \in Nat
        BY <1>1, MadeIsLast
      <3> QED
        BY <1>3, <3>1, <3>2, MaxItemsAssumption DEF Import, Room
    <2>3. item' = [item EXCEPT ![Made + 1] = row] /\ status' = [status EXCEPT ![Made + 1] = "idle"]
      BY <1>3 DEF Import
    <2> HIDE DEF row
    <2> QED
      BY <2>1, <2>2, <2>3, RootRowTells
  <1>4. ASSUME NEW R, RequestDelete(R)
        PROVE  AllTell(item', status')
    <2> DEFINE roots == Outermost(item, status, R)
    <2>1. status' = MarkedDeleting(item, status, roots) /\ UNCHANGED item
      BY <1>4 DEF RequestDelete
    <2>2. status \in [Items -> Statuses]
      BY <1>1 DEF RowsInOrder
    <2> HIDE DEF roots
    <2> QED
      BY <2>1, <2>2, MarkedTells
  <1>5. ASSUME NEW i \in Items, RequestReindex(i)
        PROVE  AllTell(item', status')
    BY <1>5 DEF RequestReindex, rows
  <1>6. ASSUME NEW i \in Items, FetchPage(i) \/ RemoveRow(i)
        PROVE  FALSE
    <2>1. "fetch" \in Requests /\ "remove" \in Requests
      BY DEF Requests
    <2>2. spent'["fetch"] = spent["fetch"] + 1 \/ spent'["remove"] = spent["remove"] + 1
      BY <1>6, <2>1, SpendCounts DEF FetchPage, RemoveRow, Sound
    <2>3. spent["fetch"] \in Nat /\ spent["remove"] \in Nat
      BY <2>1 DEF Sound
    <2> QED
      BY <2>2, <2>3 DEF OnLoop
  <1> QED
    BY <1>2, <1>3, <1>4, <1>5, <1>6, AddItemTells DEF Ask

LEMMA IndexingTells ==
  ASSUME Sound, AllTell(item, status),
         BeginIndex \/ UrlFetched \/ Embedded \/ EmbeddingFails \/ IndexBreaks
  PROVE  AllTell(item', status')
  <1> DEFINE i == Root
             reading == Written(item, status, i, "reading")
  <1>1. jobs # <<>> /\ Head(jobs).type = "index" /\ i \in Items
    <2>1. CASE BeginIndex
      <3>1. jobs # <<>> /\ Head(jobs).type = "index"
        BY <2>1 DEF BeginIndex, Begins
      <3> QED
        BY <3>1, RootIsThere DEF Sound
    <2>2. CASE stage \in {"fetch", "embed"}
      BY <2>2, WaitsForIndex
    <2> QED
      BY <2>1, <2>2 DEF UrlFetched, Embedded, EmbeddingFails, IndexBreaks
  <1>2. RowsInOrder(item, status) /\ jobs \in Seq(SoundJobs(item))
    BY <1>1, HeadIsSound DEF Sound
  <1>3. /\ {"reading", "failed", "completed"} \subseteq Statuses \ {"absent"}
        /\ UNCHANGED item
    BY DEF Statuses, Active, BeginIndex, UrlFetched, Embedded, EmbeddingFails, IndexBreaks
  <1>4. \/ Raises(item, status, jobs)
        \/ Returns(status, Tail(jobs))
        \/ Suspends(reading, "fetch") \/ Suspends(reading, "embed")
        \/ Raises(item, reading, jobs)
        \/ Returns(Written(item, reading, i, "failed"), Tail(jobs))
        \/ Suspends(status, "embed")
        \/ Returns(Written(item, status, i, "failed"), Tail(jobs))
        \/ Returns(Written(item, status, i, "completed"), Tail(jobs))
        \/ Restarts(status)
        \/ Breaks(item, status, jobs)
    BY DEF BeginIndex, UrlFetched, Embedded, EmbeddingFails, IndexBreaks
  <1> HIDE DEF i
  <1>5. RowsInOrder(item, reading) /\ AllTell(item, reading)
    BY <1>1, <1>2, <1>3, WrittenInOrder, WritesTell
  <1> HIDE DEF reading
  <1>6. CASE Raises(item, status, jobs) \/ Breaks(item, status, jobs)
    BY <1>1, <1>2, <1>3, <1>6, RaisesTells, BreaksTells
  <1>7. CASE Raises(item, reading, jobs)
    BY <1>1, <1>2, <1>3, <1>5, <1>7, RaisesTells
  <1>8. CASE status' = Written(item, reading, i, "failed")
    BY <1>1, <1>3, <1>5, <1>8, WritesTell
  <1>9. CASE status' = Written(item, status, i, "failed") \/ status' = Written(item, status, i, "completed")
    BY <1>1, <1>2, <1>3, <1>9, WritesTell
  <1>10. CASE status' = status \/ status' = reading
    BY <1>3, <1>5, <1>10
  <1> QED
    BY <1>4, <1>6, <1>7, <1>8, <1>9, <1>10 DEF Returns, Suspends, Restarts

\* A deletion of one item: of what is gone only the item lay in something that
\* stays, and that is told.
LEMMA SubtreeRemoved ==
  ASSUME Sound, AllTell(item, status), NEW r \in Items,
         NEW groups \in SetToSeqs(GroupsOf(Subtree(item, status, {r})))
  PROVE  AllTell(item, Removed(item, status, Subtree(item, status, {r}), groups))
  <1> DEFINE gone == Subtree(item, status, {r})
             G == GroupsOf(gone)
             g == item[r].group
  <1>1. /\ Forest(item) /\ status \in [Items -> Statuses]
        /\ gone \subseteq Items
    BY RowsAreForest, SubtreeHolds DEF Sound, RowsInOrder
  <1>2. \A i \in gone : i = r \/ item[i].group \in gone
    BY SubtreeFix, SubtreeHolds DEF Belongs
  <1>3. \A i \in gone : item[i].group \in Items \cup {NoItem}
    BY <1>1 DEF Forest
  <1> HIDE DEF gone
  <1>4. /\ G \subseteq {g} \cap Items
        /\ \A i \in gone : item[i].group \in gone \cup {NoItem} \/ item[i].group \in G
    BY <1>1, <1>2, <1>3 DEF GroupsOf
  <1> HIDE DEF g
  <1>5. groups \in [1 .. Cardinality(G) -> G] /\ \A x \in G : \E k \in 1 .. Cardinality(G) : groups[k] = x
    <2>1. groups \in SetToSeqs(G)
      BY DEF gone
    <2>2. G = {} \/ G = {g}
      BY <1>4
    <2> HIDE DEF G
    <2>3. groups \in [1 .. Cardinality(G) -> G]
      BY <2>1 DEF SetToSeqs
    <2>4. ASSUME NEW x \in G
          PROVE  \E k \in 1 .. Cardinality(G) : groups[k] = x
      <3>1. G = {x}
        BY <2>2, <2>4
      <3>2. Cardinality(G) = 1
        BY <3>1, FS_Singleton
      <3> QED
        BY <2>3, <3>1, <3>2
    <2> QED
      BY <2>3, <2>4
  <1>6. Cardinality(G) \in {0, 1}
    <2>1. G = {} \/ G = {g}
      BY <1>4
    <2> HIDE DEF G
    <2> QED
      BY <2>1, FS_EmptySet, FS_Singleton
  <1> HIDE DEF G
  <1>7. groups \in Chains(item) /\ Len(groups) = Cardinality(G)
    <2>1. groups \in Seq(Items \cup {NoItem}) /\ Len(groups) = Cardinality(G)
      BY <1>4, <1>5, <1>6
    <2> QED
      BY <1>6, <2>1 DEF Chains
  <1>8. \A i \in Items : Present(status, i) /\ i \in gone
                           => item[i].group \in gone \cup {NoItem} \/ On(groups, item[i].group)
    BY <1>4, <1>5, <1>7 DEF On
  <1>9. AllTell(item, Removed(item, status, gone, groups))
    BY <1>1, <1>7, <1>8, RemovedTells
  <1> QED
    BY <1>9 DEF gone

LEMMA DeletionTells ==
  ASSUME MaxRoots = 1, Sound, AllTell(item, status), DeleteSubtree \/ DeleteBreaks
  PROVE  AllTell(item', status')
  <1> DEFINE doomed == Subtree(item, status, Head(jobs).roots)
             q == <<Head(jobs)>> \o Uncancelled(Tail(jobs), doomed)
  <1>1. /\ jobs # <<>> /\ Head(jobs).type = "delete"
        /\ UNCHANGED item /\ RowsInOrder(item, status)
    BY DEF DeleteSubtree, DeleteBreaks, Begins, Sound
  <1>2. CASE DeleteSubtree
    <2>1. PICK groups \in SetToSeqs(GroupsOf(doomed)) :
            status' = Removed(item, status, doomed, groups)
      BY <1>2 DEF DeleteSubtree, Returns
    <2>2. Head(jobs) \in SoundJobs(item)
      BY <1>1, HeadIsSound
    <2>3. PICK r \in Items : Head(jobs).roots = {r}
      BY <1>1, <2>2 DEF SoundJobs
    <2>4. doomed = Subtree(item, status, {r})
      BY <2>3
    <2> HIDE DEF doomed
    <2>5. groups \in SetToSeqs(GroupsOf(Subtree(item, status, {r})))
      BY <2>1, <2>4
    <2> QED
      BY <1>1, <2>1, <2>4, <2>5, SubtreeRemoved
  <1>3. CASE DeleteBreaks
    <2>1. Breaks(item, status, q)
      BY <1>3 DEF DeleteBreaks
    <2> HIDE DEF doomed
    <2>2. /\ Uncancelled(Tail(jobs), doomed) \in Seq(SoundJobs(item))
          /\ Head(jobs) \in SoundJobs(item)
      BY <1>1, HeadIsSound, UncancelledIs
    <2>3. q \in Seq(SoundJobs(item)) /\ q # <<>>
      BY <2>2
    <2> HIDE DEF q
    <2> QED
      BY <1>1, <2>1, <2>3, BreaksTells
  <1> QED
    BY <1>2, <1>3

\* What lay below an item is gone, and the item is told.
LEMMA PrunedTells ==
  ASSUME Sound, AllTell(item, status), NEW r \in Items
  PROVE  AllTell(item, Pruned(r))
  <1> DEFINE gone == Subtree(item, status, {r}) \ {r}
             start == <<r>>
  <1>1. /\ Forest(item) /\ status \in [Items -> Statuses]
        /\ gone \subseteq Items
    BY RowsAreForest, SubtreeHolds DEF Sound, RowsInOrder
  <1>2. \A i \in gone : item[i].group \in gone \cup {r}
    BY SubtreeFix, SubtreeHolds DEF Belongs
  <1>3. start \in Chains(item) /\ On(start, r)
    BY DEF Chains, On
  <1>4. Pruned(r) = status \/ Pruned(r) = Removed(item, status, gone, start)
    BY DEF Pruned
  <1> HIDE DEF gone, start
  <1>5. AllTell(item, Removed(item, status, gone, start))
    BY <1>1, <1>2, <1>3, RemovedTells
  <1> QED
    BY <1>4, <1>5

LEMMA ReindexingTells ==
  ASSUME Sound, AllTell(item, status), ReindexSubtree \/ ReindexBreaks
  PROVE  AllTell(item', status')
  <1> DEFINE r == Root
             pruned == Pruned(r)
  <1>1. /\ jobs # <<>> /\ Head(jobs).type = "reindex" /\ UNCHANGED item
        /\ RowsInOrder(item, status)
    BY DEF ReindexSubtree, ReindexBreaks, Begins, Sound
  <1>2. r \in Items /\ jobs \in Seq(SoundJobs(item))
    BY <1>1, RootIsThere, HeadIsSound DEF Sound
  <1>3. RowsInOrder(item, pruned) /\ AllTell(item, pruned)
    BY <1>2, PrunedSticks, PrunedTells
  <1>4. {"preparing", "processing"} \subseteq Statuses \ {"absent"}
    BY DEF Statuses, Active
  <1>5. \/ status' = status
        \/ status' = Written(item, pruned, r, "preparing")
        \/ status' = Written(item, status, r, "processing")
        \/ \E st \in {status, pruned} : Breaks(item, st, jobs)
    BY DEF ReindexSubtree, ReindexBreaks, Returns
  <1> HIDE DEF r, pruned
  <1>6. CASE status' = status
    BY <1>1, <1>6
  <1>7. CASE status' = Written(item, status, r, "processing")
    BY <1>1, <1>2, <1>4, <1>7, WritesTell
  <1>8. CASE status' = Written(item, pruned, r, "preparing")
    BY <1>1, <1>2, <1>3, <1>4, <1>8, WritesTell
  <1>9. CASE \E st \in {status, pruned} : Breaks(item, st, jobs)
    BY <1>1, <1>2, <1>3, <1>9, BreaksTells
  <1> QED
    BY <1>5, <1>6, <1>7, <1>8, <1>9

\* Children that have just been made wait under a container that is prepared.
LEMMA ChildrenTell ==
  ASSUME Sound, NEW st, NEW d \in Items, NEW n,
         RowsInOrder(item, st), AllTell(item, st), st[d] = "preparing"
  PROVE  AllTell(WithChildren(d, n), WithIdle(st, n))
  <1> DEFINE it2 == WithChildren(d, n)
             st2 == WithIdle(st, n)
  <1>1. ASSUME NEW i \in Items, i \in Born(n)
        PROVE  item[i] = NoRow /\ st[i] = "absent"
    <2>1. RowsInOrder(item, status)
      BY DEF Sound
    <2>2. Made \in 0 .. MaxItems /\ (item[i] # NoRow <=> i <= Made)
      BY <2>1, MadeIsLast
    <2>3. ~(i <= Made)
      BY <1>1, <2>2 DEF Born, Items
    <2> QED
      BY <2>2, <2>3 DEF RowsInOrder
  <1>2. /\ \A i \in Items : i \in Born(n) =>
             it2[i].group = d /\ it2[i].kind = "file" /\ st2[i] = "idle"
        /\ \A i \in Items : i \notin Born(n) => it2[i] = item[i] /\ st2[i] = st[i]
    BY DEF WithChildren, WithIdle, Child, Row
  <1> HIDE DEF it2, st2
  <1>3. ASSUME NEW k \in Items
        PROVE  Tells(it2, st2, k)
    <2>1. CASE k \in Born(n)
      BY <1>2, <2>1 DEF Tells
    <2>2. CASE k = d
      <3>1. d \notin Born(n)
        BY <1>1
      <3>2. st2[d] = "preparing"
        BY <1>2, <3>1
      <3> QED
        BY <2>2, <3>2 DEF Tells
    <2>3. CASE k \notin Born(n) /\ k # d
      <3>1. Tells(item, st, k) /\ it2[k] = item[k] /\ st2[k] = st[k]
        BY <1>2, <2>3 DEF AllTell
      <3>2. Children(it2, st2, k) = Children(item, st, k)
        BY <1>1, <1>2, <2>3 DEF Children, Present
      <3>3. \A i \in Children(item, st, k) : st2[i] = st[i]
        BY <1>1, <1>2 DEF Children, Present
      <3> QED
        BY <3>1, <3>2, <3>3 DEF Tells
    <2> QED
      BY <2>1, <2>2, <2>3
  <1> QED
    BY <1>3 DEF AllTell, it2, st2

LEMMA PreparationTells ==
  ASSUME Sound, AllTell(item, status), PrepareRoot \/ PrepareBreaks
  PROVE  AllTell(item', status')
  <1> DEFINE d == Root
             all == Cardinality(OnDisk(item[d].tree))
             preparing == Preparing(d)
  <1>1. jobs # <<>> /\ Head(jobs).type = "prepare" /\ RowsInOrder(item, status)
    BY DEF PrepareRoot, PrepareBreaks, Begins, Sound
  <1>2. d \in Items /\ item[d].kind = "directory" /\ jobs \in Seq(SoundJobs(item))
    BY <1>1, RootIsThere, HeadIsSound DEF Sound, RootKinds
  <1>3. all \in Nat /\ all \in 0 .. all
    BY <1>2, OnDiskIsFew
  <1>4. /\ RowsInOrder(item, preparing)
        /\ AllTell(item, preparing)
        /\ Present(status, d) /\ status[d] # "deleting" => preparing[d] = "preparing"
    <2>1. "preparing" \in Statuses \ {"absent"} /\ "preparing" \in Statuses
      BY DEF Statuses, Active
    <2> HIDE DEF d
    <2>2. RowsInOrder(item, preparing) /\ AllTell(item, preparing)
      BY <1>1, <1>2, <2>1, WrittenInOrder, WritesTell DEF Preparing
    <2>3. Forest(item) /\ status \in [Items -> Statuses]
      BY <1>1, RowsAreForest DEF RowsInOrder
    <2>4. ASSUME Present(status, d), status[d] # "deleting"
          PROVE  preparing[d] = "preparing"
      <3>1. Retold(item, [status EXCEPT ![d] = "preparing"], preparing)
        BY <1>2, <2>1, <2>3, <2>4, WrittenRetells DEF Preparing
      <3>2. [status EXCEPT ![d] = "preparing"][d] = "preparing"
        BY <1>2, <2>3
      <3> QED
        BY <1>2, <3>1, <3>2 DEF Retold
    <2> QED
      BY <2>2, <2>4
  <1>5. \/ /\ UNCHANGED item
           /\ Raises(item, status, jobs) \/ Returns(status, Tail(jobs)) \/ Raises(item, preparing, jobs)
        \/ \E n \in 0 .. all :
             /\ Here(d) /\ status[d] # "deleting"
             /\ Room(n)
             /\ item' = WithChildren(d, n)
             /\ \/ status' = Written(item', WithIdle(preparing, n), d, "completed")
                \/ Breaks(item', WithIdle(preparing, n), jobs \o IndexJobs(n))
    <2>1. CASE PrepareRoot
      BY <1>3, <2>1 DEF PrepareRoot, Returns
    <2>2. CASE PrepareBreaks
      <3>1. PICK n \in 0 .. all :
              /\ Here(d) /\ status[d] # "deleting"
              /\ Room(n + Cardinality(item[d].tree))
              /\ item' = WithChildren(d, n)
              /\ Breaks(item', WithIdle(preparing, n), jobs \o IndexJobs(n))
        BY <2>2 DEF PrepareBreaks
      <3>2. Room(n)
        <4>1. Made \in Nat /\ Cardinality(item[d].tree) \in Nat
          BY <1>1, <1>2, MadeIsLast, OnDiskIsFew
        <4> HIDE DEF d, all
        <4> QED
          BY <1>3, <3>1, <4>1, MaxItemsAssumption DEF Room
      <3> QED
        BY <3>1, <3>2
    <2> QED
      BY <2>1, <2>2
  <1> HIDE DEF preparing, d, all
  <1>6. CASE UNCHANGED item /\ (Raises(item, status, jobs) \/ Raises(item, preparing, jobs))
    BY <1>1, <1>2, <1>4, <1>6, RaisesTells
  <1>7. CASE UNCHANGED item /\ Returns(status, Tail(jobs))
    BY <1>7 DEF Returns
  <1>8. ASSUME NEW n \in 0 .. all, Room(n), item' = WithChildren(d, n),
               Here(d), status[d] # "deleting",
               \/ status' = Written(item', WithIdle(preparing, n), d, "completed")
               \/ Breaks(item', WithIdle(preparing, n), jobs \o IndexJobs(n))
        PROVE  AllTell(item', status')
    <2> DEFINE st == WithIdle(preparing, n)
               q == jobs \o IndexJobs(n)
    <2>1. /\ RowsInOrder(item', st)
          /\ IndexJobs(n) \in Seq(SoundJobs(item'))
          /\ jobs \in Seq(SoundJobs(item'))
      <3>1. n \in 0 .. Cardinality(OnDisk(item[d].tree))
        BY DEF all
      <3>2. \A i \in Items : item[i] # NoRow => item'[i] = item[i]
        BY <1>2, <1>4, <1>8, <3>1, ChildrenInOrder
      <3> QED
        BY <1>2, <1>4, <1>8, <3>1, <3>2, ChildrenInOrder, SoundJobsGrow
    <2>2. q \in Seq(SoundJobs(item')) /\ q # <<>>
      BY <1>1, <2>1, ConcatEqualIffEmpty
    <2>3. AllTell(item', st)
      BY <1>2, <1>4, <1>8, ChildrenTell DEF Here
    <2> HIDE DEF st, q
    <2>4. CASE status' = Written(item', st, d, "completed")
      <3>1. "completed" \in Statuses \ {"absent"}
        BY DEF Statuses
      <3> QED
        BY <1>2, <2>1, <2>3, <2>4, <3>1, WritesTell
    <2>5. CASE Breaks(item', st, q)
      BY <2>1, <2>2, <2>3, <2>5, BreaksTells
    <2> QED
      BY <1>8, <2>4, <2>5 DEF st, q
  <1> QED
    BY <1>5, <1>6, <1>7, <1>8

\* Everything that runs on the event loop keeps the containers in agreement.
TreeTells == OnLoop => AllTell(item, status)

LEMMA NextTells ==
  ASSUME MaxRoots = 1, Sound, TreeTells, Next
  PROVE  TreeTells'
  <1> SUFFICES ASSUME OnLoop' PROVE AllTell(item', status')
    BY DEF TreeTells
  <1>1. AllTell(item, status)
    <2>1. \A q \in {"remove", "fetch"} : spent[q] \in Nat /\ spent[q] <= spent'[q]
      BY StepsAdd DEF Requests
    <2>2. OnLoop
      BY <2>1 DEF OnLoop
    <2> QED
      BY <2>2 DEF TreeTells
  <1>2. CASE Ask
    BY <1>1, <1>2, RoutesTell
  <1>3. CASE Work
    BY <1>1, <1>3, PreparationTells, IndexingTells, DeletionTells, ReindexingTells DEF Work
  <1>4. CASE Stop
    <2>1. CASE IdleCrash
      BY <1>1, <2>1 DEF IdleCrash, rows
    <2> QED
      BY <1>1, <1>4, <2>1, PreparationTells, IndexingTells, DeletionTells, ReindexingTells DEF Stop
  <1>5. CASE PageFetched \/ ReadContainer \/ WriteContainer
    <2>1. ASSUME UNCHANGED spent PROVE fetching = NoItem /\ thread = Idle
      BY <2>1 DEF OnLoop, Sound, ThreadsAreSound
    <2>2. NoItem = Idle.at /\ Idle.verdict = "none"
      BY DEF Idle
    <2> QED
      BY <1>5, <2>1, <2>2 DEF PageFetched, ReadContainer, WriteContainer
  <1> QED
    BY <1>2, <1>3, <1>4, <1>5 DEF Next

LEMMA TreeIsTold == TreeTells => ContainerTellsChildren
  BY DEF TreeTells, AllTell, Tells, ContainerTellsChildren, OnLoop, Active

\* A container that says completed has no child under way or failed, and one
\* that says processing waits for one: wherever a route, a handler, a retry, a
\* stop or a deletion changes a child, _reconcile_containers reaches all that
\* contain it.  Items are deleted one at a time; several at once can be told in
\* an order in which a container is looked at before what lies in it.
THEOREM ContainersTellChildren ==
  ASSUME MaxRoots = 1
  PROVE  Spec => []ContainerTellsChildren
  <1>1. Init => TreeTells
    BY DEF Init, TreeTells, AllTell, Tells
  <1>2. Sound /\ TreeTells /\ [Next]_vars => TreeTells'
    <2>1. UNCHANGED vars /\ TreeTells => TreeTells'
      BY DEF vars, TreeTells, OnLoop
    <2> QED
      BY <2>1, NextTells
  <1> QED
    BY <1>1, <1>2, AlwaysSound, TreeIsTold, PTL DEF Spec

=============================================================================
