--------------------------- MODULE KnowledgeItems ---------------------------
(***************************************************************************)
(* The knowledge items of one base: what the routes that add, import,      *)
(* reindex and delete items do to them, and what the job handlers          *)
(* (backend/app/services/knowledge_jobs/) do in the background.            *)
(*                                                                         *)
(* The jobs of a base run one at a time in the order in which they were    *)
(* enqueued: that is what KnowledgeJobs shows of the job manager.  Here a  *)
(* job is an element of a queue whose head runs; a retry keeps the head, a *)
(* process end keeps the head if its handler was running and loses the     *)
(* rest, which is pending.                                                 *)
(*                                                                         *)
(* Routes declared with "async def" and handlers share one event loop: an  *)
(* action goes from one suspension to the next.  A route declared with     *)
(* "def" runs in a thread of its own, statement by statement.              *)
(***************************************************************************)
EXTENDS ItemTree, SequencesExt

CONSTANTS
  Files,     \* names of files that users upload
  NoFile,    \* the source of an item that is no file
  MaxTries,  \* max_attempts of the handlers (3)
  MaxRoots,  \* bound: items selected in one deletion
  Parents,   \* bound: kinds of items that users put items into
  Bounds     \* bounds: how often each request and each fault may happen in a behaviour

Requests == {"add", "upload", "import", "reindex", "delete", "remove", "fetch",
             "crash", "fault"}

ASSUME ItemsAssumption ==
  /\ NoFile \notin Files
  /\ IsFiniteSet(Files)
  /\ MaxTries \in Nat /\ MaxTries > 1
  /\ MaxRoots \in Nat \ {0}
  /\ Parents \subseteq Kinds
  /\ Bounds \subseteq [Requests -> Nat]

VARIABLES
  item,      \* rows: kind, group, src (data.path of a file), tree (of an import)
  status,    \* their status column
  place,     \* where each uploaded file lies
  vectors,   \* items whose nodes in knowledge_vectors are those of their content
  jobs,      \* jobs of the base that have a task, the running one first
  stage,     \* where the handler of the first job is suspended
  fails,     \* attempts of the first job that have failed
  keys,      \* idempotency keys of reindex and delete jobs ever enqueued
  thread,    \* a "def" route in _reconcile_containers: container and verdict
  fetching,  \* the item for which process_url_item awaits a page
  spent      \* how often each request and fault has happened

rows   == <<item, status>>
queue  == <<jobs, stage, fails>>
others == <<thread, fetching>>
vars   == <<item, status, place, vectors, jobs, stage, fails, keys, thread,
            fetching, spent>>

NoRow  == [kind |-> "none", group |-> NoItem, src |-> NoFile, tree |-> {}]
Rows   == [kind : Kinds \cup {"none"}, group : Items \cup {NoItem},
           src : Files \cup {NoFile}, tree : SUBSET Files]
Places == {"unused", "disk", "s3", "gone"}
Job    == [type : {"prepare", "index", "reindex", "delete"}, roots : SUBSET Items]
Idle   == [at |-> NoItem, verdict |-> "none"]

TypeOK ==
  /\ item \in [Items -> Rows]
  /\ status \in [Items -> Statuses]
  /\ \A i \in Items : item[i].group < i
  /\ place \in [Files -> Places]
  /\ vectors \subseteq {i \in Items : status[i] # "absent"}
  /\ jobs \in Seq(Job)
  /\ stage \in {"ready", "fetch", "embed", "backoff"}
  /\ fails \in 0 .. MaxTries - 1
  /\ (jobs = <<>>) => (stage = "ready" /\ fails = 0)
  /\ keys \subseteq {"reindex", "delete"} \X SUBSET Items
  /\ thread \in [at : Items \cup {NoItem},
                 verdict : {"none", "processing", "failed", "completed"}]
  /\ fetching \in Items \cup {NoItem}
  /\ spent \in [Requests -> Nat]

Init ==
  /\ item = [i \in Items |-> NoRow]
  /\ status = [i \in Items |-> "absent"]
  /\ place = [f \in Files |-> "unused"]
  /\ vectors = {}
  /\ jobs = <<>>
  /\ stage = "ready"
  /\ fails = 0
  /\ keys = {}
  /\ thread = Idle
  /\ fetching = NoItem
  /\ spent = [r \in Requests |-> 0]

Here(i) == Present(status, i)
Made    == Cardinality({i \in Items : item[i] # NoRow})
Room(n) == Made + n <= MaxItems

Spend(r) ==
  /\ spent' = [spent EXCEPT ![r] = @ + 1]
  /\ \E b \in Bounds : \A q \in Requests : spent'[q] <= b[q]

-----------------------------------------------------------------------------
(* Routes on the event loop                                                *)

NewJob(type, i) == [type |-> type, roots |-> {i}]

\* create: the next id gets a row.
Row(kind, group, src, tree) ==
  [kind |-> kind, group |-> group, src |-> src, tree |-> tree]

\* add_items: a note, a URL or a directory that no files were uploaded for,
\* possibly inside of an existing item.
AddItem(kind, group) ==
  /\ Spend("add")
  /\ Room(1)
  /\ group = NoItem \/ (Here(group) /\ item[group].kind \in Parents)
  /\ LET i       == Made + 1
         initial == IF kind = "directory" THEN "preparing" ELSE "processing"
         type    == IF kind = "directory" THEN "prepare" ELSE "index"
     IN /\ item' = [item EXCEPT ![i] = Row(kind, group, NoFile, {})]
        /\ status' = Written(item', [status EXCEPT ![i] = "idle"], i, initial)
        /\ jobs' = Append(jobs, NewJob(type, i))
  /\ UNCHANGED <<place, vectors, stage, fails, keys, others>>

\* A file name that uploads may use: on disk the name is
\* <base>_<filename>, so a second upload overwrites the first one.
Uploadable(f) ==
  \/ place[f] = "unused"
  \/ \E i \in Items : Here(i) /\ item[i].src = f /\ item[i].group = NoItem

\* upload_file: to S3, or to the local disk when S3 does not work.
Upload(f, where) ==
  /\ Spend("upload")
  /\ Room(1)
  /\ Uploadable(f)
  /\ LET i == Made + 1
     IN /\ item' = [item EXCEPT ![i] = Row("file", NoItem, f, {})]
        /\ status' = [status EXCEPT ![i] = "processing"]
        /\ place' = [place EXCEPT ![f] = where]
        /\ jobs' = Append(jobs, NewJob("index", i))
  /\ UNCHANGED <<vectors, stage, fails, keys, others>>

\* import_directory: the files go into a directory of their own, and so do
\* their S3 keys.  The names lose their directories, so the tree is flat.
Import(T, where) ==
  /\ Spend("import")
  /\ Room(1 + Cardinality(T))
  /\ T # {}
  /\ \A f \in T : place[f] = "unused"
  /\ LET i == Made + 1
     IN /\ item' = [item EXCEPT ![i] = Row("directory", NoItem, NoFile, T)]
        /\ status' = [status EXCEPT ![i] = "idle"]
        /\ place' = [f \in Files |-> IF f \in T THEN where[f] ELSE place[f]]
        /\ jobs' = Append(jobs, NewJob("prepare", i))
  /\ UNCHANGED <<vectors, stage, fails, keys, others>>

\* enqueue with the idempotency key of the request: a key that was ever used
\* enqueues nothing.
EnqueueOnce(type, roots) ==
  /\ keys' = keys \cup {<<type, roots>>}
  /\ jobs' = IF <<type, roots>> \in keys THEN jobs
             ELSE Append(jobs, [type |-> type, roots |-> roots])

\* reindex_item: the whole subtree must be completed or failed.
RequestReindex(r) ==
  /\ Spend("reindex")
  /\ Here(r)
  /\ Room(Cardinality(item[r].tree))
  /\ \A i \in Subtree(item, status, {r}) : status[i] \in {"completed", "failed"}
  /\ EnqueueOnce("reindex", {r})
  /\ UNCHANGED <<rows, place, vectors, stage, fails, others>>

\* delete_items: mark the subtrees, leave the rest to a job.
RequestDelete(R) ==
  /\ Spend("delete")
  /\ R # {}
  /\ \A r \in R : Here(r)
  /\ LET roots == Outermost(item, status, R)
     IN /\ status' = MarkedDeleting(item, status, roots)
        /\ EnqueueOnce("delete", roots)
  /\ UNCHANGED <<item, place, vectors, stage, fails, others>>

\* process_url_item: read the row, await the page...
FetchPage(i) ==
  /\ Spend("fetch")
  /\ fetching = NoItem
  /\ Here(i)
  /\ item[i].kind = "url"
  /\ fetching' = i
  /\ UNCHANGED <<rows, place, vectors, queue, keys, thread>>

\* ...and write the row, or its error column only.
PageFetched ==
  /\ fetching # NoItem
  /\ fetching' = NoItem
  /\ \/ /\ Here(fetching)
        /\ status' = [status EXCEPT ![fetching] = "completed"]
     \/ UNCHANGED status
  /\ UNCHANGED <<item, place, vectors, queue, keys, thread, spent>>

-----------------------------------------------------------------------------
(* DELETE /items/{id}, in a thread                                         *)

\* delete removes one row; its nodes go with it (ON DELETE CASCADE)...
RemoveRow(i) ==
  /\ Spend("remove")
  /\ thread = Idle
  /\ Here(i)
  /\ status' = [status EXCEPT ![i] = "absent"]
  /\ vectors' = vectors \ {i}
  /\ thread' = [at |-> item[i].group, verdict |-> "none"]
  /\ UNCHANGED <<item, place, queue, keys, fetching>>

\* ..._reconcile_containers reads a container and its children...
ReadContainer ==
  /\ thread.at # NoItem
  /\ thread.verdict = "none"
  /\ LET c == thread.at
     IN \/ /\ Settled(item, status, c)
           /\ thread' = Idle
        \/ /\ ~Settled(item, status, c)
           /\ status[c] = "preparing"
           /\ thread' = [at |-> item[c].group, verdict |-> "none"]
        \/ /\ ~Settled(item, status, c)
           /\ status[c] # "preparing"
           /\ thread' = [thread EXCEPT !.verdict = Verdict(item, status, c)]
  /\ UNCHANGED <<rows, place, vectors, queue, keys, fetching, spent>>

\* ...and writes the verdict, whatever the row says by then.
WriteContainer ==
  /\ thread.verdict # "none"
  /\ status' = [i \in Items |-> IF i = thread.at /\ Here(i) THEN thread.verdict
                                                           ELSE status[i]]
  /\ thread' = [at |-> item[thread.at].group, verdict |-> "none"]
  /\ UNCHANGED <<item, place, vectors, queue, keys, fetching, spent>>

-----------------------------------------------------------------------------
(* How an attempt of the first job ends                                    *)

Begins(type) ==
  /\ jobs # <<>>
  /\ stage \in {"ready", "backoff"}
  /\ Head(jobs).type = type

Root == CHOOSE r \in Head(jobs).roots : TRUE

\* The handler waits for something outside of the process.
Suspends(st, s) ==
  /\ status' = st
  /\ stage' = s
  /\ UNCHANGED <<jobs, fails>>

\* The handler returns; q is what it leaves in the queue after its own job.
Returns(st, q) ==
  /\ status' = st
  /\ jobs' = q
  /\ stage' = "ready"
  /\ fails' = 0

\* Mutant of OnSettled: the containers of the item are not told.
OnSettledSilently(it, st, job) ==
  [i \in Items |-> IF i \in job.roots /\ st[i] \in Active THEN "failed" ELSE st[i]]

\* on_settled with "failed": nothing is done for a delete job, and a reindex
\* job fails its root only on its way to another status.
OnSettled(it, st, job) ==
  LET r == CHOOSE r \in job.roots : TRUE
  IN IF job.type = "delete" \/ (job.type = "reindex" /\ st[r] \notin Active)
     THEN st
     ELSE Written(it, st, r, "failed")

\* Mutants of Raises: one attempt too many; no other attempt.
RaisesOnceMore(it, st, q) ==
  \/ /\ fails + 1 <= MaxTries
     /\ status' = st
     /\ jobs' = q
     /\ stage' = "backoff"
     /\ fails' = fails + 1
  \/ /\ fails + 1 > MaxTries
     /\ Returns(OnSettled(it, st, Head(q)), Tail(q))

RaisesForGood(it, st, q) == Returns(OnSettled(it, st, Head(q)), Tail(q))

\* The handler raises: another attempt after a pause, or the job has failed.
\* q is the queue at that time, the job included.
Raises(it, st, q) ==
  \/ /\ fails + 1 < MaxTries
     /\ status' = st
     /\ jobs' = q
     /\ stage' = "backoff"
     /\ fails' = fails + 1
  \/ /\ fails + 1 = MaxTries
     /\ Returns(OnSettled(it, st, Head(q)), Tail(q))

\* The process ends while the first job runs and is started again; the job is
\* executed anew, the pending ones are lost.  recover_deleting_items reads a
\* column by a name it does not have and enqueues nothing.
Restarts(st) ==
  /\ Spend("crash")
  /\ status' = st
  /\ jobs' = SubSeq(jobs, 1, 1)
  /\ stage' = "ready"
  /\ fails' = 0
  /\ thread' = Idle
  /\ fetching' = NoItem

\* The handler stops between two statements that commit: the process ends, or
\* the database refuses the next one.
Breaks(it, st, q) ==
  \/ Restarts(st)
  \/ Spend("fault") /\ Raises(it, st, q) /\ UNCHANGED others

-----------------------------------------------------------------------------
(* knowledge.prepare-root                                                  *)

OnDisk(T) == {f \in T : place[f] = "disk"}

\* The upload directory is removed with the last local file in it; one that
\* never had a local file stays.  Without upload there is none.
UploadDirExists(d) ==
  /\ item[d].tree # {}
  /\ OnDisk(item[d].tree) # {} \/ \A f \in item[d].tree : place[f] = "s3"

\* The rows after n children of d were created from its tree, and their jobs.
\* A file is skipped unless it exists on the local disk.
Child(d, k) == Row("file", d, SetToSeq(OnDisk(item[d].tree))[k], {})
Born(n)     == Made + 1 .. Made + n
WithChildren(d, n) ==
  [i \in Items |-> IF i \in Born(n) THEN Child(d, i - Made) ELSE item[i]]
WithIdle(st, n) == [i \in Items |-> IF i \in Born(n) THEN "idle" ELSE st[i]]
IndexJobsButLast(n) == [k \in 1 .. n - 1 |-> NewJob("index", Made + k)]  \* mutant
IndexJobs(n)    == [k \in 1 .. n |-> NewJob("index", Made + k)]

Preparing(d) == Written(item, status, d, "preparing")

PrepareRoot ==
  /\ Begins("prepare")
  /\ LET d == Root
         n == Cardinality(OnDisk(item[d].tree))
     IN \/ /\ ~Here(d)
           /\ Raises(item, status, jobs)
           /\ UNCHANGED item
        \/ /\ status[d] = "deleting"
           /\ Returns(status, Tail(jobs))
           /\ UNCHANGED item
        \/ /\ Here(d)
           /\ status[d] # "deleting"
           /\ ~UploadDirExists(d)
           /\ Raises(item, Preparing(d), jobs)
           /\ UNCHANGED item
        \/ /\ Here(d)
           /\ status[d] # "deleting"
           /\ UploadDirExists(d)
           /\ Room(n)
           /\ item' = WithChildren(d, n)
           /\ Returns(Written(item', WithIdle(Preparing(d), n), d, "completed"),
                      Tail(jobs) \o IndexJobs(n))
  /\ UNCHANGED <<place, vectors, keys, others, spent>>

\* It stops after some of the children.
PrepareBreaks ==
  /\ Begins("prepare")
  /\ Here(Root)
  /\ status[Root] # "deleting"
  /\ UploadDirExists(Root)
  /\ \E n \in 0 .. Cardinality(OnDisk(item[Root].tree)) :
       /\ Room(n + Cardinality(item[Root].tree))
       /\ item' = WithChildren(Root, n)
       /\ Breaks(item', WithIdle(Preparing(Root), n), jobs \o IndexJobs(n))
  /\ UNCHANGED <<place, vectors, keys>>

-----------------------------------------------------------------------------
(* knowledge.index-documents                                               *)

\* _delete_local_upload_file, in the "finally" clause of a file.
DropFile(i) ==
  place' = [f \in Files |-> IF f = item[i].src /\ place[f] = "disk" THEN "gone"
                                                                    ELSE place[f]]

\* Up to the first suspension: a URL is fetched, a file is found and parsed, a
\* note is at hand.
BeginIndex ==
  /\ Begins("index")
  /\ LET i == Root
         reading == Written(item, status, i, "reading")
         f == item[i].src
     IN \/ /\ ~Here(i)
           /\ Raises(item, status, jobs)
           /\ UNCHANGED place
        \/ /\ status[i] = "deleting"
           /\ Returns(status, Tail(jobs))
           /\ UNCHANGED place
        \/ /\ Here(i) /\ status[i] # "deleting"
           /\ \/ /\ item[i].kind = "url"
                 /\ Suspends(reading, "fetch")
                 /\ UNCHANGED place
              \/ /\ \/ item[i].kind = "note"
                    \/ item[i].kind = "file" /\ place[f] \in {"disk", "s3"}
                 /\ Suspends(reading, "embed")
                 /\ UNCHANGED place
              \/ /\ item[i].kind = "file"   \* the file cannot be parsed
                 /\ place[f] \in {"disk", "s3"}
                 /\ DropFile(i)
                 /\ Raises(item, reading, jobs)
              \/ /\ item[i].kind = "file"   \* not found, or not downloaded
                 /\ place[f] \in {"gone", "s3"}
                 /\ Returns(Written(item, reading, i, "failed"), Tail(jobs))
                 /\ UNCHANGED place
  /\ UNCHANGED <<item, vectors, keys, others, spent>>

\* The page of a URL is there, cannot be had, or takes too long.
UrlFetched ==
  /\ stage = "fetch"
  /\ \/ Suspends(status, "embed")
     \/ Returns(Written(item, status, Root, "failed"), Tail(jobs))
     \/ Raises(item, status, jobs)
  /\ UNCHANGED <<item, place, vectors, keys, others, spent>>

\* The embeddings are there: replace the nodes of the item, which fails if the
\* row is gone (foreign key), and complete it.
Embedded ==
  /\ stage = "embed"
  /\ DropFile(Root)
  /\ \/ /\ Here(Root)
        /\ vectors' = vectors \cup {Root}
        /\ Returns(Written(item, status, Root, "completed"), Tail(jobs))
     \/ /\ ~Here(Root)
        /\ Raises(item, status, jobs)
        /\ UNCHANGED vectors
  /\ UNCHANGED <<item, keys, others, spent>>

\* Mutant of EmbeddingFails: the handler takes the exception for a success.
EmbeddingFailsQuietly ==
  /\ stage = "embed"
  /\ DropFile(Root)
  /\ Returns(Written(item, status, Root, "completed"), Tail(jobs))
  /\ UNCHANGED <<item, vectors, keys, others, spent>>

\* The model cannot be reached, or the attempt takes too long.
EmbeddingFails ==
  /\ stage = "embed"
  /\ DropFile(Root)
  /\ Raises(item, status, jobs)
  /\ UNCHANGED <<item, vectors, keys, others, spent>>

\* The process ends while the handler waits, or it stops between the nodes and
\* the status.
IndexBreaks ==
  /\ stage \in {"fetch", "embed"}
  /\ \/ /\ Restarts(status)
        /\ UNCHANGED <<place, vectors>>
     \/ /\ stage = "embed"
        /\ Here(Root)
        /\ vectors' = vectors \cup {Root}
        /\ DropFile(Root)
        /\ Breaks(item, status, jobs)
  /\ UNCHANGED <<item, keys>>

-----------------------------------------------------------------------------
(* knowledge.delete-subtree and knowledge.reindex-subtree                  *)

\* _cancel_jobs_for_item_ids: what is left of the queue.
Uncancelled(q, doomed) ==
  LET kept[n \in 0 .. Len(q)] ==
        IF n = 0 THEN <<>>
        ELSE IF q[n].roots \cap doomed = {} THEN Append(kept[n - 1], q[n])
        ELSE kept[n - 1]
  IN kept[Len(q)]

GroupsOf(S) == {item[i].group : i \in S} \ (S \cup {NoItem})

DeleteSubtree ==
  /\ Begins("delete")
  /\ LET doomed == Subtree(item, status, Head(jobs).roots)
     IN /\ vectors' = vectors \ doomed
        /\ \E groups \in SetToSeqs(GroupsOf(doomed)) :
             Returns(Removed(item, status, doomed, groups),
                     Uncancelled(Tail(jobs), doomed))
  /\ UNCHANGED <<item, place, keys, others, spent>>

\* It stops before it deletes the nodes, or before it deletes the rows.
DeleteBreaks ==
  /\ Begins("delete")
  /\ LET doomed == Subtree(item, status, Head(jobs).roots)
     IN /\ doomed # {}
        /\ vectors' \in {vectors, vectors \ doomed}
        /\ Breaks(item, status, <<Head(jobs)>> \o Uncancelled(Tail(jobs), doomed))
  /\ UNCHANGED <<item, place, keys>>

\* The rows after the descendants of r were deleted.
Pruned(r) ==
  LET below == Subtree(item, status, {r}) \ {r}
  IN IF below = {} \/ item[r].kind # "directory" THEN status
     ELSE Removed(item, status, below, <<r>>)

\* Mutant of ReindexSubtree: only an item that had failed is reset.
ReindexFailedOnly ==
  /\ Begins("reindex")
  /\ LET r == Root
         sub == Subtree(item, status, {r})
     IN /\ Here(r)
        /\ status[r] # "deleting"
        /\ vectors' = vectors \ sub
        /\ IF item[r].kind = "directory"
           THEN Returns(Written(item, Pruned(r), r, "preparing"),
                        Append(Tail(jobs), NewJob("prepare", r)))
           ELSE Returns(IF status[r] = "failed"
                        THEN Written(item, status, r, "processing") ELSE status,
                        Append(Tail(jobs), NewJob("index", r)))
  /\ UNCHANGED <<item, place, keys, others, spent>>

\* A root that is being deleted or is gone is left alone.
ReindexSubtree ==
  /\ Begins("reindex")
  /\ LET r == Root
     IN \/ /\ ~Here(r) \/ status[r] = "deleting"
           /\ Returns(status, Tail(jobs))
           /\ UNCHANGED vectors
        \/ /\ Here(r)
           /\ status[r] # "deleting"
           /\ vectors' = vectors \ Subtree(item, status, {r})
           /\ IF item[r].kind = "directory"
              THEN Returns(Written(item, Pruned(r), r, "preparing"),
                           Append(Tail(jobs), NewJob("prepare", r)))
              ELSE Returns(Written(item, status, r, "processing"),
                           Append(Tail(jobs), NewJob("index", r)))
  /\ UNCHANGED <<item, place, keys, others, spent>>

\* It stops before it deletes the descendants, or before it resets the root.
ReindexBreaks ==
  /\ Begins("reindex")
  /\ Here(Root)
  /\ status[Root] # "deleting"
  /\ vectors' = vectors \ Subtree(item, status, {Root})
  /\ \E st \in {status, Pruned(Root)} : Breaks(item, st, jobs)
  /\ UNCHANGED <<item, place, keys>>

\* The process ends while no handler runs: everything pending is lost.
IdleCrash ==
  /\ stage \in {"ready", "backoff"}
  /\ Spend("crash")
  /\ jobs' = <<>>
  /\ stage' = "ready"
  /\ fails' = 0
  /\ thread' = Idle
  /\ fetching' = NoItem
  /\ UNCHANGED <<rows, place, vectors, keys>>

-----------------------------------------------------------------------------

Ask ==
  \/ \E kind \in {"note", "url", "directory"}, g \in Items \cup {NoItem} : AddItem(kind, g)
  \/ \E f \in Files, where \in {"disk", "s3"} : Upload(f, where)
  \/ \E T \in SUBSET Files : \E where \in [T -> {"disk", "s3"}] : Import(T, where)
  \/ \E r \in Items : RequestReindex(r)
  \/ \E R \in SUBSET Items : Cardinality(R) <= MaxRoots /\ RequestDelete(R)
  \/ \E i \in Items : FetchPage(i) \/ RemoveRow(i)

Work ==
  \/ PrepareRoot \/ BeginIndex \/ UrlFetched \/ Embedded \/ EmbeddingFails
  \/ DeleteSubtree \/ ReindexSubtree

Stop == PrepareBreaks \/ IndexBreaks \/ DeleteBreaks \/ ReindexBreaks \/ IdleCrash

Next == Ask \/ Work \/ PageFetched \/ ReadContainer \/ WriteContainer \/ Stop

Spec == Init /\ [][Next]_vars

\* The job manager executes its queue, every wait of a handler is bounded by
\* a timeout, and the statements of a thread are executed.
Fairness ==
  /\ WF_vars(Work)
  /\ WF_vars(PageFetched)
  /\ WF_vars(ReadContainer \/ WriteContainer)

FairSpec == Spec /\ Fairness

-----------------------------------------------------------------------------
(* Properties                                                              *)

\* What has happened so far: nothing but what runs on the event loop;
OnLoop == spent["remove"] = 0 /\ spent["fetch"] = 0

\* how often a handler was stopped halfway; and no end of the process, and
\* fewer refused statements than a job has attempts.
Stops       == spent["crash"] + spent["fault"]
Undisturbed == spent["crash"] = 0 /\ spent["fault"] < MaxTries

\* The status of a container agrees with its children: one that says completed
\* has no child under way or failed, one that says processing is still waiting
\* for some child (_reconcile_containers at every place that changes a child).
ContainerTellsChildren ==
  OnLoop => \A d \in Items : item[d].kind = "directory" =>
    LET kids == {status[i] : i \in Children(item, status, d)}
    IN /\ status[d] = "completed" => kids \cap (Active \cup {"failed"}) = {}
       /\ status[d] = "processing" => kids \cap (Active \cup {"deleting"}) # {}

Searchable ==
  \A i \in Items :
    item[i].kind \in Leaves /\ status[i] = "completed" => i \in vectors

\* A leaf that says completed can be found by a search: reindexing deletes
\* nodes and resets the status, indexing writes nodes and then the status.
CompletedIsSearchable == Stops = 0 /\ spent["fetch"] = 0 => Searchable

\* The same after a handler was stopped, as soon as the base is at rest.
RestoredIsSearchable == OnLoop /\ Stops <= 1 /\ jobs = <<>> => Searchable

WaitingFor(i, type) == \E k \in 1 .. Len(jobs) : jobs[k] = NewJob(type, i)
Doomed(i) == \E k \in 1 .. Len(jobs) :
  jobs[k].type = "delete" /\ i \in Subtree(item, status, jobs[k].roots)

\* Every item on its way has the job that brings it there, or one that will
\* delete it: no route that runs beside the handlers takes it away.  (A refused
\* statement and a route that removes the root of a deletion together do.)
ActiveHasJob ==
  Undisturbed /\ 0 \in {spent["fault"], spent["remove"]} => \A i \in Items :
    /\ item[i].kind \in Leaves /\ status[i] \in Active
         => WaitingFor(i, "index") \/ Doomed(i)
    /\ status[i] = "preparing" => WaitingFor(i, "prepare") \/ Doomed(i)

\* An item that is being deleted has a job that deletes it: no cancellation, no
\* idempotency key, no retry and no refused statement drops the last one.  A
\* process end does, as KnowledgeJobs shows.
NoItemForgotten ==
  Undisturbed /\ spent["remove"] = 0 =>
    \A i \in Items : status[i] = "deleting" => Doomed(i)

\* update_status says that deleting is irreversible: such an item can only
\* disappear, whatever job of it is still running or starts again.
DeletingIrreversible ==
  [][OnLoop' => \A i \in Items : status[i] = "deleting"
                                   => status'[i] \in {"deleting", "absent"}]_vars

\* Whatever is on its way arrives, indexed, failed or deleted: again and again
\* there is nothing on its way.
EveryItemSettles ==
  []<>(Undisturbed /\ spent["remove"] = 0 =>
         \A i \in Items : status[i] \in {"completed", "failed", "absent"})

=============================================================================
