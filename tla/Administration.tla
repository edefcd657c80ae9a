--------------------------- MODULE Administration ---------------------------
(***************************************************************************)
(* The pages of the administrator and what they feed, on one network and   *)
(* one server: model services, the videos made with them, patents,         *)
(* accounts, and the archive of a user's analyses.                         *)
(***************************************************************************)
EXTENDS Videos, PatentPages, UserPages, Archive

vars == <<serviceVars, videoVars, patentVars, userVars, archiveVars, net, left>>

Init ==
  \E s \in Scenarios :
    /\ ServicesInit(s)
    /\ VideosInit(s)
    /\ PatentsInit(s)
    /\ UsersInit(s)
    /\ ArchiveInit(s)
    /\ net = {}
    /\ left = s.doings

\* What one group of pages does leaves the others alone.
OnServices(A) == A /\ UNCHANGED <<videoVars, patentVars, userVars, archiveVars>>
OnVideos(A) == A /\ UNCHANGED <<serviceVars, patentVars, userVars, archiveVars>>
OnPatents(A) == A /\ UNCHANGED <<serviceVars, videoVars, userVars, archiveVars>>
OnUsers(A) == A /\ UNCHANGED <<serviceVars, videoVars, patentVars, archiveVars>>
OnArchive(A) == A /\ UNCHANGED <<serviceVars, videoVars, patentVars, userVars>>

Serve(m) ==
  \/ OnServices(ServesServices(m))
  \/ OnVideos(ServesVideos(m))
  \/ OnPatents(ServesPatents(m))
  \/ OnUsers(ServesUsers(m))
  \/ OnArchive(ServesArchive(m))

Deliver(m) ==
  \/ OnServices(DeliverServices(m))
  \/ m.by \in {"video page", "video form"} /\ OnVideos(DeliverVideos(m))
  \/ OnPatents(DeliverPatents(m))
  \/ OnUsers(DeliverUsers(m))
  \/ OnArchive(DeliverArchive(m))

Users ==
  \/ OnServices(ServicesUser) \/ OnVideos(VideosUser) \/ OnPatents(PatentsUser)
  \/ OnUsers(PeopleUser) \/ OnArchive(ArchiveUser)

Next ==
  \/ Users
  \/ OnVideos(VideosServer)
  \/ OnArchive(Appears)
  \/ \E m \in net : \/ Serve(m) \/ Deliver(m)
                    \/ Lose(m) /\ UNCHANGED <<serviceVars, videoVars, patentVars, userVars, archiveVars>>

Spec == Init /\ [][Next]_vars

\* The server and the network answer everybody, a provider ends its jobs, and the
\* poller of the server and the interval of the page go on; the interval alone asks
\* without end, and does not keep the others from their answers.
Fairness ==
  /\ WF_vars(\E m \in net : m.by # "video page" /\ (Serve(m) \/ Deliver(m)))
  /\ WF_vars(\E m \in net : m.by = "video page" /\ (Serve(m) \/ Deliver(m)))
  /\ WF_vars(OnVideos(\E t \in Tasks : RemoteEnds(t)))
  /\ WF_vars(OnVideos(\E t \in Tasks : Ages(t)))
  /\ WF_vars(OnVideos(PollRound \/ \E t \in Tasks : Query(t)))
  /\ WF_vars(OnVideos(PollVideo))

FairSpec == Spec /\ Fairness

-----------------------------------------------------------------------------
(* Properties                                                              *)

\* Whatever comes and goes while requests are under way, no queue names a service
\* that is not there: its row goes with the service, and is not made again by
\* a request that was sent before (user_model_services, add_user_provider).
QueuesHoldServices == \A c \in Capabilities : \A p \in InQueue(c) : Known(p)

\* A task ends, through lost answers, a server that is started again and failed
\* questions, unless its service can no longer be asked (poll_once).
TasksEnd == \A t \in Tasks : Active(t) ~> (~Active(t) \/ ~Usable(tasks[t].provider))

\* Neither the list nor the player goes on showing a task as being made that has
\* ended (the polling of VideoDisplayPage).
VideoPageCatchesUp ==
  <>[](video.open => /\ \A t \in Tasks : video.list[t] \in NonTerminal => Active(t)
                     /\ Player = "being made" => Active(video.selected))

\* Two uploads at a time, or an upload and an edit, never leave two patents with
\* one number, though a file is read between the request and the
\* insertion (upload_patent_pdf).
NumbersAreUnique ==
  \A p, q \in Patents : There(p) /\ There(q) /\ p # q /\ table[p].number # None =>
                        table[p].number # table[q].number

\* The places the page gives to its patents are those of the answer it shows, in
\* whatever order its requests are answered (PatentSearchPage, fetchPatents).
PagerTellsList == view.open => view.page = view.list.page

\* The selection is only cleared by a batch of deletions when every one of them was
\* done, whatever else is answered meanwhile (handleBatchDelete).
BatchIsWhole ==
  [][\A m \in net \ net' :
       /\ m.kind = "delete" /\ m.here /\ m.with.batch
       /\ people'.open /\ people.selected # {} /\ people'.selected = {}
       => ~accounts[m.of].there]_vars

\* A list that was read to its end misses no more of what it was begun with than
\* was deleted meanwhile, new tasks among them, and shows no more of it twice than
\* came meanwhile, since its pieces are counted from the latest task each time
\* (handleLoadMore).
ArchiveIsWhole ==
  archive.open /\ ~archive.loading /\ ~archive.more /\ archive.page >= archive.pages =>
    /\ Cardinality(Missed) <= Cardinality(Went)
    /\ Len(archive.list) - Cardinality(ListedAnalyses) <= Cardinality(Came)

\* No page goes on saying that it loads, sends, saves or uploads, whichever
\* requests are lost and whichever of its parts are closed meanwhile.
WaitingEnds ==
  <>[]( /\ ~catalog.loading /\ ~catalog.form.saving /\ ~catalog.form.detecting
        /\ \A c \in Capabilities : ~sections[c].loading
        /\ ~video.sending /\ ~desk.uploading /\ ~view.loading
        /\ ~people.loading /\ ~people.saving /\ ~people.sending
        /\ ~archive.loading /\ ~archive.more /\ ~detail.loading /\ ~detail.checking)

\* An order that is taken is the order of the queue afterwards, and an order of
\* all services of a queue is taken (user_model_services, reorder).
OrderTaken ==
  [][\A m \in net : /\ m.kind = "order" /\ m.answer = Waiting
                    /\ \A o \in net' : o.by = m.by /\ o.kind = m.kind /\ o.n = m.n => o.answer # Waiting
                    /\ {m.with[i] : i \in DOMAIN m.with} = InQueue(m.of)
                    => Order(m.of)' = m.with]_vars
=============================================================================
