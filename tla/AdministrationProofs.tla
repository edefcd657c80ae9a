------------------------ MODULE AdministrationProofs ------------------------
(***************************************************************************)
(* Proofs about Administration, for any number of services, patents and    *)
(* accounts and any number of requests under way.                          *)
(***************************************************************************)
EXTENDS Administration, TLAPS

-----------------------------------------------------------------------------
(* Requests                                                                *)

Fields == {"by", "kind", "of", "with", "here", "answer", "n"}

RequestsAreRecords == \A m \in net : DOMAIN m = Fields

\* o is a request that was just sent.
Fresh(o, by, kind, of, with) ==
  /\ DOMAIN o = Fields
  /\ o.by = by /\ o.kind = kind /\ o.of = of /\ o.with = with
  /\ o.answer = Waiting

\* o is m, later: the question is the same, and so is who asked, but for a form
\* whose answer the list takes.
SameQuestion(o, m) ==
  /\ DOMAIN o = Fields
  /\ o.kind = m.kind /\ o.of = m.of /\ o.with = m.with
  /\ o.by = m.by \/ (m.by = "form" /\ o.by = "catalog")

Stays(o) == \E m \in net : SameQuestion(o, m) /\ o.answer = m.answer
Fails(o) == \E m \in net : SameQuestion(o, m) /\ o.answer = Refused

LEMMA RequestFresh ==
  ASSUME NEW by, NEW kind, NEW of, NEW with, NEW msgs
  PROVE  Fresh(Request(by, kind, of, with, msgs), by, kind, of, with)
  BY DEF Fresh, Request, Fields, Waiting

LEMMA AndFresh ==
  ASSUME NEW by, NEW kind, NEW of, NEW with, NEW msgs,
         NEW o \in And(msgs, by, kind, of, with)
  PROVE  o \in msgs \/ Fresh(o, by, kind, of, with)
  BY RequestFresh DEF And

LEMMA HereStays ==
  ASSUME RequestsAreRecords, NEW o \in net
  PROVE  Stays(o)
  BY DEF RequestsAreRecords, Stays, SameQuestion

LEMMA WithoutStays ==
  ASSUME RequestsAreRecords, NEW by, NEW o \in Without(by, net)
  PROVE  Stays(o)
  BY DEF RequestsAreRecords, Without, Stays, SameQuestion, Fields

LEMMA DoneAnswers ==
  ASSUME RequestsAreRecords, NEW m \in net, NEW answer, Done(m, answer), NEW o \in net'
  PROVE  \/ Stays(o)
         \/ SameQuestion(o, m) /\ o.answer = answer
  BY DEF RequestsAreRecords, Done, Stays, SameQuestion, Fields

LEMMA LoseFails ==
  ASSUME RequestsAreRecords, NEW m \in net, Lose(m), NEW o \in net'
  PROVE  Stays(o) \/ Fails(o)
  BY DoneAnswers DEF Lose, Fails

-----------------------------------------------------------------------------
(* What the services do with the requests                                  *)

ServiceKinds ==
  {"providers", "addProvider", "editProvider", "deleteProvider", "detect", "check",
   "enabled", "available", "add", "remove", "on", "off", "order"}

QueueKinds == {"enabled", "available", "add", "remove", "on", "off", "order"}

\* What is asked about a queue names a capability.
QueuesAreNamed == \A m \in net : m.kind \in QueueKinds => m.of \in Capabilities

Spoken == Protocols \cup {"absent"}

Forms == [mode : {None, "add", "edit"}, of : Providers \cup {None}, protocol : Protocols, filled : BOOLEAN,
          saving : BOOLEAN, detecting : BOOLEAN]

Catalogs == [open : BOOLEAN, list : [Providers -> Spoken], loading : BOOLEAN, form : Forms]

CatalogType == catalog \in Catalogs

LEMMA FormTypes ==
  /\ NoForm \in Forms /\ [NoForm EXCEPT !.mode = "add"] \in Forms
  /\ \A p \in Providers, protocol \in Protocols :
       [NoForm EXCEPT !.mode = "edit", !.of = p, !.protocol = protocol] \in Forms
  /\ \A f \in Forms : f.protocol \in Protocols
  /\ \A f \in Forms, p \in Providers : [f EXCEPT !.of = p] \in Forms
  /\ \A f \in Forms, protocol \in Protocols : [f EXCEPT !.protocol = protocol] \in Forms
  /\ \A f \in Forms : [f EXCEPT !.filled = TRUE] \in Forms
  /\ \A f \in Forms, b \in BOOLEAN : [f EXCEPT !.saving = b] \in Forms /\ [f EXCEPT !.detecting = b] \in Forms
  BY DEF Forms, NoForm, Protocols

LEMMA CatalogTypes ==
  /\ ClosedCatalog \in Catalogs
  /\ [[ClosedCatalog EXCEPT !.open = TRUE] EXCEPT !.loading = TRUE] \in Catalogs
  /\ \A k \in Catalogs : k.form \in Forms /\ k.list \in [Providers -> Spoken]
  /\ \A k \in Catalogs : [k EXCEPT !.loading = FALSE] \in Catalogs /\ [k EXCEPT !.loading = FALSE].list = k.list
  /\ \A k \in Catalogs, l \in [Providers -> Spoken] : [k EXCEPT !.list = l] \in Catalogs
  /\ \A k \in Catalogs, f \in Forms : [k EXCEPT !.form = f] \in Catalogs /\ [k EXCEPT !.form = f].form = f
  BY FormTypes DEF Catalogs, ClosedCatalog, Spoken

\* What is saved of a service is a protocol.
AskedOfServices(o) ==
  /\ o.kind \in ServiceKinds /\ o.answer = Waiting /\ DOMAIN o = Fields
  /\ o.by # "view"
  /\ o.kind \in QueueKinds => o.of \in Capabilities
  /\ o.kind \in {"addProvider", "editProvider"} => o.with \in Protocols

OfServices(o) == Stays(o) \/ AskedOfServices(o)

LEMMA SectionsAsk ==
  ASSUME NEW c \in Capabilities, NEW msgs, NEW o \in ReadsSection(c, msgs)
  PROVE  o \in msgs \/ AskedOfServices(o)
  BY AndFresh DEF ReadsSection, Fresh, AskedOfServices, ServiceKinds, QueueKinds, Capabilities

LEMMA CatalogAsks ==
  ASSUME NEW msgs, NEW o \in ReadsCatalog(msgs)
  PROVE  o \in msgs \/ AskedOfServices(o)
  BY AndFresh DEF ReadsCatalog, Fresh, AskedOfServices, ServiceKinds, QueueKinds

LEMMA ServicesUserAsks ==
  ASSUME RequestsAreRecords, CatalogType, ServicesUser, NEW o \in net'
  PROVE  OfServices(o)
  <1> USE HereStays DEF OfServices, CatalogStep, SectionStep
  <1>1. CASE OpenCatalog
    BY <1>1, CatalogAsks DEF OpenCatalog
  <1>2. CASE LeaveCatalog
    BY <1>2 DEF LeaveCatalog, OfCatalog, Without, RequestsAreRecords, Stays, SameQuestion, Fields
  <1>3. CASE OpenAddForm \/ CloseForm
    BY <1>3, WithoutStays DEF OpenAddForm, CloseForm
  <1>4. CASE DetectModels
    BY <1>4, AndFresh DEF DetectModels, Fresh, AskedOfServices, ServiceKinds, QueueKinds
  <1>5. CASE SaveForm
    <2>1. PICK kind \in {"addProvider", "editProvider"} :
            net' = And(net, "form", kind, catalog.form.of, catalog.form.protocol)
      BY <1>5 DEF SaveForm
    <2>2. catalog.form.protocol \in Protocols
      BY FormTypes, CatalogTypes DEF CatalogType
    <2>3. QED
      BY <2>1, <2>2, AndFresh DEF Fresh, AskedOfServices, ServiceKinds, QueueKinds
  <1>6. CASE OpenSections
    BY <1>6, SectionsAsk DEF OpenSections, Capabilities
  <1>7. CASE LeaveSections
    BY <1>7, WithoutStays DEF LeaveSections
  <1>8. ASSUME NEW p \in Providers, CheckProvider(p) \/ DeleteProvider(p)
        PROVE  OfServices(o)
    BY <1>8, AndFresh DEF CheckProvider, DeleteProvider, Fresh, AskedOfServices, ServiceKinds, QueueKinds
  <1>9. ASSUME NEW p \in Providers, OpenEditForm(p) \/ \E protocol \in Protocols : FillForm(p, protocol)
        PROVE  OfServices(o)
    BY <1>9 DEF OpenEditForm, FillForm
  <1>10. ASSUME NEW c \in Capabilities, NEW p \in Providers, AddService(c, p)
        PROVE  OfServices(o)
    BY <1>10, AndFresh DEF AddService, Fresh, AskedOfServices, ServiceKinds, QueueKinds, Capabilities
  <1>11. ASSUME NEW c \in Capabilities, NEW i \in 1 .. Cardinality(Providers),
                RemoveService(c, i) \/ ToggleService(c, i) \/ DragStart(c, i) \/ Drop(c, i)
         PROVE  OfServices(o)
    BY <1>11, AndFresh DEF RemoveService, ToggleService, DragStart, Drop, Fresh, AskedOfServices,
                           ServiceKinds, QueueKinds, Capabilities
  <1>12. ASSUME NEW c \in Capabilities, DragEnd(c)
         PROVE  OfServices(o)
    BY <1>12 DEF DragEnd
  <1>13. QED
    BY <1>1, <1>2, <1>3, <1>4, <1>5, <1>6, <1>7, <1>8, <1>9, <1>10, <1>11, <1>12 DEF ServicesUser

\* What was answered to a question of the services.
AnsweredByServices(o) ==
  \E m \in net : /\ SameQuestion(o, m) /\ m.kind \in ServiceKinds /\ o.answer.status # "parsing"
                 /\ m.kind = "providers" /\ o.answer.status = "ok" => o.answer.data = providers

LEMMA ServicesServerAnswers ==
  ASSUME RequestsAreRecords, NEW m \in net, ServesServices(m), NEW o \in net'
  PROVE  Stays(o) \/ AnsweredByServices(o)
  <1> SUFFICES ASSUME NEW answer, Done(m, answer), m.kind \in ServiceKinds, answer.status # "parsing",
                      m.kind = "providers" => answer = Success(providers)
               PROVE  Stays(o) \/ AnsweredByServices(o)
    <2> USE DEF ServiceKinds, Success, Refused
    <2>1. CASE ServesCatalog(m)
      BY <2>1 DEF ServesCatalog
    <2>2. CASE ServesQueue(m)
      BY <2>2 DEF ServesQueue
    <2>3. QED
      BY <2>1, <2>2 DEF ServesServices
  <1>1. QED
    BY DoneAnswers DEF AnsweredByServices, Success

LEMMA ServicesPageAsks ==
  ASSUME RequestsAreRecords, QueuesAreNamed, NEW m \in net, DeliverServices(m), NEW o \in net'
  PROVE  OfServices(o)
  <1> USE HereStays DEF OfServices, CatalogStep, SectionStep
  <1>1. CASE CatalogAnswered(m)
    BY <1>1, CatalogAsks DEF CatalogAnswered
  <1>2. CASE FormAnswered(m)
    <2>1. net' = net \ {m} \/ net' = ReadsCatalog(Without({"form"}, net \ {m}))
      BY <1>2 DEF FormAnswered
    <2>2. ASSUME o \in Without({"form"}, net \ {m})
          PROVE  o \in Without({"form"}, net)
      BY <2>2 DEF Without
    <2>3. QED
      BY <2>1, <2>2, CatalogAsks, WithoutStays
  <1>3. CASE QueueAnswered(m)
    BY <1>3, SectionsAsk DEF QueueAnswered, Loads, QueuesAreNamed, QueueKinds
  <1>4. CASE LoadAnswered(m)
    BY <1>4 DEF LoadAnswered
  <1>5. QED
    BY <1>1, <1>2, <1>3, <1>4 DEF DeliverServices

-----------------------------------------------------------------------------
(* What the videos and the archive do with the requests                    *)

VideoKinds   == {"options", "tasks", "generate"}
ArchiveKinds == {"piece", "rename", "drop", "solutions", "flow", "risk"}

\* o is or was a question of these kinds, or nothing was answered to it.
OfKinds(o, kinds) ==
  \/ Stays(o) \/ Fails(o)
  \/ /\ o.kind \in kinds /\ o.by # "view" /\ o.answer = Waiting /\ DOMAIN o = Fields
     /\ o.kind = "rename" => o.with \in Renames
  \/ \E m \in net : SameQuestion(o, m) /\ m.kind \in kinds /\ o.answer.status # "parsing"

LEMMA AndOfKinds ==
  ASSUME NEW kinds, NEW by, NEW kind \in kinds, NEW of, NEW with, NEW msgs,
         NEW o \in And(msgs, by, kind, of, with), by # "view", kind = "rename" => with \in Renames
  PROVE  o \in msgs \/ OfKinds(o, kinds)
  BY AndFresh DEF Fresh, OfKinds

LEMMA StaysOfKinds ==
  ASSUME RequestsAreRecords, NEW kinds, NEW o \in net
  PROVE  OfKinds(o, kinds)
  BY HereStays DEF OfKinds

LEMMA VideosAsk ==
  ASSUME RequestsAreRecords, VideosUser, NEW o \in net'
  PROVE  OfKinds(o, VideoKinds)
  <1> USE StaysOfKinds, AndOfKinds DEF VideoKinds, VideoStep, ReadsTasks
  <1>1. CASE OpenVideo
    BY <1>1 DEF OpenVideo
  <1>2. CASE LeaveVideo
    BY <1>2, WithoutStays DEF OfKinds, LeaveVideo
  <1>3. CASE Generate
    BY <1>3 DEF Generate
  <1>4. CASE PollVideo
    BY <1>4 DEF PollVideo
  <1>5. ASSUME NEW t \in Tasks, SelectTask(t)
        PROVE  OfKinds(o, VideoKinds)
    BY <1>5 DEF SelectTask
  <1>6. QED
    BY <1>1, <1>2, <1>3, <1>4, <1>5 DEF VideosUser

LEMMA VideosServerAnswers ==
  ASSUME RequestsAreRecords, VideosServer \/ \E m \in net : ServesVideos(m), NEW o \in net'
  PROVE  OfKinds(o, VideoKinds)
  <1> USE DEF OfKinds, VideoKinds
  <1>1. CASE Crash
    BY <1>1 DEF Crash, RequestsAreRecords, Stays, Fails, SameQuestion, Fields
  <1>2. ASSUME NEW t \in Tasks, PollRound \/ RemoteEnds(t) \/ Ages(t) \/ Query(t) \/ QueryFails(t)
        PROVE  OfKinds(o, VideoKinds)
    BY <1>2, HereStays DEF PollRound, RemoteEnds, Ages, Query, QueryFails
  <1>3. CASE PollRound
    BY <1>3, HereStays DEF PollRound
  <1>4. ASSUME NEW m \in net, ServesVideos(m)
        PROVE  OfKinds(o, VideoKinds)
    <2>1. \E answer : Done(m, answer) /\ m.kind \in VideoKinds /\ answer.status # "parsing"
      BY <1>4 DEF ServesVideos, StartsTask, EndsStart, Success, Refused, Creating
    <2>2. QED
      BY <2>1, DoneAnswers
  <1>5. QED
    BY <1>1, <1>2, <1>3, <1>4 DEF VideosServer

LEMMA VideoPageAsks ==
  ASSUME RequestsAreRecords, NEW m \in net, DeliverVideos(m), NEW o \in net'
  PROVE  OfKinds(o, VideoKinds)
  <1>1. net' = net \ {m} \/ net' = And(net \ {m}, "video form", "tasks", None, None)
    BY DEF DeliverVideos, VideoStep, ReadsTasks
  <1>2. CASE net' = And(net \ {m}, "video form", "tasks", None, None)
    BY <1>2, StaysOfKinds, AndOfKinds DEF VideoKinds
  <1>3. QED
    BY <1>1, <1>2, StaysOfKinds

LEMMA ArchiveAsks ==
  ASSUME RequestsAreRecords, ArchiveUser \/ Appears, NEW o \in net'
  PROVE  OfKinds(o, ArchiveKinds)
  <1> USE StaysOfKinds, AndOfKinds DEF ArchiveKinds, ArchiveStep, ReadsPiece
  <1>1. CASE OpenArchive \/ LoadMore
    BY <1>1 DEF OpenArchive, LoadMore
  <1>2. CASE LeaveArchive \/ BackToList
    BY <1>2, WithoutStays DEF OfKinds, LeaveArchive, BackToList
  <1>3. CASE CancelEdit \/ AnswerDrop
    BY <1>3 DEF CancelEdit, AnswerDrop
  <1>4. ASSUME NEW title \in Renames, SaveTitle(title)
        PROVE  OfKinds(o, ArchiveKinds)
    BY <1>4 DEF SaveTitle
  <1>5. ASSUME NEW a \in Analyses, StartEdit(a) \/ AskDrop(a)
        PROVE  OfKinds(o, ArchiveKinds)
    BY <1>5 DEF StartEdit, AskDrop
  <1>6. ASSUME NEW a \in Analyses, OpenTask(a)
        PROVE  OfKinds(o, ArchiveKinds)
    BY <1>6 DEF OpenTask
  <1>7. CASE Appears
    BY <1>7 DEF Appears
  <1>8. QED
    BY <1>1, <1>2, <1>3, <1>4, <1>5, <1>6, <1>7 DEF ArchiveUser

LEMMA ArchiveServerAnswers ==
  ASSUME RequestsAreRecords, NEW m \in net, ServesArchive(m), NEW o \in net'
  PROVE  OfKinds(o, ArchiveKinds)
  <1>1. \E answer : Done(m, answer) /\ m.kind \in ArchiveKinds /\ answer.status # "parsing"
    BY DEF ServesArchive, ArchiveKinds, Success, Refused
  <1>2. QED
    BY <1>1, DoneAnswers DEF OfKinds

LEMMA ArchivePageAsks ==
  ASSUME RequestsAreRecords, NEW m \in net, DeliverArchive(m), NEW o \in net'
  PROVE  OfKinds(o, ArchiveKinds)
  <1> USE HereStays DEF OfKinds, ArchiveKinds, ArchiveStep
  <1>1. CASE TaskRead(m)
    BY <1>1, RequestFresh DEF TaskRead, Fresh
  <1>2. CASE RisksRead(m) \/ LatestRead(m) \/ PieceRead(m) \/ Renamed(m) \/ TaskDropped(m)
    BY <1>2 DEF RisksRead, LatestRead, PieceRead, Renamed, TaskDropped
  <1>3. QED
    BY <1>1, <1>2 DEF DeliverArchive

-----------------------------------------------------------------------------
(* What the patents do with the requests                                   *)

PatentKinds == {"patents", "createPatent", "updatePatent", "deletePatent", "upload"}

\* The page that searches asks for lists only.
OfPatents(o) ==
  \/ Stays(o)
  \/ /\ o.kind \in PatentKinds /\ o.answer = Waiting /\ DOMAIN o = Fields
     /\ o.by = "view" => o.kind = "patents"

\* A list tells the page of the query, and only an upload is a file being read.
AnsweredByPatents(o) ==
  \E m \in net : /\ SameQuestion(o, m) /\ m.kind \in PatentKinds
                 /\ m.kind = "patents" /\ o.answer.status = "ok" => o.answer.data.page = o.with.page
                 /\ o.answer.status = "parsing" => m.kind = "upload"

\* What is a file being read is an upload.
OnlyFilesAreParsed == \A m \in net : m.answer.status = "parsing" => m.kind = "upload"

LEMMA AndOfPatents ==
  ASSUME NEW by, NEW kind \in PatentKinds, NEW of, NEW with, NEW msgs,
         NEW o \in And(msgs, by, kind, of, with), by = "view" => kind = "patents"
  PROVE  o \in msgs \/ OfPatents(o)
  BY AndFresh DEF Fresh, OfPatents

LEMMA StaysOfPatents ==
  ASSUME RequestsAreRecords, NEW o \in net
  PROVE  OfPatents(o)
  BY HereStays DEF OfPatents

LEMMA DeskAsks ==
  ASSUME NEW msgs, NEW kind \in PatentKinds, NEW of, NEW with, NEW o \in And(msgs, "desk", kind, of, with)
  PROVE  o \in msgs \/ OfPatents(o)
  BY AndOfPatents

LEMMA DeskReads ==
  ASSUME RequestsAreRecords, NEW k, NEW o \in ReadsDesk(k, net)
  PROVE  OfPatents(o)
  BY StaysOfPatents, DeskAsks DEF ReadsDesk, PatentKinds

LEMMA DeskChanges ==
  ASSUME RequestsAreRecords, NEW kind \in PatentKinds, NEW of, NEW title, NEW number,
         NEW o \in Changes(kind, of, title, number)
  PROVE  OfPatents(o)
  BY StaysOfPatents, DeskAsks DEF Changes

LEMMA ViewReads ==
  ASSUME RequestsAreRecords, NEW k, NEW n, ReadsView(k, n), NEW o \in net'
  PROVE  OfPatents(o)
  <1>1. net' = And(net, "view", "patents", 0, [query |-> k.typed, page |-> n])
    BY DEF ReadsView, ViewStep
  <1>2. QED
    BY <1>1, StaysOfPatents, AndOfPatents DEF PatentKinds

LEMMA PatentsUserAsks ==
  ASSUME RequestsAreRecords, PatentsUser, NEW o \in net'
  PROVE  OfPatents(o)
  <1> USE StaysOfPatents DEF PatentKinds, DeskStep, ViewStep
  <1>1. CASE OpenDesk
    BY <1>1, DeskReads DEF OpenDesk
  <1>2. CASE LeaveDesk \/ LeaveView
    BY <1>2, WithoutStays DEF LeaveDesk, LeaveView, OfPatents
  <1>3. CASE OpenCreate \/ CloseDesk \/ ToastEnds \/ CloseDetail
    BY <1>3 DEF OpenCreate, CloseDesk, ToastEnds, CloseDetail
  <1>4. CASE SaveDesk
    BY <1>4, DeskChanges DEF SaveDesk
  <1>5. CASE OpenView \/ Search \/ Retry
    BY <1>5, ViewReads DEF OpenView, Search, Retry
  <1>6. ASSUME NEW q \in Queries, SearchDesk(q) \/ Type(q)
        PROVE  OfPatents(o)
    BY <1>6, DeskReads DEF SearchDesk, Type, Shows
  <1>7. ASSUME NEW title \in Titles, FillDesk(title)
        PROVE  OfPatents(o)
    BY <1>7 DEF FillDesk
  <1>8. ASSUME NEW number \in Numbers \cup {None}, Upload(number)
        PROVE  OfPatents(o)
    BY <1>8, DeskChanges DEF Upload
  <1>9. ASSUME NEW i \in 1 .. PageSize, OpenEdit(i) \/ MarkDelete(i) \/ Select(i)
        PROVE  OfPatents(o)
    BY <1>9 DEF OpenEdit, MarkDelete, Select
  <1>10. ASSUME NEW i \in 1 .. PageSize, ConfirmDelete(i)
         PROVE  OfPatents(o)
    BY <1>10, DeskChanges DEF ConfirmDelete
  <1>11. ASSUME NEW n \in 1 .. Cardinality(Patents), TurnDesk(n)
         PROVE  OfPatents(o)
    BY <1>11, DeskReads DEF TurnDesk, Shows
  <1>12. ASSUME NEW n \in 1 .. Cardinality(Patents), TurnView(n)
         PROVE  OfPatents(o)
    BY <1>12, ViewReads DEF TurnView
  <1>13. QED
    BY <1>1, <1>2, <1>3, <1>4, <1>5, <1>6, <1>7, <1>8, <1>9, <1>10, <1>11, <1>12 DEF PatentsUser

LEMMA PatentsServerAnswers ==
  ASSUME RequestsAreRecords, OnlyFilesAreParsed, NEW m \in net, ServesPatents(m), NEW o \in net'
  PROVE  Stays(o) \/ AnsweredByPatents(o)
  <1> SUFFICES ASSUME NEW answer, Done(m, answer), m.kind \in PatentKinds,
                      m.kind = "patents" /\ answer.status = "ok" => answer.data.page = m.with.page,
                      answer.status = "parsing" => m.kind = "upload"
               PROVE  Stays(o) \/ AnsweredByPatents(o)
    <2> USE DEF PatentKinds, Success, Refused, Parsing
    <2>1. CASE EndsUpload(m)
      BY <2>1 DEF EndsUpload, OnlyFilesAreParsed
    <2>2. CASE m.kind = "patents" /\ Done(m, Success(Page(m.with.query, m.with.page)))
      BY <2>2 DEF Page
    <2>3. CASE /\ m.kind \in {"createPatent", "updatePatent", "deletePatent"}
               /\ \E answer \in {Success("created"), Success("updated"), Success("deleted"), Refused} :
                    Done(m, answer)
      BY <2>3
    <2>4. CASE m.kind = "upload" /\ Done(m, Parsing)
      BY <2>4
    <2>5. QED
      BY <2>1, <2>2, <2>3, <2>4 DEF ServesPatents
  <1>1. QED
    BY DoneAnswers DEF AnsweredByPatents, SameQuestion

LEMMA PatentPagesAsk ==
  ASSUME RequestsAreRecords, NEW m \in net, DeliverPatents(m), NEW o \in net'
  PROVE  OfPatents(o)
  <1> USE StaysOfPatents DEF DeskStep, ViewStep
  <1>1. CASE DeskAnswered(m)
    <2>1. \/ net' = net \ {m}
          \/ net' = And(net \ {m}, "desk", "patents", 0, [query |-> m.with.query, page |-> m.with.page])
      BY <1>1 DEF DeskAnswered
    <2>2. QED
      BY <2>1, DeskAsks DEF PatentKinds
  <1>2. CASE ViewAnswered(m)
    BY <1>2 DEF ViewAnswered
  <1>3. QED
    BY <1>1, <1>2 DEF DeliverPatents

-----------------------------------------------------------------------------
(* What the accounts do with the requests                                  *)

UserKinds == {"accounts", "change", "edit", "delete", "notice"}

\* Only accounts are asked to be deleted.
OfUsers(o) ==
  \/ Stays(o)
  \/ /\ o.kind \in UserKinds /\ o.by # "view" /\ o.answer = Waiting /\ DOMAIN o = Fields
     /\ o.kind = "delete" => o.of \in Accounts

\* What was deleted is not there.
AnsweredByUsers(o) ==
  \E m \in net : /\ SameQuestion(o, m) /\ m.kind \in UserKinds /\ o.answer.status # "parsing"
                 /\ m.kind = "delete" /\ o.answer.status = "ok" => accounts' = [accounts EXCEPT ![m.of] = Gone]

\* What is selected and what a deed is about are accounts.
ChosenAreAccounts ==
  /\ DOMAIN people = {"open", "list", "loading", "selected", "deed", "dialog", "saving", "sending"}
  /\ people.selected \subseteq Accounts
  /\ people.deed = NoDeed \/ (people.deed.kind \in Deeds /\ people.deed.of \subseteq Accounts)

LEMMA AndOfUsers ==
  ASSUME NEW by, NEW kind \in UserKinds, NEW of, NEW with, NEW msgs,
         NEW o \in And(msgs, by, kind, of, with), by # "view", kind # "delete"
  PROVE  o \in msgs \/ OfUsers(o)
  BY AndFresh DEF Fresh, OfUsers

LEMMA StaysOfUsers ==
  ASSUME RequestsAreRecords, NEW o \in net
  PROVE  OfUsers(o)
  BY HereStays DEF OfUsers

LEMMA PeopleUserAsks ==
  ASSUME RequestsAreRecords, ChosenAreAccounts, PeopleUser, NEW o \in net'
  PROVE  OfUsers(o)
  <1> USE StaysOfUsers, AndOfUsers DEF UserKinds, PeopleStep, ReadsAccounts
  <1>1. CASE OpenPeople
    BY <1>1 DEF OpenPeople
  <1>2. CASE LeavePeople
    BY <1>2, WithoutStays DEF LeavePeople, OfUsers
  <1>3. CASE ToggleSelectAll \/ ClearSelection \/ CancelDeed \/ CloseDialog
    BY <1>3 DEF ToggleSelectAll, ClearSelection, CancelDeed, CloseDialog
  <1>4. CASE ConfirmDeed
    <2>1. PICK with : net' = net \cup {Request("people", people.deed.kind, u, with, net) : u \in people.deed.of}
      BY <1>4 DEF ConfirmDeed
    <2>2. people.deed.kind \in Deeds /\ people.deed.of \subseteq Accounts
      BY <1>4 DEF ConfirmDeed, ChosenAreAccounts
    <2>3. ASSUME NEW u \in people.deed.of, o = Request("people", people.deed.kind, u, with, net)
          PROVE  OfUsers(o)
      BY <2>2, <2>3, RequestFresh DEF Fresh, OfUsers, Deeds
    <2>4. QED
      BY <2>1, <2>3
  <1>5. CASE SaveEdit \/ SendNotice
    BY <1>5 DEF SaveEdit, SendNotice
  <1>6. ASSUME NEW kind, NEW of, NEW active, NEW batch, Asks(kind, of, active, batch)
        PROVE  OfUsers(o)
    BY <1>6 DEF Asks
  <1>7. ASSUME NEW active, NEW super, FillEdit(active, super)
        PROVE  OfUsers(o)
    BY <1>7 DEF FillEdit
  <1>8. ASSUME NEW u, NEW kind, ToggleSelect(u) \/ OpenDialog(kind, u)
        PROVE  OfUsers(o)
    BY <1>8 DEF ToggleSelect, OpenDialog
  <1>9. QED
    BY <1>1, <1>2, <1>3, <1>4, <1>5, <1>6, <1>7, <1>8 DEF PeopleUser, AskBatch, AskOne

LEMMA UsersServerAnswers ==
  ASSUME RequestsAreRecords, NEW m \in net, ServesUsers(m), NEW o \in net'
  PROVE  Stays(o) \/ AnsweredByUsers(o)
  <1>1. \E answer : /\ Done(m, answer) /\ m.kind \in UserKinds /\ answer.status # "parsing"
                    /\ m.kind = "delete" /\ answer.status = "ok" => accounts' = [accounts EXCEPT ![m.of] = Gone]
    BY DEF ServesUsers, UserKinds, Success, Refused, Stranger, Deeds
  <1>2. QED
    BY <1>1, DoneAnswers DEF AnsweredByUsers

LEMMA PeoplePageAsks ==
  ASSUME RequestsAreRecords, NEW m \in net, DeliverUsers(m), NEW o \in net'
  PROVE  OfUsers(o)
  <1> USE StaysOfUsers, AndOfUsers DEF UserKinds, PeopleStep, ReadsAccounts
  <1>1. CASE DeedAnswered(m)
    <2>1. ASSUME NEW p \in net, o = [p EXCEPT !.here = FALSE]
          PROVE  OfUsers(o)
      BY <2>1 DEF OfUsers, Stays, SameQuestion, RequestsAreRecords, Fields
    <2>2. QED
      <3>1. CASE net' = ReadsAccounts(net \ Same(m))
        BY <3>1
      <3>2. CASE net' = (net \ Same(m)) \cup {[p EXCEPT !.here = FALSE] : p \in Same(m) \ {m}}
        BY <3>2, <2>1 DEF Same
      <3>3. QED
        BY <1>1, <3>1, <3>2 DEF DeedAnswered
  <1>2. CASE DialogAnswered(m)
    BY <1>2 DEF DialogAnswered
  <1>3. QED
    BY <1>1, <1>2 DEF DeliverUsers

-----------------------------------------------------------------------------
(* The requests, whoever takes a step                                      *)

\* What is always so of a request: what is asked about a queue, saved of a service,
\* and deleted is one; the page that searches only reads lists; a list tells the
\* page that was asked for; only uploads are files being read.
RequestOK(m) ==
  /\ DOMAIN m = Fields
  /\ m.kind \in QueueKinds => m.of \in Capabilities
  /\ m.kind \in {"addProvider", "editProvider"} => m.with \in Protocols
  /\ m.kind = "providers" /\ Ok(m) => m.answer.data \in [Providers -> Spoken]
  /\ m.by = "view" => m.kind = "patents"
  /\ m.kind = "patents" /\ Ok(m) => m.answer.data.page = m.with.page
  /\ m.answer.status = "parsing" => m.kind = "upload"
  /\ m.kind = "delete" => m.of \in Accounts
  /\ m.kind = "rename" => m.with \in Renames

RequestsOK == \A m \in net : RequestOK(m)

\* That an account was deleted was told before, or is told when it is.
DeletionTold(o) ==
  o.kind = "delete" /\ Ok(o) => Stays(o) \/ accounts' = [accounts EXCEPT ![o.of] = Gone]

Sound(o) == RequestOK(o) /\ DeletionTold(o)

LEMMA StaysOK ==
  ASSUME RequestsOK, NEW o, Stays(o) \/ Fails(o)
  PROVE  Sound(o)
  <1>1. PICK m \in net : SameQuestion(o, m) /\ (o.answer = m.answer \/ o.answer = Refused)
    BY DEF Stays, Fails
  <1>2. RequestOK(m)
    BY DEF RequestsOK
  <1>3. m.kind = "providers" => m.by # "view"
    BY <1>2 DEF RequestOK
  <1>4. RequestOK(o)
    BY <1>1, <1>2 DEF RequestOK, SameQuestion, Ok, Refused
  <1>5. Stays(o) \/ ~Ok(o)
    BY DEF Fails, Ok, Refused
  <1>6. QED
    BY <1>4, <1>5 DEF Sound, DeletionTold

LEMMA OfKindsOK ==
  ASSUME RequestsOK, NEW o, OfKinds(o, VideoKinds) \/ OfKinds(o, ArchiveKinds)
  PROVE  Sound(o)
  <1>1. CASE /\ o.kind \in VideoKinds \cup ArchiveKinds /\ o.by # "view" /\ o.answer = Waiting /\ DOMAIN o = Fields
             /\ o.kind = "rename" => o.with \in Renames
    BY <1>1 DEF Sound, DeletionTold, RequestOK, VideoKinds, ArchiveKinds, QueueKinds, Waiting
  <1>2. ASSUME NEW m \in net, SameQuestion(o, m), m.kind \in VideoKinds \cup ArchiveKinds,
               o.answer.status # "parsing"
        PROVE  Sound(o)
    <2>1. RequestOK(m)
      BY DEF RequestsOK
    <2>2. QED
      BY <1>2, <2>1 DEF Sound, DeletionTold, RequestOK, SameQuestion, VideoKinds, ArchiveKinds, QueueKinds
  <1>3. QED
    BY <1>1, <1>2, StaysOK DEF OfKinds

LEMMA OfServicesOK ==
  ASSUME RequestsOK, providers \in [Providers -> Spoken], NEW o, OfServices(o) \/ AnsweredByServices(o)
  PROVE  Sound(o)
  <1>1. CASE AskedOfServices(o)
    BY <1>1 DEF Sound, DeletionTold, AskedOfServices, RequestOK, ServiceKinds, Waiting, Ok
  <1>2. CASE AnsweredByServices(o)
    <2>1. PICK m \in net : /\ SameQuestion(o, m) /\ m.kind \in ServiceKinds /\ o.answer.status # "parsing"
                           /\ m.kind = "providers" /\ o.answer.status = "ok" => o.answer.data = providers
      BY <1>2 DEF AnsweredByServices
    <2>2. RequestOK(m)
      BY DEF RequestsOK
    <2>3. QED
      BY <2>1, <2>2 DEF Sound, DeletionTold, RequestOK, SameQuestion, ServiceKinds, Ok
  <1>3. QED
    BY <1>1, <1>2, StaysOK DEF OfServices

LEMMA OfPatentsOK ==
  ASSUME RequestsOK, NEW o, OfPatents(o) \/ AnsweredByPatents(o)
  PROVE  Sound(o)
  <1>1. CASE /\ o.kind \in PatentKinds /\ o.answer = Waiting /\ DOMAIN o = Fields
             /\ o.by = "view" => o.kind = "patents"
    BY <1>1 DEF Sound, DeletionTold, RequestOK, PatentKinds, QueueKinds, Waiting, Ok
  <1>2. CASE AnsweredByPatents(o)
    <2>1. PICK m \in net :
            /\ SameQuestion(o, m) /\ m.kind \in PatentKinds
            /\ m.kind = "patents" /\ o.answer.status = "ok" => o.answer.data.page = o.with.page
            /\ o.answer.status = "parsing" => m.kind = "upload"
      BY <1>2 DEF AnsweredByPatents
    <2>2. RequestOK(m)
      BY DEF RequestsOK
    <2>3. QED
      BY <2>1, <2>2 DEF Sound, DeletionTold, RequestOK, SameQuestion, PatentKinds, QueueKinds, Ok
  <1>3. QED
    BY <1>1, <1>2, StaysOK DEF OfPatents

LEMMA OfUsersOK ==
  ASSUME RequestsOK, NEW o, OfUsers(o) \/ AnsweredByUsers(o)
  PROVE  Sound(o)
  <1>1. CASE /\ o.kind \in UserKinds /\ o.by # "view" /\ o.answer = Waiting /\ DOMAIN o = Fields
             /\ o.kind = "delete" => o.of \in Accounts
    BY <1>1 DEF Sound, DeletionTold, RequestOK, UserKinds, QueueKinds, Waiting, Ok
  <1>2. CASE AnsweredByUsers(o)
    <2>1. PICK m \in net :
            /\ SameQuestion(o, m) /\ m.kind \in UserKinds /\ o.answer.status # "parsing"
            /\ m.kind = "delete" /\ o.answer.status = "ok" => accounts' = [accounts EXCEPT ![m.of] = Gone]
      BY <1>2 DEF AnsweredByUsers
    <2>2. RequestOK(m)
      BY DEF RequestsOK
    <2>3. QED
      BY <2>1, <2>2 DEF Sound, DeletionTold, RequestOK, SameQuestion, UserKinds, QueueKinds, Ok
  <1>3. QED
    BY <1>1, <1>2, StaysOK DEF OfUsers

LEMMA RequestsStep ==
  ASSUME RequestsOK, providers \in [Providers -> Spoken], CatalogType, ChosenAreAccounts, [Next]_vars
  PROVE  RequestsOK' /\ \A o \in net' : DeletionTold(o)
  <1> SUFFICES ASSUME NEW o \in net'
               PROVE  Sound(o)
    BY DEF Sound, RequestsOK, RequestOK, Ok
  <1>1. RequestsAreRecords /\ QueuesAreNamed /\ OnlyFilesAreParsed
    BY DEF RequestsOK, RequestOK, RequestsAreRecords, QueuesAreNamed, OnlyFilesAreParsed
  <1>2. CASE Users
    <2>1. CASE ServicesUser
      BY <2>1, <1>1, ServicesUserAsks, OfServicesOK
    <2>2. CASE VideosUser
      BY <2>2, <1>1, VideosAsk, OfKindsOK
    <2>3. CASE PatentsUser
      BY <2>3, <1>1, PatentsUserAsks, OfPatentsOK
    <2>4. CASE PeopleUser
      BY <2>4, <1>1, PeopleUserAsks, OfUsersOK
    <2>5. CASE ArchiveUser
      BY <2>5, <1>1, ArchiveAsks, OfKindsOK
    <2>6. QED
      BY <1>2, <2>1, <2>2, <2>3, <2>4, <2>5 DEF Users, OnServices, OnVideos, OnPatents, OnUsers, OnArchive
  <1>3. ASSUME NEW m \in net, Serve(m)
        PROVE  Sound(o)
    <2>1. CASE ServesServices(m)
      BY <2>1, <1>1, ServicesServerAnswers, OfServicesOK DEF OfServices
    <2>2. CASE ServesVideos(m)
      BY <2>2, <1>1, VideosServerAnswers, OfKindsOK
    <2>3. CASE ServesPatents(m)
      BY <2>3, <1>1, PatentsServerAnswers, OfPatentsOK DEF OfPatents
    <2>4. CASE ServesUsers(m)
      BY <2>4, <1>1, UsersServerAnswers, OfUsersOK DEF OfUsers
    <2>5. CASE ServesArchive(m)
      BY <2>5, <1>1, ArchiveServerAnswers, OfKindsOK
    <2>6. QED
      BY <1>3, <2>1, <2>2, <2>3, <2>4, <2>5 DEF Serve, OnServices, OnVideos, OnPatents, OnUsers, OnArchive
  <1>4. ASSUME NEW m \in net, Deliver(m)
        PROVE  Sound(o)
    <2>1. CASE DeliverServices(m)
      BY <2>1, <1>1, ServicesPageAsks, OfServicesOK
    <2>2. CASE DeliverVideos(m)
      BY <2>2, <1>1, VideoPageAsks, OfKindsOK
    <2>3. CASE DeliverPatents(m)
      BY <2>3, <1>1, PatentPagesAsk, OfPatentsOK
    <2>4. CASE DeliverUsers(m)
      BY <2>4, <1>1, PeoplePageAsks, OfUsersOK
    <2>5. CASE DeliverArchive(m)
      BY <2>5, <1>1, ArchivePageAsks, OfKindsOK
    <2>6. QED
      BY <1>4, <2>1, <2>2, <2>3, <2>4, <2>5 DEF Deliver, OnServices, OnVideos, OnPatents, OnUsers, OnArchive
  <1>5. CASE VideosServer
    BY <1>5, <1>1, VideosServerAnswers, OfKindsOK
  <1>6. CASE Appears
    BY <1>6, <1>1, ArchiveAsks, OfKindsOK
  <1>7. ASSUME NEW m \in net, Lose(m)
        PROVE  Sound(o)
    BY <1>7, <1>1, LoseFails, StaysOK
  <1>8. CASE UNCHANGED vars
    BY <1>8, <1>1, HereStays, StaysOK DEF vars
  <1>9. QED
    BY <1>2, <1>3, <1>4, <1>5, <1>6, <1>7, <1>8 DEF Next, OnVideos, OnArchive

-----------------------------------------------------------------------------
(* Queues hold services                                                    *)

\* The rows of the queues, and what a row says.
QueueRows ==
  /\ DOMAIN queue = Capabilities
  /\ \A c \in Capabilities : DOMAIN queue[c] = Providers
  /\ \A c \in Capabilities, p \in Providers : DOMAIN queue[c][p] = {"rank", "on"}

ServicesOK ==
  /\ providers \in [Providers -> Spoken]
  /\ CatalogType
  /\ QueueRows
  /\ QueuesHoldServices

\* What the catalogue is told to hold is what some page of it may hold.
LEMMA CatalogStays ==
  ASSUME CatalogType, UNCHANGED catalog
  PROVE  CatalogType'
  BY DEF CatalogType

LEMMA ServesCatalogKeeps ==
  ASSUME RequestsOK, ServicesOK, NEW m \in net, ServesCatalog(m)
  PROVE  /\ providers' \in [Providers -> Spoken]
         /\ QueueRows' /\ QueuesHoldServices'
  <1> USE DEF ServicesOK
  <1>1. CASE UNCHANGED <<providers, queue>>
    BY <1>1 DEF QueueRows, QueuesHoldServices, InQueue, Known
  <1>2. CASE /\ m.kind \in {"addProvider", "editProvider"}
             /\ providers' = [providers EXCEPT ![m.of] = m.with]
             /\ UNCHANGED queue
    <2>1. m.with \in Protocols
      BY <1>2 DEF RequestsOK, RequestOK
    <2>2. \A p \in Providers : Known(p) => Known(p)'
      BY <1>2, <2>1 DEF Known, Protocols
    <2>3. QED
      BY <1>2, <2>1, <2>2 DEF QueueRows, QueuesHoldServices, InQueue, Spoken
  <1>3. CASE /\ providers' = [providers EXCEPT ![m.of] = "absent"]
             /\ queue' = Dropped(m.of)
    <2>1. QueueRows'
      BY <1>3 DEF QueueRows, Dropped, Out
    <2>2. ASSUME NEW c \in Capabilities, NEW p \in InQueue(c)'
          PROVE  p \in InQueue(c) /\ p # m.of
      BY <1>3, <2>2 DEF InQueue, Dropped, Out, QueueRows
    <2>3. ASSUME NEW p \in Providers, p # m.of, Known(p)
          PROVE  Known(p)'
      BY <1>3, <2>3 DEF Known
    <2>4. QueuesHoldServices'
      BY <2>2, <2>3 DEF QueuesHoldServices, InQueue
    <2>5. QED
      BY <1>3, <2>1, <2>4 DEF Spoken
  <1>4. QED
    BY <1>1, <1>2, <1>3 DEF ServesCatalog

LEMMA ServesQueueKeeps ==
  ASSUME RequestsOK, ServicesOK, NEW m \in net, ServesQueue(m)
  PROVE  /\ providers' \in [Providers -> Spoken]
         /\ QueueRows' /\ QueuesHoldServices'
  <1> DEFINE c == m.of
             p == m.with
  <1> USE DEF ServicesOK
  <1>0. UNCHANGED providers /\ \A q : Known(q)' = Known(q)
    BY DEF ServesQueue, Known
  <1>1. CASE UNCHANGED queue
    BY <1>0, <1>1 DEF QueueRows, QueuesHoldServices, InQueue
  <1>2. CASE Known(p) /\ queue' = [queue EXCEPT ![c][p] = [rank |-> NextRank(c), on |-> TRUE]]
    <2>1. QueueRows'
      BY <1>2 DEF QueueRows
    <2>2. ASSUME NEW d \in Capabilities, NEW q \in InQueue(d)', q # p
          PROVE  q \in InQueue(d)
      BY <1>2, <2>2 DEF InQueue, QueueRows
    <2>3. QED
      BY <1>0, <1>2, <2>1, <2>2 DEF QueuesHoldServices
  <1>3. CASE queue' = [queue EXCEPT ![c][p] = Out]
    <2>1. QueueRows'
      BY <1>3 DEF QueueRows, Out
    <2>2. ASSUME NEW d \in Capabilities, NEW q \in InQueue(d)'
          PROVE  q \in InQueue(d)
      BY <1>3, <2>2 DEF InQueue, QueueRows, Out
    <2>3. QED
      BY <1>0, <2>1, <2>2 DEF QueuesHoldServices
  <1>4. ASSUME NEW on, queue' = [queue EXCEPT ![c][p].on = on]
        PROVE  QueueRows' /\ QueuesHoldServices'
    <2>1. QueueRows'
      BY <1>4 DEF QueueRows
    <2>2. ASSUME NEW d \in Capabilities, NEW q \in InQueue(d)'
          PROVE  q \in InQueue(d)
      BY <1>4, <2>2 DEF InQueue, QueueRows
    <2>3. QED
      BY <1>0, <2>1, <2>2 DEF QueuesHoldServices
  <1>5. CASE (\A i \in 1 .. Len(p) : Known(p[i])) /\ queue' = [queue EXCEPT ![c] = Placed(c, p)]
    <2>1. QueueRows'
      BY <1>5 DEF QueueRows, Placed, Out
    <2>2. ASSUME NEW d \in Capabilities, NEW q \in InQueue(d)', d # c
          PROVE  q \in InQueue(d)
      BY <1>5, <2>2 DEF InQueue, QueueRows
    <2>3. ASSUME NEW d \in Capabilities, NEW q \in InQueue(d)', d = c
          PROVE  Known(q)
      BY <1>5, <2>3 DEF InQueue, QueueRows, Placed, Out
    <2>4. QED
      BY <1>0, <2>1, <2>2, <2>3 DEF QueuesHoldServices
  <1>6. QED
    BY <1>0, <1>1, <1>2, <1>3, <1>4, <1>5 DEF ServesQueue

LEMMA FormKeeps ==
  ASSUME CatalogType, NEW f \in Forms, catalog' = [catalog EXCEPT !.form = f]
  PROVE  CatalogType'
  BY CatalogTypes DEF CatalogType

LEMMA CatalogUserKeeps ==
  ASSUME CatalogType, ServicesUser
  PROVE  CatalogType' /\ UNCHANGED <<providers, queue>>
  <1>1. UNCHANGED <<providers, queue>>
    BY DEF ServicesUser, CatalogStep, SectionStep, Loads, OpenCatalog, LeaveCatalog, OpenAddForm, CloseForm,
           DetectModels, SaveForm, OpenSections, LeaveSections, CheckProvider, DeleteProvider, OpenEditForm,
           FillForm, AddService, RemoveService, ToggleService, DragStart, DragEnd, Drop
  <1>2. CASE OpenCatalog \/ LeaveCatalog
    BY <1>2, CatalogTypes DEF OpenCatalog, LeaveCatalog, CatalogStep, CatalogType
  <1>3. CASE OpenAddForm \/ CloseForm
    <2>1. PICK f : /\ catalog' = [catalog EXCEPT !.form = f]
                   /\ f = [NoForm EXCEPT !.mode = "add"] \/ f = NoForm
      BY <1>3 DEF OpenAddForm, CloseForm, CatalogStep
    <2>2. f \in Forms
      BY <2>1, FormTypes
    <2>3. QED
      BY <1>1, <2>1, <2>2, FormKeeps
  <1>4. CASE DetectModels \/ SaveForm
    <2>1. PICK b \in BOOLEAN :
            \/ catalog' = [catalog EXCEPT !.form = [catalog.form EXCEPT !.saving = b]]
            \/ catalog' = [catalog EXCEPT !.form = [catalog.form EXCEPT !.detecting = b]]
      BY <1>4 DEF DetectModels, SaveForm, CatalogStep
    <2>2. catalog.form \in Forms
      BY CatalogTypes DEF CatalogType
    <2>3. QED
      BY <1>1, <2>1, <2>2, FormTypes, FormKeeps
  <1>5. CASE OpenSections \/ LeaveSections
    BY <1>5, CatalogStays DEF OpenSections, LeaveSections
  <1>6. ASSUME NEW p \in Providers, CheckProvider(p) \/ DeleteProvider(p)
        PROVE  CatalogType'
    BY <1>6, CatalogStays DEF CheckProvider, DeleteProvider, CatalogStep
  <1>7. ASSUME NEW p \in Providers, OpenEditForm(p)
        PROVE  CatalogType'
    <2>1. catalog.list[p] \in Protocols
      BY <1>7, CatalogTypes DEF OpenEditForm, Cards, CatalogType, Spoken
    <2>2. QED
      BY <1>7, <2>1, FormTypes, CatalogTypes DEF OpenEditForm, CatalogStep, CatalogType
  <1>8. ASSUME NEW p \in Providers, NEW protocol \in Protocols, FillForm(p, protocol)
        PROVE  CatalogType'
    BY <1>8, FormTypes, CatalogTypes DEF FillForm, CatalogStep, CatalogType
  <1>9. ASSUME NEW c \in Capabilities, NEW p, NEW i,
               \/ DragEnd(c) \/ AddService(c, p)
               \/ RemoveService(c, i) \/ ToggleService(c, i) \/ DragStart(c, i) \/ Drop(c, i)
        PROVE  CatalogType'
    BY <1>9, CatalogStays DEF DragEnd, AddService, RemoveService, ToggleService, DragStart, Drop, SectionStep
  <1>10. QED
    BY <1>1, <1>2, <1>3, <1>4, <1>5, <1>6, <1>7, <1>8, <1>9 DEF ServicesUser

LEMMA CatalogAnswerKeeps ==
  ASSUME RequestsOK, CatalogType, NEW m \in net, DeliverServices(m)
  PROVE  CatalogType' /\ UNCHANGED <<providers, queue>>
  <1> USE DEF CatalogStep, SectionStep
  <1>1. CASE CatalogAnswered(m)
    <2>1. CASE UNCHANGED catalog
      BY <1>1, <2>1, CatalogStays DEF CatalogAnswered
    <2>2. CASE m.kind = "providers"
      <3> DEFINE l == IF Ok(m) THEN m.answer.data ELSE [catalog EXCEPT !.loading = FALSE].list
      <3>1. catalog' = [[catalog EXCEPT !.loading = FALSE] EXCEPT !.list = l] \/ UNCHANGED catalog
        BY <1>1, <2>2 DEF CatalogAnswered
      <3>2. l \in [Providers -> Spoken]
        BY <2>2, CatalogTypes DEF RequestsOK, RequestOK, CatalogType
      <3> HIDE DEF l
      <3>3. CatalogType'
        <4>1. [catalog EXCEPT !.loading = FALSE] \in Catalogs
          BY CatalogTypes DEF CatalogType
        <4>2. [[catalog EXCEPT !.loading = FALSE] EXCEPT !.list = l] \in Catalogs
          BY <3>2, <4>1, CatalogTypes
        <4>3. QED
          BY <3>1, <4>2 DEF CatalogType
      <3>4. UNCHANGED <<providers, queue>>
        BY <1>1 DEF CatalogAnswered
      <3>5. QED
        BY <3>3, <3>4
    <2>3. QED
      BY <1>1, <2>1, <2>2 DEF CatalogAnswered
  <1>2. CASE FormAnswered(m)
    <2>1. PICK b \in BOOLEAN :
            \/ catalog' = [catalog EXCEPT !.form = [catalog.form EXCEPT !.saving = b]]
            \/ catalog' = [catalog EXCEPT !.form = [catalog.form EXCEPT !.detecting = b]]
            \/ catalog' = [catalog EXCEPT !.form = NoForm]
      BY <1>2 DEF FormAnswered
    <2>2. catalog.form \in Forms
      BY CatalogTypes DEF CatalogType
    <2>3. QED
      BY <1>2, <2>1, <2>2, FormTypes, FormKeeps DEF FormAnswered
  <1>3. CASE QueueAnswered(m) \/ LoadAnswered(m)
    BY <1>3, CatalogStays DEF QueueAnswered, LoadAnswered, Loads
  <1>4. QED
    BY <1>1, <1>2, <1>3 DEF DeliverServices

LEMMA ServicesKeep ==
  ASSUME RequestsOK, ServicesOK, [Next]_vars
  PROVE  ServicesOK'
  <1>1. CASE UNCHANGED serviceVars
    BY <1>1 DEF serviceVars, ServicesOK, CatalogType, QueueRows, QueuesHoldServices, InQueue, Known
  <1>2. ASSUME CatalogType', UNCHANGED <<providers, queue>>
        PROVE  ServicesOK'
    BY <1>2 DEF ServicesOK, QueueRows, QueuesHoldServices, InQueue, Known
  <1>3. CASE ServicesUser
    BY <1>2, <1>3, CatalogUserKeeps DEF ServicesOK
  <1>4. ASSUME NEW m \in net, ServesServices(m)
        PROVE  ServicesOK'
    BY <1>4, ServesCatalogKeeps, ServesQueueKeeps, CatalogStays DEF ServesServices, ServicesOK
  <1>5. ASSUME NEW m \in net, DeliverServices(m)
        PROVE  ServicesOK'
    BY <1>2, <1>5, CatalogAnswerKeeps DEF ServicesOK
  <1>6. CASE Users
    BY <1>1, <1>3, <1>6 DEF Users, OnServices, OnVideos, OnPatents, OnUsers, OnArchive
  <1>7. ASSUME NEW m \in net, Serve(m) \/ Deliver(m)
        PROVE  ServicesOK'
    BY <1>1, <1>4, <1>5, <1>7 DEF Serve, Deliver, OnServices, OnVideos, OnPatents, OnUsers, OnArchive
  <1>8. CASE UNCHANGED vars
    BY <1>1, <1>8 DEF vars
  <1>9. QED
    BY <1>1, <1>6, <1>7, <1>8 DEF Next, OnVideos, OnArchive

-----------------------------------------------------------------------------
(* Patents                                                                 *)

TableRows ==
  /\ DOMAIN table = Patents
  /\ \A p \in Patents : DOMAIN table[p] = {"there", "title", "number"}

ViewRecord == DOMAIN view = {"open", "typed", "page", "list", "loading", "failed", "selected"}

\* Also the page that is closed begins with its first page.
PageTellsList == view.page = view.list.page

PatentsOK == TableRows /\ NumbersAreUnique /\ ViewRecord /\ PageTellsList

LEMMA TableKeeps ==
  ASSUME TableRows, NumbersAreUnique, NEW m \in net, ServesPatents(m)
  PROVE  TableRows' /\ NumbersAreUnique'
  <1>1. CASE UNCHANGED table
    BY <1>1 DEF TableRows, NumbersAreUnique, There
  <1>2. ASSUME NEW id, NEW title, NEW number, ~Taken(number),
               table' = [table EXCEPT ![id] = Row(title, number)]
        PROVE  TableRows' /\ NumbersAreUnique'
    <2>1. TableRows'
      BY <1>2 DEF TableRows, Row
    <2>2. ASSUME NEW p \in Patents, NEW q \in Patents, There(p)', There(q)', p # q, table'[p].number # None
          PROVE  table'[p].number # table'[q].number
      <3>1. CASE p # id /\ q # id
        BY <1>2, <2>2, <3>1 DEF TableRows, NumbersAreUnique, There
      <3>2. CASE p = id
        BY <1>2, <2>2, <3>2 DEF TableRows, There, Taken, Row
      <3>3. CASE q = id
        BY <1>2, <2>2, <3>3 DEF TableRows, There, Taken, Row
      <3>4. QED
        BY <3>1, <3>2, <3>3
    <2>3. QED
      BY <2>1, <2>2 DEF NumbersAreUnique
  <1>3. ASSUME NEW id, table' = [table EXCEPT ![id].there = "gone"]
        PROVE  TableRows' /\ NumbersAreUnique'
    <2>1. TableRows'
      BY <1>3 DEF TableRows
    <2>2. ASSUME NEW p \in Patents, There(p)'
          PROVE  There(p) /\ table'[p] = table[p]
      BY <1>3, <2>2 DEF TableRows, There
    <2>3. QED
      BY <2>1, <2>2 DEF NumbersAreUnique, There
  <1>4. ~Taken(None)
    BY DEF Taken
  <1>5. CASE EndsUpload(m)
    BY <1>1, <1>2, <1>5 DEF EndsUpload
  <1>6. QED
    BY <1>1, <1>2, <1>3, <1>4, <1>5 DEF ServesPatents

LEMMA ViewKeeps ==
  ASSUME ViewRecord, PageTellsList, PatentsUser
  PROVE  ViewRecord' /\ PageTellsList' /\ UNCHANGED table
  <1>1. UNCHANGED table
    BY DEF PatentsUser, DeskStep, ViewStep, ReadsDesk, ReadsView, Shows, OpenDesk, LeaveDesk, OpenCreate,
           CloseDesk, SaveDesk, ToastEnds, OpenView, LeaveView, Search, Retry, CloseDetail, SearchDesk, Type,
           FillDesk, Upload, OpenEdit, MarkDelete, ConfirmDelete, Select, TurnDesk, TurnView
  <1>2. CASE UNCHANGED view
    BY <1>1, <1>2 DEF ViewRecord, PageTellsList
  <1>3. CASE OpenView \/ LeaveView
    <2>1. /\ DOMAIN ClosedView = {"open", "typed", "page", "list", "loading", "failed", "selected"}
          /\ ClosedView.page = 1 /\ ClosedView.list.page = 1
      BY DEF ClosedView, EmptyList
    <2>2. view' = ClosedView \/ view' = [[ClosedView EXCEPT !.open = TRUE] EXCEPT !.loading = TRUE]
      BY <1>3 DEF OpenView, LeaveView, ReadsView, ViewStep
    <2>3. QED
      BY <1>1, <2>1, <2>2 DEF ViewRecord, PageTellsList
  <1>4. ASSUME NEW q, NEW i, NEW n,
               Search \/ Retry \/ CloseDetail \/ Type(q) \/ Select(i) \/ TurnView(n)
        PROVE  ViewRecord' /\ PageTellsList'
    BY <1>4 DEF Search, Retry, CloseDetail, Type, Select, TurnView, ReadsView, ViewStep, ViewRecord, PageTellsList
  <1>5. ASSUME NEW q, NEW title, NEW number, NEW i, NEW n,
               \/ OpenDesk \/ LeaveDesk \/ OpenCreate \/ CloseDesk \/ SaveDesk \/ ToastEnds
               \/ SearchDesk(q) \/ FillDesk(title) \/ Upload(number)
               \/ OpenEdit(i) \/ MarkDelete(i) \/ ConfirmDelete(i) \/ TurnDesk(n)
        PROVE  UNCHANGED view
    BY <1>5 DEF OpenDesk, LeaveDesk, OpenCreate, CloseDesk, SaveDesk, ToastEnds, SearchDesk, FillDesk, Upload,
                OpenEdit, MarkDelete, ConfirmDelete, TurnDesk, Shows, DeskStep
  <1>6. QED
    BY <1>1, <1>2, <1>3, <1>4, <1>5 DEF PatentsUser

LEMMA ViewAnswerKeeps ==
  ASSUME RequestsOK, ViewRecord, PageTellsList, NEW m \in net, DeliverPatents(m)
  PROVE  ViewRecord' /\ PageTellsList' /\ UNCHANGED table
  <1>1. CASE DeskAnswered(m)
    BY <1>1 DEF DeskAnswered, DeskStep, ViewRecord, PageTellsList
  <1>2. CASE ViewAnswered(m)
    <2>1. Ok(m) => m.answer.data.page = m.with.page
      BY <1>2 DEF ViewAnswered, RequestsOK, RequestOK
    <2>2. QED
      BY <1>2, <2>1 DEF ViewAnswered, ViewStep, ViewRecord, PageTellsList
  <1>3. QED
    BY <1>1, <1>2 DEF DeliverPatents

LEMMA PatentsKeep ==
  ASSUME RequestsOK, PatentsOK, [Next]_vars
  PROVE  PatentsOK'
  <1>1. CASE UNCHANGED patentVars
    BY <1>1 DEF patentVars, PatentsOK, TableRows, NumbersAreUnique, There, ViewRecord, PageTellsList
  <1>2. ASSUME UNCHANGED table
        PROVE  (TableRows /\ NumbersAreUnique)'
    BY <1>2 DEF PatentsOK, TableRows, NumbersAreUnique, There
  <1>3. CASE PatentsUser
    BY <1>2, <1>3, ViewKeeps DEF PatentsOK
  <1>4. ASSUME NEW m \in net, ServesPatents(m)
        PROVE  PatentsOK'
    <2>1. ViewRecord' /\ PageTellsList'
      BY <1>4 DEF ServesPatents, PatentsOK, ViewRecord, PageTellsList
    <2>2. QED
      BY <1>4, <2>1, TableKeeps DEF PatentsOK
  <1>5. ASSUME NEW m \in net, DeliverPatents(m)
        PROVE  PatentsOK'
    BY <1>2, <1>5, ViewAnswerKeeps DEF PatentsOK
  <1>6. CASE Users
    BY <1>1, <1>3, <1>6 DEF Users, OnServices, OnVideos, OnPatents, OnUsers, OnArchive
  <1>7. ASSUME NEW m \in net, Serve(m) \/ Deliver(m)
        PROVE  PatentsOK'
    BY <1>1, <1>4, <1>5, <1>7 DEF Serve, Deliver, OnServices, OnVideos, OnPatents, OnUsers, OnArchive
  <1>8. CASE UNCHANGED vars
    BY <1>1, <1>8 DEF vars
  <1>9. QED
    BY <1>1, <1>6, <1>7, <1>8 DEF Next, OnVideos, OnArchive

-----------------------------------------------------------------------------
(* Accounts                                                                *)

AccountRows ==
  /\ DOMAIN accounts = Accounts
  /\ \A u \in Accounts : DOMAIN accounts[u] = {"there", "active", "super"}

DeletedAreGone == \A m \in net : m.kind = "delete" /\ Ok(m) => ~accounts[m.of].there

UsersOK == AccountRows /\ ChosenAreAccounts /\ DeletedAreGone

LEMMA AccountsStayGone ==
  ASSUME AccountRows, [Next]_vars
  PROVE  AccountRows' /\ \A u \in Accounts : ~accounts[u].there => ~accounts'[u].there
  <1>1. CASE UNCHANGED accounts
    BY <1>1 DEF AccountRows
  <1>2. CASE PeopleUser
    <2>1. UNCHANGED accounts
      BY <1>2 DEF PeopleUser, PeopleStep, OpenPeople, LeavePeople, ToggleSelectAll, ClearSelection, CancelDeed,
                  ConfirmDeed, CloseDialog, SaveEdit, SendNotice, AskBatch, AskOne, Asks, FillEdit,
                  ToggleSelect, OpenDialog
    <2>2. QED
      BY <1>1, <2>1
  <1>3. ASSUME NEW m \in net, ServesUsers(m)
        PROVE  AccountRows' /\ \A u \in Accounts : ~accounts[u].there => ~accounts'[u].there
    <2>1. ASSUME NEW active, NEW super,
                 accounts' = [accounts EXCEPT ![m.of].active = active, ![m.of].super = super]
          PROVE  AccountRows' /\ \A u \in Accounts : ~accounts[u].there => ~accounts'[u].there
      BY <2>1 DEF AccountRows
    <2>2. CASE accounts' = [accounts EXCEPT ![m.of] = Gone]
      BY <2>2 DEF AccountRows, Gone
    <2>3. QED
      BY <1>1, <1>3, <2>1, <2>2 DEF ServesUsers
  <1>4. ASSUME NEW m \in net, DeliverUsers(m)
        PROVE  UNCHANGED accounts
    BY <1>4 DEF DeliverUsers, DeedAnswered, DialogAnswered, PeopleStep
  <1>5. CASE Users
    BY <1>1, <1>2, <1>5 DEF Users, userVars, OnServices, OnVideos, OnPatents, OnUsers, OnArchive
  <1>6. ASSUME NEW m \in net, Serve(m) \/ Deliver(m)
        PROVE  AccountRows' /\ \A u \in Accounts : ~accounts[u].there => ~accounts'[u].there
    BY <1>1, <1>3, <1>4, <1>6 DEF Serve, Deliver, userVars, OnServices, OnVideos, OnPatents, OnUsers, OnArchive
  <1>7. QED
    BY <1>1, <1>5, <1>6 DEF Next, vars, userVars, OnVideos, OnArchive

LEMMA ClosedPeopleChoose ==
  /\ DOMAIN ClosedPeople = {"open", "list", "loading", "selected", "deed", "dialog", "saving", "sending"}
  /\ ClosedPeople.selected = {} /\ ClosedPeople.deed = NoDeed /\ ~ClosedPeople.open
  BY DEF ClosedPeople

LEMMA ChosenKeep ==
  ASSUME ChosenAreAccounts, [Next]_vars
  PROVE  ChosenAreAccounts'
  <1>1. CASE UNCHANGED people
    BY <1>1 DEF ChosenAreAccounts
  <1>2. CASE PeopleUser
    <2> USE DEF PeopleStep
    <2>1. CASE OpenPeople \/ LeavePeople
      BY <2>1, ClosedPeopleChoose DEF OpenPeople, LeavePeople, ChosenAreAccounts
    <2>2. CASE ToggleSelectAll \/ ClearSelection \/ \E u \in Accounts : ToggleSelect(u)
      BY <2>2 DEF ToggleSelectAll, ClearSelection, ToggleSelect, Listed, ChosenAreAccounts
    <2>3. CASE CancelDeed
      BY <2>3 DEF CancelDeed, ChosenAreAccounts
    <2>4. ASSUME NEW kind \in Deeds, NEW of \in SUBSET Accounts, NEW active, NEW batch, Asks(kind, of, active, batch)
          PROVE  ChosenAreAccounts'
      BY <2>4 DEF Asks, ChosenAreAccounts
    <2>5. ASSUME NEW u, NEW kind, NEW active, NEW super,
                 \/ ConfirmDeed \/ CloseDialog \/ SaveEdit \/ SendNotice \/ OpenDialog(kind, u)
                 \/ FillEdit(active, super)
          PROVE  ChosenAreAccounts'
      BY <2>5 DEF ConfirmDeed, CloseDialog, SaveEdit, SendNotice, OpenDialog, FillEdit, ChosenAreAccounts
    <2>6. QED
      BY <1>2, <2>1, <2>2, <2>3, <2>4, <2>5 DEF PeopleUser, AskBatch, AskOne, Deeds, ChosenAreAccounts
  <1>3. ASSUME NEW m \in net, DeliverUsers(m)
        PROVE  ChosenAreAccounts'
    BY <1>3 DEF DeliverUsers, DeedAnswered, DialogAnswered, PeopleStep, ChosenAreAccounts
  <1>4. CASE Users
    BY <1>1, <1>2, <1>4 DEF Users, userVars, OnServices, OnVideos, OnPatents, OnUsers, OnArchive
  <1>5. ASSUME NEW m \in net, Serve(m) \/ Deliver(m)
        PROVE  ChosenAreAccounts'
    BY <1>1, <1>3, <1>5 DEF Serve, Deliver, userVars, OnServices, OnVideos, OnPatents, OnUsers, OnArchive, ServesUsers
  <1>6. QED
    BY <1>1, <1>4, <1>5 DEF Next, vars, userVars, OnVideos, OnArchive

LEMMA DeletedStayGone ==
  ASSUME RequestsOK, RequestsOK', AccountRows, DeletedAreGone, \A o \in net' : DeletionTold(o), [Next]_vars
  PROVE  DeletedAreGone'
  <1> SUFFICES ASSUME NEW o \in net', o.kind = "delete", Ok(o)
               PROVE  ~accounts'[o.of].there
    BY DEF DeletedAreGone, Ok
  <1>1. o.of \in Accounts
    BY DEF RequestsOK, RequestOK
  <1>2. CASE Stays(o)
    <2>1. PICK m \in net : SameQuestion(o, m) /\ o.answer = m.answer
      BY <1>2 DEF Stays
    <2>2. ~accounts[o.of].there
      BY <2>1 DEF SameQuestion, DeletedAreGone, Ok
    <2>3. QED
      BY <1>1, <2>2, AccountsStayGone
  <1>3. CASE accounts' = [accounts EXCEPT ![o.of] = Gone]
    BY <1>1, <1>3 DEF AccountRows, Gone
  <1>4. QED
    BY <1>2, <1>3 DEF DeletionTold

-----------------------------------------------------------------------------
(* The invariant and what follows from it                                  *)

Consistent == RequestsOK /\ ServicesOK /\ PatentsOK /\ UsersOK

LEMMA ConsistentAtFirst ==
  ASSUME Init
  PROVE  Consistent
  <1>1. PICK s \in Scenarios :
          /\ ServicesInit(s) /\ PatentsInit(s) /\ UsersInit(s) /\ net = {}
    BY DEF Init
  <1>2. ServicesOK
    <2>1. providers \in [Providers -> Spoken]
      BY <1>1, ServicesAssumption DEF ServicesInit, Spoken
    <2>2. CatalogType
      <3>1. catalog = ClosedCatalog \/ catalog = [[ClosedCatalog EXCEPT !.open = TRUE] EXCEPT !.list = providers]
        BY <1>1 DEF ServicesInit
      <3>2. [ClosedCatalog EXCEPT !.open = TRUE] \in Catalogs
        BY FormTypes DEF ClosedCatalog, Catalogs, Spoken
      <3>3. [[ClosedCatalog EXCEPT !.open = TRUE] EXCEPT !.list = providers] \in Catalogs
        BY <2>1, <3>2, CatalogTypes
      <3>4. QED
        BY <3>1, <3>3, CatalogTypes DEF CatalogType
    <2>3. QueueRows /\ QueuesHoldServices
      BY <1>1, ServicesAssumption DEF ServicesInit, QueueRows, QueuesHoldServices, InQueue, Known
    <2>4. QED
      BY <2>1, <2>2, <2>3 DEF ServicesOK
  <1>3. PatentsOK
    BY <1>1, TableAssumption DEF PatentsInit, PatentsOK, TableRows, NumbersAreUnique, There, ViewRecord,
                                 PageTellsList, ClosedView, EmptyList
  <1>4. UsersOK
    BY <1>1, AccountsAssumption DEF UsersInit, UsersOK, AccountRows, ChosenAreAccounts, DeletedAreGone, ClosedPeople
  <1>5. QED
    BY <1>1, <1>2, <1>3, <1>4 DEF Consistent, RequestsOK

LEMMA ConsistentStays ==
  ASSUME Consistent, [Next]_vars
  PROVE  Consistent'
  <1>1. RequestsOK' /\ \A o \in net' : DeletionTold(o)
    BY RequestsStep DEF Consistent, ServicesOK, UsersOK
  <1>2. QED
    BY <1>1, ServicesKeep, PatentsKeep, AccountsStayGone, ChosenKeep, DeletedStayGone DEF Consistent, UsersOK

THEOREM AlwaysConsistent == Spec => []Consistent
  <1>1. Init => Consistent
    BY ConsistentAtFirst
  <1>2. Consistent /\ [Next]_vars => Consistent'
    BY ConsistentStays
  <1>3. QED
    BY <1>1, <1>2, PTL DEF Spec

\* No queue names a service that is not there: an added one is known then, an order
\* is one of known ones, and a service that goes is dropped by every queue.
THEOREM ServicesAreThere == Spec => []QueuesHoldServices
  <1>1. Consistent => QueuesHoldServices
    BY DEF Consistent, ServicesOK
  <1>2. QED
    BY <1>1, AlwaysConsistent, PTL

\* No two patents that are there have one number, however uploads, forms and
\* deletions follow each other.
THEOREM PatentsHaveNumbers == Spec => []NumbersAreUnique
  <1>1. Consistent => NumbersAreUnique
    BY DEF Consistent, PatentsOK
  <1>2. QED
    BY <1>1, AlwaysConsistent, PTL

\* The pager tells the page of the list that is shown, since every answer carries
\* the page it was asked for.
THEOREM PagerIsRight == Spec => []PagerTellsList
  <1>1. Consistent => PagerTellsList
    BY DEF Consistent, PatentsOK, PageTellsList, PagerTellsList
  <1>2. QED
    BY <1>1, AlwaysConsistent, PTL

-----------------------------------------------------------------------------
(* Batches                                                                 *)

\* Only the last answer of a deed, if every answer was a good one, takes the
\* selection away while requests of the page are taken from the network.
LEMMA SelectionCleared ==
  ASSUME ChosenAreAccounts, [Next]_vars, NEW m \in net, m \notin net', m.kind = "delete", m.here,
         people'.open, people.selected # {}, people'.selected = {}
  PROVE  Ok(m)
  <1>1. ~UNCHANGED people
    OBVIOUS
  <1>2. ~(net' = net)
    OBVIOUS
  <1>3. ~OpenPeople
    BY <1>2 DEF OpenPeople, PeopleStep, ReadsAccounts, And
  <1>4. ~LeavePeople
    BY ClosedPeopleChoose DEF LeavePeople, PeopleStep
  <1>5. ~ConfirmDeed /\ ~SaveEdit /\ ~SendNotice
    BY <1>1 DEF ConfirmDeed, SaveEdit, SendNotice, PeopleStep, And, ChosenAreAccounts
  <1>6. ~PeopleUser
    BY <1>2, <1>3, <1>4, <1>5 DEF PeopleUser, PeopleStep, ToggleSelectAll, ClearSelection, CancelDeed, CloseDialog,
       AskBatch, AskOne, Asks, FillEdit, ToggleSelect, OpenDialog
  <1>7. PICK p \in net : DeliverUsers(p)
    BY <1>1, <1>6 DEF Next, vars, userVars, Users, Serve, Deliver, OnServices, OnVideos, OnPatents, OnUsers,
       OnArchive, ServesUsers
  <1>8. people'.selected = people.selected \/ \A o \in Same(p) : Ok(o)
    BY <1>7 DEF DeliverUsers, DeedAnswered, DialogAnswered, PeopleStep, ChosenAreAccounts
  <1>9. m \in Same(p)
    BY <1>7, <1>8 DEF DeliverUsers, DeedAnswered, DialogAnswered, PeopleStep, ChosenAreAccounts, ReadsAccounts, And
  <1>10. QED
    BY <1>8, <1>9

\* A batch of deletions takes the selection away only when each of its accounts is
\* gone, though other deeds are asked for, answered and refused meanwhile.
THEOREM BatchesAreWhole == Spec => BatchIsWhole
  <1>1. Consistent /\ [Next]_vars =>
          [\A m \in net \ net' :
             /\ m.kind = "delete" /\ m.here /\ m.with.batch
             /\ people'.open /\ people.selected # {} /\ people'.selected = {}
             => ~accounts[m.of].there]_vars
    BY SelectionCleared DEF Consistent, UsersOK, DeletedAreGone
  <1>2. QED
    BY <1>1, AlwaysConsistent, PTL DEF Spec, BatchIsWhole
=============================================================================
