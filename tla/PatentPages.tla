----------------------------- MODULE PatentPages -----------------------------
(***************************************************************************)
(* The table of patents with the desk of its administrator (PatentDbPage,  *)
(* api/admin/patent_db.py) and the page that searches it for every user    *)
(* (PatentSearchPage, api/patents.py).                                     *)
(***************************************************************************)
EXTENDS Network, Sequences

LOCAL INSTANCE SequencesExt

CONSTANTS
  Patents,   \* ids, in the order in which they are given
  Numbers,   \* numbers that the files name
  PageSize

ASSUME PatentsAssumption == Patents \subseteq Nat /\ PageSize \in Nat \ {0}

Titles  == {"lamp", "motor"}
Queries == Titles \cup {""}

\* At first no two patents have one number.
ASSUME TableAssumption ==
  \A s \in Scenarios :
    /\ s.table \in [Patents -> [there : {"new", "there", "gone"}, title : Queries, number : Numbers \cup {None}]]
    /\ \A p, q \in Patents :
         /\ p # q /\ s.table[p].there = "there" /\ s.table[q].there = "there"
         /\ s.table[p].number # None
         => s.table[p].number # s.table[q].number

VARIABLES
  table,  \* the patents: not yet, there or gone, and their title and number
  desk,   \* the page of the administrator
  view    \* the page that searches

patentVars == <<table, desk, view>>

NoPatent == [there |-> "new", title |-> "", number |-> None]

EmptyList == [rows |-> <<>>, total |-> 0, page |-> 1]

NoPatentForm == [mode |-> None, of |-> 0, title |-> ""]

ClosedDesk == [open |-> FALSE, search |-> "", page |-> 1, list |-> EmptyList, form |-> NoPatentForm,
               marked |-> 0, uploading |-> FALSE, toast |-> None]

ClosedView == [open |-> FALSE, typed |-> "", page |-> 1, list |-> EmptyList, loading |-> FALSE,
               failed |-> FALSE, selected |-> 0]

-----------------------------------------------------------------------------
(* The server                                                              *)

There(p) == p \in Patents /\ table[p].there = "there"

NextId == CHOOSE p \in Patents : table[p].there = "new" /\ \A q \in Patents : q < p => table[q].there # "new"
Room  == \E p \in Patents : table[p].there = "new"

\* One page of those that fit a query, the newest first, and how many fit.
Page(q, page) ==
  LET found == {p \in Patents : There(p) /\ (q = "" \/ table[p].title = q)}
      all   == SetToSortSeq(found, LAMBDA a, b : a > b)
      rows  == SubSeq(all, (page - 1) * PageSize + 1,
                      IF page * PageSize < Len(all) THEN page * PageSize ELSE Len(all))
  IN [rows  |-> [i \in 1 .. Len(rows) |-> [of |-> rows[i], title |-> table[rows[i]].title]],
      total |-> Len(all), page |-> page]

PatentsInit(s) ==
  /\ table = s.table
  /\ desk = IF "desk" \in s.shown THEN [ClosedDesk EXCEPT !.open = TRUE, !.list = Page("", 1)]
             ELSE ClosedDesk
  /\ view = ClosedView

Row(title, number) == [there |-> "there", title |-> title, number |-> number]

Taken(number) == number # None /\ \E p \in Patents : There(p) /\ table[p].number = number

Parsing == [status |-> "parsing"]

\* Mutant of EndsUpload: the number is not looked for.
EndsUploadUnchecked(m) ==
  /\ m.answer = Parsing /\ Room
  /\ table' = [table EXCEPT ![NextId] = Row(m.with.title, m.with.number)]
  /\ \E answer \in {Success("uploaded"), Refused} : Done(m, answer)

\* The number that a file names is looked for when the file was read, together
\* with the insertion.
EndsUpload(m) ==
  /\ m.answer = Parsing
  /\ IF Taken(m.with.number)
     THEN UNCHANGED table /\ Done(m, Refused)
     ELSE /\ Room
          /\ table' = [table EXCEPT ![NextId] = Row(m.with.title, m.with.number)]
          /\ \E answer \in {Success("uploaded"), Refused} : Done(m, answer)

\* The form names its fields otherwise than the routes do, so that what it
\* creates has no number, and what it changes loses the one it had. A file is
\* read first, and an answer of a title by a model has the request fail after
\* the row was made.
ServesPatents(m) ==
  /\ \/ /\ m.kind = "patents" /\ m.answer = Waiting
        /\ Done(m, Success(Page(m.with.query, m.with.page)))
        /\ UNCHANGED table
     \/ /\ m.kind = "createPatent" /\ m.answer = Waiting /\ Room
        /\ table' = [table EXCEPT ![NextId] = Row(m.with.title, None)]
        /\ Done(m, Success("created"))
     \/ /\ m.kind = "updatePatent" /\ m.answer = Waiting
        /\ IF There(m.of)
           THEN table' = [table EXCEPT ![m.of] = Row(m.with.title, None)] /\ Done(m, Success("updated"))
           ELSE UNCHANGED table /\ Done(m, Refused)
     \/ /\ m.kind = "deletePatent" /\ m.answer = Waiting
        /\ IF There(m.of)
           THEN table' = [table EXCEPT ![m.of].there = "gone"] /\ Done(m, Success("deleted"))
           ELSE UNCHANGED table /\ Done(m, Refused)
     \/ /\ m.kind = "upload" /\ m.answer = Waiting
        /\ Done(m, Parsing)
        /\ UNCHANGED table
     \/ EndsUpload(m)
  /\ UNCHANGED <<desk, view, left>>

-----------------------------------------------------------------------------
(* The desk                                                                *)

DeskStep(k, msgs) ==
  /\ desk' = k
  /\ net' = msgs
  /\ UNCHANGED <<table, view>>

Asked(k) == [query |-> k.search, page |-> k.page]

ReadsDesk(k, msgs) == And(msgs, "desk", "patents", 0, Asked(k))

\* Every change of the page or of the search reads the list, whatever is under way.
Shows(k) == DeskStep(k, IF Asked(k) = Asked(desk) THEN net ELSE ReadsDesk(k, net))

OpenDesk ==
  /\ Spend("desk")
  /\ ~desk.open
  /\ LET k == [ClosedDesk EXCEPT !.open = TRUE] IN DeskStep(k, ReadsDesk(k, net))

LeaveDesk ==
  /\ Spend("desk")
  /\ desk.open
  /\ DeskStep(ClosedDesk, Without({"desk"}, net))

\* The form lies over everything else.
DeskFree == desk.open /\ desk.form.mode = None

\* The rows of the table, each with its buttons, by place.
DeskRows == IF DeskFree THEN DOMAIN desk.list.rows ELSE {}

SearchDesk(q) ==
  /\ Spend("patent")
  /\ DeskFree
  /\ Shows([desk EXCEPT !.search = q, !.page = 1])

PagesOf(list) == (list.total + PageSize - 1) \div PageSize

TurnDesk(n) ==
  /\ Spend("patent")
  /\ DeskFree /\ PagesOf(desk.list) > 1 /\ n \in 1 .. PagesOf(desk.list)
  /\ Shows([desk EXCEPT !.page = n])

OpenCreate ==
  /\ Spend("patentForm")
  /\ DeskFree
  /\ DeskStep([desk EXCEPT !.form = [NoPatentForm EXCEPT !.mode = "create"]], net)

\* What the row shows, which may be old, is what the form starts with.
OpenEdit(i) ==
  /\ Spend("patentForm")
  /\ i \in DeskRows
  /\ DeskStep([desk EXCEPT !.form = [mode |-> "edit", of |-> desk.list.rows[i].of,
                                     title |-> desk.list.rows[i].title]], net)

FillDesk(title) ==
  /\ Spend("patentForm")
  /\ desk.form.mode # None /\ desk.form.title # title
  /\ DeskStep([desk EXCEPT !.form.title = title], net)

CloseDesk ==
  /\ desk.form.mode # None
  /\ DeskStep([desk EXCEPT !.form = NoPatentForm], net)
  /\ UNCHANGED left

\* A change reads the list of the moment at which it was asked for; nothing keeps
\* it from being asked for twice.
Changes(kind, of, title, number) ==
  And(net, "desk", kind, of, [query |-> desk.search, page |-> desk.page, title |-> title,
                              number |-> number])

SaveDesk ==
  /\ Spend("patentForm")
  /\ desk.form.mode # None /\ desk.form.title # ""
  /\ DeskStep(desk, Changes(IF desk.form.mode = "create" THEN "createPatent" ELSE "updatePatent",
                            desk.form.of, desk.form.title, None))

MarkDelete(i) ==
  /\ Spend("patent")
  /\ i \in DeskRows /\ desk.marked # desk.list.rows[i].of
  /\ DeskStep([desk EXCEPT !.marked = desk.list.rows[i].of], net)

ConfirmDelete(i) ==
  /\ Spend("patent")
  /\ i \in DeskRows /\ desk.marked = desk.list.rows[i].of
  /\ DeskStep(desk, Changes("deletePatent", desk.marked, "", None))

Upload(number) ==
  /\ Spend("upload")
  /\ DeskFree /\ ~desk.uploading
  /\ DeskStep([desk EXCEPT !.uploading = TRUE], Changes("upload", 0, "motor", number))

\* Four seconds.
ToastEnds ==
  /\ desk.toast # None
  /\ DeskStep([desk EXCEPT !.toast = None], net)
  /\ UNCHANGED left

\* What was saved closes the form that is open by then, and what was deleted
\* takes the mark from whatever row has it.
DeskAnswered(m) ==
  /\ m.by = "desk"
  /\ LET others == net \ {m}
         again  == And(others, "desk", "patents", 0, [query |-> m.with.query, page |-> m.with.page])
     IN \/ /\ ~m.here
           /\ DeskStep(desk, others)
        \/ /\ m.here /\ m.kind = "patents"
           /\ DeskStep([desk EXCEPT !.list = IF Ok(m) THEN m.answer.data ELSE @], others)
        \/ /\ m.here /\ m.kind \in {"createPatent", "updatePatent"} /\ Ok(m)
           /\ DeskStep([desk EXCEPT !.form = NoPatentForm], again)
        \/ /\ m.here /\ m.kind = "deletePatent" /\ Ok(m)
           /\ DeskStep([desk EXCEPT !.marked = 0], again)
        \/ /\ m.here /\ m.kind \in {"createPatent", "updatePatent", "deletePatent"} /\ ~Ok(m)
           /\ DeskStep(desk, others)
        \/ /\ m.here /\ m.kind = "upload"
           /\ DeskStep([desk EXCEPT !.uploading = FALSE,
                                    !.toast = IF Ok(m) THEN "uploaded" ELSE "failed"],
                       IF Ok(m) THEN again ELSE others)

-----------------------------------------------------------------------------
(* The page that searches                                                  *)

ViewStep(k, msgs) ==
  /\ view' = k
  /\ net' = msgs
  /\ UNCHANGED <<table, desk>>

\* What is typed by then is what is searched.
ReadsView(k, n) ==
  ViewStep([k EXCEPT !.loading = TRUE],
           And(net, "view", "patents", 0, [query |-> k.typed, page |-> n]))

OpenView ==
  /\ Spend("view")
  /\ ~view.open
  /\ ReadsView([ClosedView EXCEPT !.open = TRUE], 1)

LeaveView ==
  /\ Spend("view")
  /\ view.open
  /\ ViewStep(ClosedView, Without({"view"}, net))

\* The details of a patent lie over everything else.
ViewFree == view.open /\ view.selected = 0

\* A list is shown unless another one is read or an error is told in its place.
Results == IF ViewFree /\ ~view.loading /\ ~view.failed THEN DOMAIN view.list.rows ELSE {}

\* Words, class, applicant or order.
Type(q) ==
  /\ Spend("search")
  /\ ViewFree /\ view.typed # q
  /\ ViewStep([view EXCEPT !.typed = q], net)

Search ==
  /\ Spend("search")
  /\ ViewFree
  /\ ReadsView(view, 1)

\* Mutant of TurnView: the page changes with the click.
TurnViewAtOnce(n) ==
  /\ Spend("search")
  /\ ViewFree /\ PagesOf(view.list) > 1 /\ n \in 1 .. PagesOf(view.list)
  /\ ReadsView([view EXCEPT !.page = n], n)

\* The pager stays while a list is read, and while an error is shown.
TurnView(n) ==
  /\ Spend("search")
  /\ ViewFree /\ PagesOf(view.list) > 1 /\ n \in 1 .. PagesOf(view.list)
  /\ ReadsView(view, n)

Retry ==
  /\ Spend("search")
  /\ ViewFree /\ view.failed /\ ~view.loading
  /\ ReadsView([view EXCEPT !.failed = FALSE], 1)

Select(i) ==
  /\ Spend("select")
  /\ i \in Results
  /\ ViewStep([view EXCEPT !.selected = view.list.rows[i].of], net)

CloseDetail ==
  /\ view.selected # 0
  /\ ViewStep([view EXCEPT !.selected = 0], net)
  /\ UNCHANGED left

\* The page is that of the answer; the first of two answers ends the loading, and
\* an error stays until it is tried again.
ViewAnswered(m) ==
  /\ m.by = "view"
  /\ ViewStep(IF ~m.here THEN view
              ELSE IF Ok(m) THEN [view EXCEPT !.loading = FALSE, !.list = m.answer.data, !.page = m.with.page]
              ELSE [view EXCEPT !.loading = FALSE, !.failed = TRUE],
              net \ {m})

DeliverPatents(m) == Answered(m) /\ UNCHANGED left /\ (DeskAnswered(m) \/ ViewAnswered(m))

PatentsUser ==
  \/ OpenDesk \/ LeaveDesk \/ OpenCreate \/ CloseDesk \/ SaveDesk \/ ToastEnds
  \/ OpenView \/ LeaveView \/ Search \/ Retry \/ CloseDetail
  \/ \E q \in Queries : SearchDesk(q) \/ Type(q)
  \/ \E title \in Titles : FillDesk(title)
  \/ \E number \in Numbers \cup {None} : Upload(number)
  \/ \E i \in 1 .. PageSize : OpenEdit(i) \/ MarkDelete(i) \/ ConfirmDelete(i) \/ Select(i)
  \/ \E n \in 1 .. Cardinality(Patents) : TurnDesk(n) \/ TurnView(n)
=============================================================================
