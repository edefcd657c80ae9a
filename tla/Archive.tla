------------------------------- MODULE Archive -------------------------------
(***************************************************************************)
(* The page of the analyses a user has made (PatentConversionPage), which  *)
(* reads its list piece by piece, renames and deletes, and shows what came *)
(* of one of them (WorkflowArchiveDetail), against api/tasks.py,           *)
(* api/workflow.py and api/conversion.py.  Other windows of the user make  *)
(* new analyses meanwhile.                                                 *)
(***************************************************************************)
EXTENDS Network, Sequences

CONSTANTS
  Analyses,  \* tasks, in the order in which they are made
  PieceSize  \* rows of one piece of the list

\* At first the tasks that are still to be made are the last ones.
ASSUME ArchiveAssumption ==
  /\ Analyses \subseteq Nat \ {0} /\ IsFiniteSet(Analyses)
  /\ PieceSize \in Nat \ {0}
  /\ \A s \in Scenarios :
       /\ s.analyses \in [Analyses -> [there : {"new", "there", "gone"}, title : STRING, flow : BOOLEAN,
                                       solutions : SUBSET STRING]]
       /\ \A a, b \in Analyses : s.analyses[a].there = "new" /\ s.analyses[b].there # "new" => b < a

Untitled  == "" \* the title of the page when it has found none
Renames   == {"new name"}
NoAnalysis == 0

VARIABLES
  analyses,  \* of each task whether it is there, its title, its workflow and its solutions
  archive,   \* the page with its list
  detail     \* the page of one task

archiveVars == <<analyses, archive, detail>>

\* known is auxiliary: what there was when the list was first read.
ClosedArchive ==
  [open |-> FALSE, list |-> <<>>, page |-> 1, pages |-> 1, loading |-> FALSE, more |-> FALSE,
   editing |-> NoAnalysis, asking |-> NoAnalysis, known |-> [a \in Analyses |-> "gone"]]

ClosedDetail ==
  [of |-> NoAnalysis, loading |-> FALSE, flow |-> FALSE, solutions |-> {}, failed |-> FALSE,
   title |-> Untitled, checking |-> FALSE, risks |-> {}]

ArchiveInit(s) ==
  /\ analyses = s.analyses
  /\ archive = ClosedArchive
  /\ detail = ClosedDetail

-----------------------------------------------------------------------------
(* The server                                                              *)

Kept(a) == a \in Analyses /\ analyses[a].there = "there"

\* The place of a task in the order of the list, the latest first, and the task of a place.
Rank(a) == Cardinality({b \in Analyses : Kept(b) /\ b >= a})
TaskAt(i) == CHOOSE a \in Analyses : Kept(a) /\ Rank(a) = i

\* list_tasks: one piece, the latest first, and how many pieces there are.
Piece(page) ==
  LET all == {a \in Analyses : Kept(a)}
      end == IF page * PieceSize < Cardinality(all) THEN page * PieceSize ELSE Cardinality(all)
      skipped == (page - 1) * PieceSize
  IN [rows  |-> [i \in 1 .. end - skipped |-> LET a == TaskAt(skipped + i)
                                              IN [of |-> a, title |-> analyses[a].title]],
      pages |-> IF all = {} THEN 1 ELSE (Cardinality(all) + PieceSize - 1) \div PieceSize,
      known |-> [a \in Analyses |-> analyses[a].there]]

\* The risk of a solution is told, whatever its model says.
ServesArchive(m) ==
  /\ m.answer = Waiting
  /\ \/ /\ m.kind = "piece"
        /\ Done(m, Success(Piece(m.of)))
        /\ UNCHANGED analyses
     \/ /\ m.kind = "rename" /\ Kept(m.of)
        /\ analyses' = [analyses EXCEPT ![m.of].title = m.with]
        /\ Done(m, Success(m.with))
     \/ /\ m.kind = "drop" /\ Kept(m.of)
        /\ analyses' = [analyses EXCEPT ![m.of].there = "gone"]
        /\ Done(m, Success("deleted"))
     \/ /\ m.kind = "solutions" /\ Kept(m.of)
        /\ Done(m, Success([solutions |-> analyses[m.of].solutions, title |-> analyses[m.of].title]))
        /\ UNCHANGED analyses
     \/ /\ m.kind = "flow" /\ Kept(m.of) /\ analyses[m.of].flow
        /\ Done(m, Success("steps"))
        /\ UNCHANGED analyses
     \/ /\ m.kind = "risk" /\ Kept(m.of)
        /\ Done(m, Success("risk"))
        /\ UNCHANGED analyses
     \/ /\ \/ m.kind \in {"rename", "drop", "solutions", "flow", "risk"} /\ ~Kept(m.of)
           \/ m.kind = "flow" /\ ~analyses[m.of].flow
        /\ Done(m, Refused)
        /\ UNCHANGED analyses
  /\ UNCHANGED <<archive, detail, left>>

\* Another window makes a new task.
Appears ==
  /\ Spend("analysis made")
  /\ \E a \in Analyses :
       /\ analyses[a].there = "new"
       /\ \A b \in Analyses : b < a => analyses[b].there # "new"
       /\ analyses' = [analyses EXCEPT ![a].there = "there"]
  /\ UNCHANGED <<archive, detail, net>>

-----------------------------------------------------------------------------
(* The list                                                                *)

ArchiveStep(k, d, msgs) ==
  /\ archive' = k
  /\ detail' = d
  /\ net' = msgs
  /\ UNCHANGED analyses

ReadsPiece(page) == And(net, "archive", "piece", page, None)

OpenArchive ==
  /\ Spend("archive")
  /\ ~archive.open
  /\ ArchiveStep([ClosedArchive EXCEPT !.open = TRUE, !.loading = TRUE], ClosedDetail, ReadsPiece(1))

LeaveArchive ==
  /\ Spend("archive")
  /\ archive.open
  /\ ArchiveStep(ClosedArchive, ClosedDetail, Without({"archive", "detail"}, net))

\* The list is shown, and no question lies over it.
ListShown == archive.open /\ ~archive.loading /\ archive.asking = NoAnalysis /\ detail.of = NoAnalysis

ListedAnalyses == {archive.list[i].of : i \in DOMAIN archive.list}

\* Mutant of LoadMore: the piece is asked for as often as the button is pressed.
LoadMoreAgain ==
  /\ ListShown /\ archive.list # <<>>
  /\ archive.page < archive.pages
  /\ ArchiveStep([archive EXCEPT !.more = TRUE], detail, ReadsPiece(archive.page + 1))
  /\ UNCHANGED left

\* There is no button under an empty list.
LoadMore ==
  /\ ListShown /\ archive.list # <<>>
  /\ ~archive.more /\ archive.page < archive.pages
  /\ ArchiveStep([archive EXCEPT !.more = TRUE], detail, ReadsPiece(archive.page + 1))
  /\ UNCHANGED left

\* A row that is edited has no buttons, and keeps the others from being opened.
StartEdit(a) ==
  /\ Spend("analysis")
  /\ ListShown /\ a \in ListedAnalyses \ {archive.editing}
  /\ ArchiveStep([archive EXCEPT !.editing = a], detail, net)

\* Escape, or an empty title.
CancelEdit ==
  /\ ListShown /\ archive.editing # NoAnalysis
  /\ ArchiveStep([archive EXCEPT !.editing = NoAnalysis], detail, net)
  /\ UNCHANGED left

\* Enter, and again when the field loses the focus.
SaveTitle(title) ==
  /\ Spend("analysis")
  /\ ListShown /\ archive.editing # NoAnalysis
  /\ ArchiveStep(archive, detail, And(net, "archive", "rename", archive.editing, title))

AskDrop(a) ==
  /\ Spend("analysis")
  /\ ListShown /\ a \in ListedAnalyses \ {archive.editing}
  /\ ArchiveStep([archive EXCEPT !.asking = a], detail, net)

\* The question is taken away, with or without its request.
AnswerDrop ==
  /\ archive.asking # NoAnalysis
  /\ \E msgs \in {net, And(net, "archive", "drop", archive.asking, None)} :
       ArchiveStep([archive EXCEPT !.asking = NoAnalysis], detail, msgs)
  /\ UNCHANGED left

-----------------------------------------------------------------------------
(* One task                                                                *)

\* The solutions and the workflow are read together; the title is looked for in
\* the latest task, too, as long as it is not known.
OpenTask(a) ==
  /\ Spend("analysis opened")
  /\ ListShown /\ archive.editing = NoAnalysis /\ a \in ListedAnalyses
  /\ ArchiveStep(archive, [ClosedDetail EXCEPT !.of = a, !.loading = TRUE],
                 And(And(And(net, "detail", "solutions", a, None), "detail", "flow", a, None),
                     "detail", "piece", 1, None))

BackToList ==
  /\ detail.of # NoAnalysis
  /\ ArchiveStep(archive, ClosedDetail, Without({"detail"}, net))
  /\ UNCHANGED left

Together(kinds) == {m \in net : m.by = "detail" /\ m.here /\ m.kind \in kinds}

\* Both have been answered, one way or the other. The risk of every solution is
\* asked for at once.
TaskRead(m) ==
  /\ m.kind \in {"solutions", "flow"}
  /\ LET both == Together({"solutions", "flow"})
         read(kind) == {o \in both : o.kind = kind /\ Ok(o)}
         found == UNION {o.answer.data.solutions : o \in read("solutions")}
         others == net \ both
     IN /\ \A o \in both : Answered(o)
        /\ ArchiveStep(archive,
             [detail EXCEPT !.loading = FALSE, !.flow = read("flow") # {}, !.solutions = found,
                            !.failed = read("flow") = {} /\ read("solutions") = {},
                            !.title = IF read("solutions") = {} THEN @
                                      ELSE (CHOOSE o \in read("solutions") : TRUE).answer.data.title,
                            !.checking = found # {}],
             others \cup {Request("detail", "risk", detail.of, s, others) : s \in found})

\* All risks have been told, or could not be.
RisksRead(m) ==
  /\ m.kind = "risk"
  /\ LET all == Together({"risk"})
     IN /\ \A o \in all : Answered(o)
        /\ ArchiveStep(archive, [detail EXCEPT !.checking = FALSE,
                                               !.risks = {o.with : o \in {p \in all : Ok(p)}}],
                       net \ all)

\* What was found as the latest task is of use if it is this one.
LatestRead(m) ==
  /\ m.kind = "piece"
  /\ ArchiveStep(archive,
       [detail EXCEPT !.title = IF Ok(m) /\ m.answer.data.rows # <<>> /\ m.answer.data.rows[1].of = detail.of
                                THEN m.answer.data.rows[1].title ELSE @],
       net \ {m})

-----------------------------------------------------------------------------
(* Answers to the list                                                     *)

\* The first piece replaces the list, the others are put after it.
PieceRead(m) ==
  /\ m.kind = "piece"
  /\ ArchiveStep(
       IF ~Ok(m) THEN [archive EXCEPT !.loading = FALSE, !.more = FALSE]
       ELSE IF archive.loading
       THEN [archive EXCEPT !.loading = FALSE, !.list = m.answer.data.rows,
                            !.pages = m.answer.data.pages, !.known = m.answer.data.known]
       ELSE [archive EXCEPT !.more = FALSE, !.list = @ \o m.answer.data.rows, !.page = m.of,
                            !.pages = m.answer.data.pages],
       detail, net \ {m})

\* Any edit ends, also one that was begun since.
Renamed(m) ==
  /\ m.kind = "rename"
  /\ ArchiveStep(
       [archive EXCEPT !.editing = NoAnalysis,
                       !.list = IF ~Ok(m) THEN @
                                ELSE [i \in DOMAIN @ |-> IF @[i].of = m.of THEN [of |-> m.of, title |-> m.answer.data]
                                                         ELSE @[i]]],
       detail, net \ {m})

\* The rows of a list without those of a task, in their order.
WithoutTask(list, a) ==
  LET rest == {i \in DOMAIN list : list[i].of # a}
      place(n) == CHOOSE i \in rest : Cardinality({j \in rest : j <= i}) = n
  IN [n \in 1 .. Cardinality(rest) |-> list[place(n)]]

TaskDropped(m) ==
  /\ m.kind = "drop"
  /\ ArchiveStep([archive EXCEPT !.list = IF Ok(m) THEN WithoutTask(@, m.of) ELSE @], detail, net \ {m})

DeliverArchive(m) ==
  /\ m.by \in {"archive", "detail"} /\ Answered(m)
  /\ UNCHANGED left
  /\ \/ /\ ~m.here
        /\ ArchiveStep(archive, detail, net \ {m})
     \/ /\ m.here /\ m.by = "archive"
        /\ PieceRead(m) \/ Renamed(m) \/ TaskDropped(m)
     \/ /\ m.here /\ m.by = "detail"
        /\ TaskRead(m) \/ RisksRead(m) \/ LatestRead(m)

ArchiveUser ==
  \/ OpenArchive \/ LeaveArchive \/ LoadMore \/ CancelEdit \/ AnswerDrop \/ BackToList
  \/ \E title \in Renames : SaveTitle(title)
  \/ \E a \in Analyses : StartEdit(a) \/ AskDrop(a) \/ OpenTask(a)

-----------------------------------------------------------------------------

\* What went since the list was first read, also of what came since; what there was
\* then, is still there and is not in the list; and what came.
Went == {a \in Analyses : archive.known[a] # "gone" /\ analyses[a].there = "gone"}
Missed == {a \in Analyses : archive.known[a] = "there" /\ Kept(a)} \ ListedAnalyses
Came == {a \in Analyses : archive.known[a] = "new" /\ analyses[a].there # "new"}
=============================================================================
