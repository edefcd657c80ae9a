--------------------------- MODULE KnowledgePage ---------------------------
(***************************************************************************)
(* The page of the knowledge bases in the browser: its store               *)
(* (store/useKnowledgeStore.ts), the navigator of the bases and groups,    *)
(* the list of items with its polling, the dialogs, the uploads and the    *)
(* recall test, against the routes that serve them.                        *)
(*                                                                         *)
(* The store outlives the page.  A change is a request, and then the lists *)
(* that are read again, one after the other; what waits for the end of     *)
(* such a chain (a dialog, a menu, the next file) is named in the request. *)
(***************************************************************************)
EXTENDS Naturals, FiniteSets, Sequences

CONSTANTS
  None,      \* no base, no group (the section of what is in no group), no item
  Bases, Groups, Items,
  Scenarios  \* what there is at first, and how often the user and the network do each thing

Doings == {"walk", "select", "tab", "manage", "add", "upload", "row", "search", "lost", "polls"}

Tabs   == {"file", "note", "url"}

VARIABLES
  storage,  \* whether an object storage is configured
  bases,    \* on the server: of each base its group, or that it does not exist
  groups,   \* on the server
  items,    \* on the server: [status, base, type, job]
  kb,       \* the store, and the state of the page's components
  net,      \* requests and answers under way
  left      \* what is left of the budget

vars   == <<storage, bases, groups, items, kb, net, left>>
server == <<storage, bases, groups, items>>

\* idle to deleting are "active"; a row made for an upload that is not confirmed
\* is in none of the states the page knows.
Status == {"absent", "uploading", "active", "completed", "failed"}

Rows   == [status : Status, base : Bases \cup {None}, type : Tabs, job : BOOLEAN]
Places == {"absent", None} \cup Groups

\* The base of an item, and of a job, is there.
Placed(rows, places) ==
  \A i \in Items : rows[i].status # "absent" \/ rows[i].job =>
                     rows[i].base # None /\ places[rows[i].base] # "absent"

NoItem == [status |-> "absent", base |-> None, type |-> "file", job |-> FALSE]
Empty  == [i \in Items |-> "absent"]

\* Dialogs whose being open is in the store, and those of the list of items.
StoreDialogs  == {"createBase", "createGroup", "renameBase", "recall"}
DetailDialogs == {"note", "url"}

ASSUME KnowledgePageAssumption ==
  /\ None \notin Bases \cup Groups \cup Items
  /\ None \notin StoreDialogs \cup DetailDialogs
  /\ "absent" \notin Groups \cup {None}
  /\ \A s \in Scenarios :
       /\ s.bases \in [Bases -> Places]
       /\ s.items \in [Items -> Rows]
       /\ Placed(s.items, s.bases)
       /\ s.visited \subseteq Bases
       /\ s.tab \in Tabs
       /\ s.doings \in [Doings -> Nat]

RecallViews == {"empty", "results", "failed"}

TypeOK ==
  /\ bases \in [Bases -> Places]
  /\ groups \subseteq Groups
  /\ items \in [Items -> Rows]
  /\ Placed(items, bases)
  /\ kb.bases \in [Bases -> Places]
  /\ kb.selected \in Bases \cup {None}
  /\ kb.tab \in Tabs
  /\ kb.list \in [Items -> Status]
  /\ kb.dialog \in StoreDialogs \cup DetailDialogs \cup {"renameGroup", None}
  /\ kb.recall \in RecallViews
  /\ kb.dialog \in DetailDialogs => kb.open /\ kb.selected # None
  /\ left \in [Doings -> Nat]

Store == [open |-> FALSE, bases |-> [b \in Bases |-> "absent"], groups |-> {},
          selected |-> None, tab |-> "file", list |-> Empty, loading |-> FALSE,
          dialog |-> None, subject |-> None, menu |-> None, expanded |-> {None},
          recall |-> "empty", sending |-> FALSE, added |-> {}]

\* The page when base b and tab t are selected and all its lists have been read.
Visited(b, t) ==
  [Store EXCEPT !.open = TRUE, !.bases = bases, !.groups = Groups \cap {bases[x] : x \in Bases},
                !.expanded = {None} \cup Groups, !.selected = b, !.tab = t,
                !.list = [i \in Items |-> IF items[i].base = b /\ items[i].type = t
                                         THEN items[i].status ELSE "absent"]]

Init ==
  /\ \E s \in Scenarios : /\ storage = s.storage
                          /\ bases = s.bases
                          /\ items = s.items
                          /\ left = s.doings
                          /\ kb \in IF s.visited = {} THEN {Store} ELSE {Visited(b, s.tab) : b \in s.visited}
  /\ groups = Groups \cap {bases[b] : b \in Bases}
  /\ net = {}

Spend(d) == left[d] > 0 /\ left' = [left EXCEPT ![d] = @ - 1]

-----------------------------------------------------------------------------
(* What is on the page                                                     *)

\* KnowledgeDetail has something to show; a row does not while the list is read.
Shown(k)      == k.open /\ k.selected # None /\ k.bases[k.selected] # "absent"
RowShown(k, i) == Shown(k) /\ ~k.loading /\ k.list[i] # "absent"

RecallShown(k) == k.open /\ k.dialog = "recall" /\ k.selected # None

\* The sections of the navigator, and the rows of those that are unfolded.
Sections    == {None} \cup kb.groups \cup ({kb.bases[b] : b \in Bases} \ {"absent"})
BaseRow(b)  == kb.open /\ kb.bases[b] # "absent" /\ kb.bases[b] \in kb.expanded

\* A dialog lies over the page.
Free == kb.open /\ kb.dialog = None

-----------------------------------------------------------------------------
(* Requests                                                                *)

\* What is read again after a change, in this order.
Chain == [createBase |-> <<"bases", "groups">>, updateBase |-> <<"bases">>,
          deleteBase |-> <<"bases">>, createGroup |-> <<"groups">>,
          deleteGroup |-> <<"groups", "bases">>, updateGroup |-> <<"groups", "bases">>,
          add |-> <<"items", "bases">>, remove |-> <<"items", "bases">>,
          reindex |-> <<"items", "bases">>, direct |-> <<"items", "bases">>,
          confirm |-> <<"items", "bases">>]
Changes == DOMAIN Chain

Waiting == [status |-> "waiting"]
Fresh(kind, others) ==
  CHOOSE k \in 0 .. Cardinality(others) : \A m \in others : m.kind = kind => m.n # k

\* to is the base an item is of, or the group a base is moved to, and of what is
\* changed, or the base that was selected when files were chosen; many counts
\* the files that follow, or tells the submissions of addresses apart.
Request(kind, of, to, by, others) ==
  [kind |-> kind, of |-> of, to |-> to, tab |-> kb.tab, by |-> by, many |-> 0, here |-> TRUE,
   rest |-> IF kind \in Changes THEN Chain[kind] ELSE <<>>, answer |-> Waiting, n |-> Fresh(kind, others)]

\* m is followed by another request of the same chain.
Followed(m, kind, rest, others) ==
  [m EXCEPT !.kind = kind, !.rest = rest, !.tab = kb.tab, !.answer = Waiting, !.n = Fresh(kind, others)]

Success(data) == [status |-> "ok", data |-> data]
Refused       == [status |-> "refused"]
Answered(m) == m.answer.status # "waiting"
Ok(m)       == m.answer.status = "ok"

Done(m, answer) == net' = (net \ {m}) \cup {[m EXCEPT !.answer = answer]}

\* Whether the component that sent m is still there.
Present(m, k) ==
  CASE m.by \in DetailDialogs             -> Shown(k)
    [] m.by = "row"                       -> RowShown(k, m.of)
    [] m.by \in {"menu", "renameGroup"} \cup StoreDialogs -> k.open
    [] m.by = "search"                    -> RecallShown(k) /\ k.selected = m.of
    [] OTHER                              -> TRUE

\* Mutant of Settles: a dialog stays open without what it belongs to.
SettlesOpen(k, msgs) ==
  /\ kb' = [k EXCEPT !.recall = IF RecallShown(k) /\ k.selected = kb.selected THEN @ ELSE "empty"]
  /\ net' = {[m EXCEPT !.here = @ /\ Present(m, k)] : m \in msgs}
  /\ UNCHANGED server

\* Every step of the browser ends with the store and what is under way; what
\* belonged to a component that is gone is lost.
Settles(k, msgs) ==
  /\ kb' = [k EXCEPT !.dialog = IF @ \in DetailDialogs /\ ~Shown(k) THEN None ELSE @,
                     !.recall = IF RecallShown(k) /\ k.selected = kb.selected THEN @ ELSE "empty"]
  /\ net' = {[m EXCEPT !.here = @ /\ Present(m, k)] : m \in msgs}
  /\ UNCHANGED server

Sends(k, kind, of, by) == Settles(k, net \cup {Request(kind, of, k.selected, by, net)})

\* fetchBases and fetchItems begin with a list that is loading, a poll does not.
Loads(rest, l) == IF rest # <<>> THEN Head(rest) # "groups" \/ l ELSE l

-----------------------------------------------------------------------------
(* The server                                                              *)

Exists(b) == b # None /\ bases[b] # "absent"
Of(b, t)  == [i \in Items |-> IF items[i].base = b /\ items[i].type = t THEN items[i].status
                              ELSE "absent"]

\* A row for a new item, of which a job that indexes it is queued or not.
\* Bound: the server answers as long as there is an item, a base or a group to spare.
NewItem == CHOOSE i \in Items : items[i].status = "absent"
Makes(b, t, status, job) ==
  /\ \E i \in Items : items[i].status = "absent"
  /\ items' = [items EXCEPT ![NewItem] = [status |-> status, base |-> b, type |-> t, job |-> job]]

ServesLists(m) ==
  /\ UNCHANGED server
  /\ \/ m.kind = "bases" /\ Done(m, Success(bases))
     \/ m.kind = "groups" /\ Done(m, Success(groups))
     \/ m.kind = "items" /\ Done(m, IF Exists(m.to) THEN Success(Of(m.to, m.tab)) ELSE Refused)
     \/ m.kind = "search" /\ \/ Exists(m.of) /\ Done(m, Success("results"))
                             \/ Done(m, Refused)

\* update_base drops what is null: a base is moved to another group, never out of one.
ServesBases(m) ==
  /\ UNCHANGED storage
  /\ \/ /\ m.kind = "createBase"
        /\ \E b \in Bases : bases[b] = "absent"
        /\ bases' = [bases EXCEPT ![CHOOSE b \in Bases : bases[b] = "absent"] = m.of]
        /\ Done(m, Success("created"))
        /\ UNCHANGED <<groups, items>>
     \/ /\ m.kind = "updateBase"
        /\ IF Exists(m.of)
           THEN /\ bases' = IF m.to = None THEN bases
                            ELSE [bases EXCEPT ![m.of] = m.to]
                /\ Done(m, Success("updated"))
           ELSE UNCHANGED bases /\ Done(m, Refused)
        /\ UNCHANGED <<groups, items>>
     \/ /\ m.kind = "deleteBase"
        /\ bases' = [bases EXCEPT ![m.of] = "absent"]
        /\ items' = [i \in Items |-> IF items[i].base = m.of THEN NoItem ELSE items[i]]
        /\ Done(m, IF Exists(m.of) THEN Success("deleted") ELSE Refused)
        /\ UNCHANGED groups
     \/ /\ m.kind = "createGroup"
        /\ Groups \ groups # {}
        /\ groups' = groups \cup {CHOOSE g \in Groups : g \notin groups}
        /\ Done(m, Success("created"))
        /\ UNCHANGED <<bases, items>>
     \/ /\ m.kind = "deleteGroup"
        /\ groups' = groups \ {m.of}
        /\ bases' = [b \in Bases |-> IF bases[b] = m.of THEN None ELSE bases[b]]
        /\ Done(m, Success("deleted"))
        /\ UNCHANGED items
     \/ /\ m.kind = "updateGroup"
        /\ Done(m, IF m.of \in groups THEN Success("updated") ELSE Refused)
        /\ UNCHANGED <<bases, groups, items>>

\* An address, a note, and a file that is sent to the server.
ServesAdd(m) ==
  /\ m.kind \in {"add", "direct"}
  /\ IF Exists(m.to)
     THEN /\ Makes(m.to, m.tab, "active", TRUE)
          /\ Done(m, Success("created"))
     ELSE UNCHANGED items /\ Done(m, Refused)
  /\ UNCHANGED <<storage, bases, groups>>

\* A file that is sent to the storage.  The row made for it has another id than
\* the one that is returned, so that the confirmation makes a second row, and
\* queues a job for neither of them.
ServesUpload(m) ==
  /\ UNCHANGED <<storage, bases, groups>>
  /\ \/ /\ m.kind = "uploadUrl"
        /\ IF storage /\ Exists(m.to)
           THEN /\ Makes(m.to, "file", "uploading", FALSE)
                /\ Done(m, Success("url"))
           ELSE UNCHANGED items /\ Done(m, Refused)
     \/ /\ m.kind = "put"
        /\ UNCHANGED items
        /\ \E answer \in {Success("stored"), Refused} : Done(m, answer)
     \/ /\ m.kind = "confirm"
        /\ IF Exists(m.to)
           THEN /\ Makes(m.to, "file", "active", FALSE)
                /\ Done(m, Success("confirmed"))
           ELSE UNCHANGED items /\ Done(m, Refused)

\* An item of another base than the one that is named is left alone, and no
\* error says so.
ServesItems(m) ==
  /\ UNCHANGED <<storage, bases, groups>>
  /\ \/ /\ m.kind = "remove"
        /\ items' = [items EXCEPT ![m.of] = NoItem]
        /\ Done(m, IF items[m.of].status = "absent" THEN Refused ELSE Success("deleted"))
     \/ /\ m.kind = "reindex"
        /\ IF items[m.of].base = m.to /\ items[m.of].status \in {"completed", "failed"}
           THEN /\ items' = [items EXCEPT ![m.of].status = "active", ![m.of].job = TRUE]
                /\ Done(m, Success("queued"))
           ELSE /\ UNCHANGED items
                /\ Done(m, IF Exists(m.to) /\ items[m.of].base # m.to THEN Success("queued")
                           ELSE Refused)

Serve(m) ==
  /\ ~Answered(m)
  /\ \/ ServesLists(m) \/ ServesBases(m) \/ ServesAdd(m) \/ ServesUpload(m) \/ ServesItems(m)
  /\ UNCHANGED <<kb, left>>

\* The job of an item ends.
Index(i) ==
  /\ items[i].job
  /\ \E status \in {"completed", "failed"} :
       items' = [items EXCEPT ![i].status = status, ![i].job = FALSE]
  /\ UNCHANGED <<storage, bases, groups, kb, net, left>>

\* A request or its answer gets lost.
Lose(m) ==
  /\ Spend("lost")
  /\ Ok(m) \/ ~Answered(m)
  /\ Done(m, Refused)
  /\ UNCHANGED <<server, kb>>

-----------------------------------------------------------------------------
(* Answers                                                                 *)

Waits(by) == \E m \in net : m.by = by /\ m.here

\* The end of a chain, for who waits for it: a dialog is closed after a
\* success, be it another one by then; a menu is.
Ended(m, ok, k) ==
  CASE m.by \in {"note", "renameGroup"}
         -> [k EXCEPT !.dialog = IF m.here /\ ok /\ @ = m.by THEN None ELSE @]
    [] m.by \in StoreDialogs -> [k EXCEPT !.dialog = IF ok /\ @ = m.by THEN None ELSE @]
    [] m.by = "menu"   -> [k EXCEPT !.menu = IF m.here /\ ok THEN None ELSE @]
    [] OTHER           -> k

\* The dialog for addresses waits for all of them, and stays open if none was added.
AddressEnded(m, ok, k) ==
  LET added == k.added \cup {g \in {m.many} : ok}
      last  == ~ \E o \in net \ {m} : o.by = "url" /\ o.many = m.many
  IN IF last
     THEN [k EXCEPT !.added = added \ {m.many},
                    !.sending = IF m.here THEN FALSE ELSE @,
                    !.dialog = IF m.here /\ m.many \in added /\ @ = "url" THEN None ELSE @]
     ELSE [k EXCEPT !.added = added]

\* The rest of the chain of m, or its end and then the next file, which goes to
\* the base of the first one.
Follows(m, chain, ok, k) ==
  LET others == net \ {m}
  IN IF ok /\ chain.rest # <<>>
     THEN Settles([k EXCEPT !.loading = Loads(chain.rest, @)],
                  others \cup {Followed(chain, Head(chain.rest), Tail(chain.rest), others)})
     ELSE IF ok /\ m.by = "upload" /\ m.many > 0
     THEN Settles(k, others \cup {[Followed(m, "uploadUrl", <<>>, others)
                                    EXCEPT !.to = m.of, !.many = @ - 1]})
     ELSE Settles(IF m.by = "url" THEN AddressEnded(m, ok, k) ELSE Ended(m, ok, k), others)

Goes(m, ok, k) == Follows(m, m, ok, k)

\* fetchBases: the first base is selected if none is, and its items are read.
BasesAnswered(m) ==
  /\ m.kind = "bases"
  /\ LET read  == IF Ok(m) THEN m.answer.data ELSE Store.bases
         k     == [kb EXCEPT !.bases = read, !.loading = FALSE]
         there == {b \in Bases : read[b] # "absent"}
     IN IF there # {} /\ kb.selected = None
        THEN \E b \in there : Follows(m, [m EXCEPT !.rest = <<"items">> \o @, !.to = b], TRUE,
                                      [k EXCEPT !.selected = b])
        ELSE Goes(m, TRUE, k)

GroupsAnswered(m) ==
  /\ m.kind = "groups"
  /\ Goes(m, TRUE, [kb EXCEPT !.groups = IF Ok(m) THEN m.answer.data ELSE {}])

\* Mutant of ItemsAnswered: what a poll has read is not shown.
ItemsAnsweredUnpolled(m) ==
  /\ m.kind = "items"
  /\ Goes(m, TRUE, [kb EXCEPT !.loading = FALSE,
                              !.list = IF m.by = "poll" THEN @
                                       ELSE IF Ok(m) THEN m.answer.data ELSE Empty])

\* Mutant of ItemsAnswered: the sign that the list is read stays after a failure.
ItemsAnsweredLoading(m) ==
  /\ m.kind = "items"
  /\ Goes(m, TRUE, [kb EXCEPT !.list = IF Ok(m) THEN m.answer.data ELSE Empty,
                              !.loading = @ /\ ~Ok(m)])

\* fetchItems: what is read is shown, whichever base and tab are selected by then.
ItemsAnswered(m) ==
  /\ m.kind = "items"
  /\ Goes(m, TRUE, [kb EXCEPT !.list = IF Ok(m) THEN m.answer.data ELSE Empty,
                              !.loading = FALSE])

\* A change: a base that was deleted is no longer selected; after a deletion
\* the items of the base that is selected by then are read.
ChangeAnswered(m) ==
  /\ m.kind \in Changes
  /\ IF m.kind = "deleteBase" /\ Ok(m) /\ kb.selected = m.of
     THEN Goes(m, TRUE, [kb EXCEPT !.selected = None, !.list = Empty])
     ELSE IF m.kind = "remove"
     THEN Follows(m, [m EXCEPT !.to = kb.selected,
                               !.rest = IF kb.selected = None THEN <<"bases">> ELSE @], Ok(m), kb)
     ELSE Goes(m, Ok(m), kb)

\* uploadFileWithFallback: without an address of the storage, the file is sent
\* to the server; what the storage refuses ends the batch.
UploadAnswered(m) ==
  /\ m.kind \in {"uploadUrl", "put"}
  /\ LET others == net \ {m}
         next   == IF m.kind = "put" THEN "confirm" ELSE IF Ok(m) THEN "put" ELSE "direct"
         rest   == IF next = "put" THEN <<>> ELSE Chain[next]
     IN Settles(kb, others \cup
                    (IF m.kind = "put" /\ ~Ok(m) THEN {}
                     ELSE {[Followed(m, next, rest, others) EXCEPT !.tab = "file"]}))

SearchAnswered(m) ==
  /\ m.kind = "search"
  /\ Settles([kb EXCEPT !.recall = IF m.here THEN IF Ok(m) THEN "results" ELSE "failed" ELSE @],
             net \ {m})

Deliver(m) ==
  /\ Answered(m)
  /\ \/ BasesAnswered(m) \/ GroupsAnswered(m) \/ ItemsAnswered(m) \/ ChangeAnswered(m)
     \/ UploadAnswered(m) \/ SearchAnswered(m)
  /\ UNCHANGED left

-----------------------------------------------------------------------------
(* The page and the navigator                                              *)

\* The page begins with both lists; the rest of the store is as it was left.
OpenPage ==
  /\ ~kb.open
  /\ LET first == net \cup {Request("bases", None, None, "page", net)}
     IN Settles([kb EXCEPT !.open = TRUE, !.expanded = {None}, !.loading = TRUE],
                first \cup {Request("groups", None, None, "page", first)})
  /\ UNCHANGED left

LeavePage ==
  /\ Spend("walk")
  /\ kb.open
  /\ Settles([kb EXCEPT !.open = FALSE, !.menu = None,
                        !.dialog = IF @ \in StoreDialogs THEN @ ELSE None], net)

SelectBase(b) ==
  /\ Spend("select")
  /\ Free /\ BaseRow(b)
  /\ Sends([kb EXCEPT !.selected = b, !.tab = "file", !.list = Empty, !.loading = TRUE], "items", None,
           "select")

\* The fold of a section is kept here, and in no other visit of the page.
ToggleGroup(g) ==
  /\ Spend("select")
  /\ Free /\ g \in Sections
  /\ kb' = [kb EXCEPT !.expanded = IF g \in @ THEN @ \ {g} ELSE @ \cup {g}]
  /\ UNCHANGED <<server, net>>

\* The menus of a base, of a group that is known, and of what can be created.
OpenMenu(x) ==
  /\ Spend("manage")
  /\ Free /\ kb.menu # x
  /\ x \in kb.groups \cup {"create"} \cup {b \in Bases : BaseRow(b)}
  /\ kb' = [kb EXCEPT !.menu = x]
  /\ UNCHANGED <<server, net>>

CloseMenu ==
  /\ kb.menu # None
  /\ kb' = [kb EXCEPT !.menu = None]
  /\ UNCHANGED <<server, net, left>>

\* Entries that send a request leave the menu open until its end.
BaseMenu(b) ==
  /\ Spend("manage")
  /\ Free /\ kb.menu = b
  /\ \/ Sends(kb, "deleteBase", b, "menu")
     \/ \E g \in (kb.groups \cup {None}) \ ({kb.bases[b]} \ {None}) :
          Settles(kb, net \cup {Request("updateBase", b, g, "menu", net)})

DeleteGroup(g) ==
  /\ Spend("manage")
  /\ Free /\ kb.menu = g
  /\ Sends(kb, "deleteGroup", g, "menu")

\* Entries that open a dialog, whose subject is what the menu was of.
Opens == [base |-> {"renameBase"}, group |-> {"renameGroup", "createBase"},
          create |-> {"createBase", "createGroup"}]
MenuOf(x) == IF x \in Bases THEN "base" ELSE IF x \in Groups THEN "group" ELSE "create"

MenuDialog ==
  /\ Spend("manage")
  /\ Free /\ kb.menu # None
  /\ \E d \in Opens[MenuOf(kb.menu)] :
       kb' = [kb EXCEPT !.dialog = d, !.menu = None,
                        !.subject = IF kb.menu = "create" THEN None ELSE kb.menu]
  /\ UNCHANGED <<server, net>>

\* Without a selection there is a button for it.
OfferBase ==
  /\ Spend("manage")
  /\ Free /\ kb.selected = None
  /\ kb' = [kb EXCEPT !.dialog = "createBase", !.subject = None]
  /\ UNCHANGED <<server, net>>

CloseDialog ==
  /\ kb.open /\ kb.dialog # None
  /\ Settles([kb EXCEPT !.dialog = None], net)
  /\ UNCHANGED left

\* The forms for a name: only the one for a new base waits for its answer.
Submit(kind) == Settles(kb, net \cup {Request(kind, kb.subject, None, kb.dialog, net)})

SubmitBase ==
  /\ Spend("manage")
  /\ kb.open /\ kb.dialog = "createBase" /\ ~Waits("createBase")
  /\ Submit("createBase")

SubmitGroup ==
  /\ Spend("manage")
  /\ kb.open /\ kb.dialog = "createGroup"
  /\ Submit("createGroup")

SubmitBaseName ==
  /\ Spend("manage")
  /\ kb.open /\ kb.dialog = "renameBase"
  /\ Submit("updateBase")

SubmitGroupName ==
  /\ Spend("manage")
  /\ kb.open /\ kb.dialog = "renameGroup"
  /\ Submit("updateGroup")

-----------------------------------------------------------------------------
(* The items                                                               *)

SetActiveTab(t) ==
  /\ Spend("tab")
  /\ Free /\ Shown(kb)
  /\ Settles([kb EXCEPT !.tab = t, !.loading = TRUE],
             net \cup {[Request("items", None, kb.selected, "tab", net) EXCEPT !.tab = t]})

\* The dialog of the tab; the one for addresses forgets what it has sent.
OpenAdd ==
  /\ Spend("add")
  /\ Free /\ Shown(kb) /\ kb.tab \in DetailDialogs
  /\ kb' = [kb EXCEPT !.dialog = kb.tab, !.sending = IF kb.tab = "url" THEN FALSE ELSE @]
  /\ UNCHANGED <<server, net>>

SaveNote ==
  /\ Spend("add")
  /\ kb.open /\ kb.dialog = "note" /\ ~Waits("note")
  /\ Settles(kb, net \cup {[Request("add", None, kb.selected, "note", net) EXCEPT !.tab = "note"]})

\* One address or two, each a request of its own; left["add"] tells submissions apart.
SubmitAddresses ==
  /\ Spend("add")
  /\ kb.open /\ kb.dialog = "url" /\ ~kb.sending
  /\ LET One(others) == others \cup {[Request("add", None, kb.selected, "url", others)
                                        EXCEPT !.tab = "url", !.many = left["add"]]}
     IN \E msgs \in {One(net), One(One(net))} : Settles([kb EXCEPT !.sending = TRUE], msgs)

\* Files that are chosen or dropped go to the base selected then, one by one.
ChooseFiles ==
  /\ Spend("upload")
  /\ Free /\ Shown(kb) /\ kb.tab = "file"
  /\ \E more \in {0, 1} :
       Settles(kb, net \cup {[Request("uploadUrl", kb.selected, kb.selected, "upload", net)
                                EXCEPT !.many = more]})

Reindexing(i) == \E m \in net : m.kind = "reindex" /\ m.of = i /\ m.here

DeleteItem(i) ==
  /\ Spend("row")
  /\ Free /\ RowShown(kb, i) /\ ~Reindexing(i)
  /\ Sends(kb, "remove", i, "delete")

ReindexItem(i) ==
  /\ Spend("row")
  /\ Free /\ RowShown(kb, i) /\ ~Reindexing(i)
  /\ kb.list[i] \in {"completed", "failed"}
  /\ Sends(kb, "reindex", i, "row")

\* Every three seconds, while an item of the list is active, the list is read
\* again without a sign of it.
Polling == kb.open /\ kb.selected # None /\ \E i \in Items : kb.list[i] = "active"

Poll ==
  /\ Polling
  /\ Cardinality({m \in net : m.by = "poll"}) < left["polls"]
  /\ Sends(kb, "items", None, "poll")
  /\ UNCHANGED left

OpenRecall ==
  /\ Spend("search")
  /\ Free /\ Shown(kb)
  /\ kb' = [kb EXCEPT !.dialog = "recall"]
  /\ UNCHANGED <<server, net>>

RunSearch ==
  /\ Spend("search")
  /\ RecallShown(kb) /\ ~Waits("search")
  /\ Sends([kb EXCEPT !.recall = "empty"], "search", kb.selected, "search")

-----------------------------------------------------------------------------

User ==
  \/ OpenPage \/ LeavePage \/ CloseMenu \/ MenuDialog \/ OfferBase \/ CloseDialog
  \/ SubmitBase \/ SubmitGroup \/ SubmitBaseName \/ SubmitGroupName
  \/ OpenAdd \/ SaveNote \/ SubmitAddresses \/ ChooseFiles \/ OpenRecall \/ RunSearch
  \/ \E b \in Bases : SelectBase(b) \/ BaseMenu(b)
  \/ \E g \in Groups : DeleteGroup(g)
  \/ \E g \in Groups \cup {None} : ToggleGroup(g)
  \/ \E x \in Bases \cup Groups \cup {"create"} : OpenMenu(x)
  \/ \E t \in Tabs : SetActiveTab(t)
  \/ \E i \in Items : DeleteItem(i) \/ ReindexItem(i)

Next == \/ User \/ Poll
        \/ \E i \in Items : Index(i)
        \/ \E m \in net : Serve(m) \/ Lose(m) \/ Deliver(m)

Spec == Init /\ [][Next]_vars

Senders == {"page", "select", "tab", "poll", "row", "delete", "upload", "search", "menu",
            "renameGroup"} \cup StoreDialogs \cup DetailDialogs

\* The server and the network answer everybody, jobs end, and the interval goes on.
Fairness ==
  /\ \A w \in Senders : /\ WF_vars(\E m \in net : m.by = w /\ Serve(m))
                        /\ WF_vars(\E m \in net : m.by = w /\ Deliver(m))
  /\ \A i \in Items : WF_vars(Index(i))
  /\ WF_vars(Poll)

FairSpec == Spec /\ Fairness

-----------------------------------------------------------------------------
(* Properties                                                              *)

\* The page does not show an item as being worked on for ever: what it shows
\* may be the list of another base, or older than a change, but as long as it
\* shows work the list is read again (KnowledgeDetail, hasActiveItems).
StatusCatchesUp ==
  <>[](Shown(kb) => \A i \in Items : kb.list[i] = "active" => items[i].status = "active")

\* The sign that a list is being read goes away in the end, after lost requests
\* and refused changes too (fetchBases, fetchItems).
LoadingEnds == <>[](~kb.loading)

\* A file that was sent to the storage and confirmed is worked on in the
\* background, and comes to an end (get_upload_url, confirm_upload).
UploadedIsIndexed ==
  \A i \in Items : items[i].status = "active" ~> items[i].status \in {"absent", "completed", "failed"}
=============================================================================
