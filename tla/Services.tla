------------------------------ MODULE Services ------------------------------
(***************************************************************************)
(* The catalogue of model services with its form (ModelServicePanel,       *)
(* ModelServiceForm), and the services a user may use, in the order in     *)
(* which they are tried (UserModelServicesPage), against their routes.     *)
(***************************************************************************)
EXTENDS Network, Sequences

LOCAL INSTANCE SequencesExt

CONSTANT Providers  \* identifiers a service can be given

\* Capabilities with a queue of their own: video asks for a video protocol, the
\* others are alike.
Capabilities == {"chat", "video"}
Protocols    == {"openai", "video"}

\* At first a queue holds services that are there: provider_id refers to the table
\* of the providers.
ASSUME ServicesAssumption ==
  /\ None \notin Providers
  /\ \A s \in Scenarios :
       /\ s.providers \in [Providers -> Protocols \cup {"absent"}]
       /\ s.queue \in [Capabilities -> [Providers -> [rank : Nat, on : BOOLEAN]]]
       /\ \A c \in Capabilities, p \in Providers :
            s.queue[c][p].rank > 0 => s.providers[p] # "absent"

VARIABLES
  providers,  \* of each service its protocol, or that it does not exist
  queue,      \* of each capability and service its rank, 0 for none, and whether it is on
  catalog,    \* the page of the catalogue
  sections    \* the page of the services of a user, a section for each capability

serviceVars == <<providers, queue, catalog, sections>>

NoForm == [mode |-> None, of |-> None, protocol |-> "openai", filled |-> FALSE,
           saving |-> FALSE, detecting |-> FALSE]

ClosedCatalog == [open |-> FALSE, list |-> [p \in Providers |-> "absent"], loading |-> FALSE,
                  form |-> NoForm]

ClosedSection == [open |-> FALSE, enabled |-> <<>>, available |-> {}, loading |-> FALSE,
                  failed |-> FALSE, drag |-> 0]

ServicesInit(s) ==
  /\ providers = s.providers
  /\ queue = s.queue
  /\ catalog = IF "catalog" \in s.shown THEN [ClosedCatalog EXCEPT !.open = TRUE, !.list = providers]
                ELSE ClosedCatalog
  /\ sections = [c \in Capabilities |-> ClosedSection]

-----------------------------------------------------------------------------
(* The server                                                              *)

Known(p)   == p # None /\ providers[p] # "absent"
InQueue(c) == {p \in Providers : queue[c][p].rank > 0}
Order(c)   == SetToSortSeq(InQueue(c), LAMBDA p, q : queue[c][p].rank < queue[c][q].rank)

Enabled(c)   == [i \in 1 .. Len(Order(c)) |-> [of |-> Order(c)[i], on |-> queue[c][Order(c)[i]].on]]
Available(c) == {p \in Providers \ InQueue(c) : Known(p) /\ (c = "video" => providers[p] = "video")}

Out == [rank |-> 0, on |-> FALSE]

\* Mutant of Dropped: only the queue of the first capability.
DroppedChat(p) == [queue EXCEPT !["chat"][p] = Out]

Dropped(p) == [c \in Capabilities |-> [queue[c] EXCEPT ![p] = Out]]

\* A service that is edited may speak another protocol; one that is deleted is
\* taken out of every queue.
ServesCatalog(m) ==
  \/ /\ m.kind = "providers" /\ Done(m, Success(providers))
     /\ UNCHANGED <<providers, queue>>
  \/ /\ m.kind \in {"addProvider", "editProvider"}
     /\ IF Known(m.of) = (m.kind = "editProvider")
        THEN /\ providers' = [providers EXCEPT ![m.of] = m.with]
             /\ Done(m, Success("saved"))
        ELSE UNCHANGED providers /\ Done(m, Refused)
     /\ UNCHANGED queue
  \/ /\ m.kind = "deleteProvider"
     /\ providers' = [providers EXCEPT ![m.of] = "absent"]
     /\ queue' = Dropped(m.of)
     /\ Done(m, Success("deleted"))
  \/ /\ m.kind = "detect"
     /\ \E answer \in {Success("models"), Refused} : Done(m, answer)
     /\ UNCHANGED <<providers, queue>>
  \/ /\ m.kind = "check" /\ Done(m, Success("checked"))
     /\ UNCHANGED <<providers, queue>>

NextRank(c) == 1 + (IF InQueue(c) = {} THEN 0 ELSE queue[c][Order(c)[Len(Order(c))]].rank)

\* Two additions at a time may read the same next rank, and one then fails.
Contended(m) == \E o \in net \ {m} : o.kind = "add" /\ o.of = m.of /\ o.answer = Waiting

\* The ranks are given one after the other, and no two rows of a queue may have
\* the same one, not even for a moment.
Placeable(c, s) == \A i, j \in 1 .. Len(s) : i < j => queue[c][s[j]].rank # i

\* What is ordered is in the queue then, in that order, and on if it was.
Placed(c, s) ==
  [p \in Providers |-> IF \E i \in 1 .. Len(s) : s[i] = p
                       THEN [rank |-> CHOOSE i \in 1 .. Len(s) : s[i] = p,
                             on |-> queue[c][p].rank = 0 \/ queue[c][p].on]
                       ELSE Out]

\* m.of is the capability.
ServesQueue(m) ==
  /\ UNCHANGED providers
  /\ LET c == m.of
         p == m.with
     IN \/ /\ m.kind = "enabled" /\ Done(m, Success(Enabled(c)))
           /\ UNCHANGED queue
        \/ /\ m.kind = "available" /\ Done(m, Success(Available(c)))
           /\ UNCHANGED queue
        \/ /\ m.kind = "add" /\ p \in InQueue(c) /\ Done(m, Success("already"))
           /\ UNCHANGED queue
        \/ /\ m.kind = "add" /\ p \notin InQueue(c) /\ Known(p)
           /\ queue' = [queue EXCEPT ![c][p] = [rank |-> NextRank(c), on |-> TRUE]]
           /\ Done(m, Success("added"))
        \/ /\ m.kind = "add" /\ p \notin InQueue(c) /\ (~Known(p) \/ Contended(m))
           /\ Done(m, Refused)
           /\ UNCHANGED queue
        \/ /\ m.kind = "remove"
           /\ queue' = [queue EXCEPT ![c][p] = Out]
           /\ Done(m, Success("removed"))
        \/ /\ m.kind \in {"on", "off"}
           /\ IF p \in InQueue(c)
              THEN /\ queue' = [queue EXCEPT ![c][p].on = m.kind = "on"]
                   /\ Done(m, Success("toggled"))
              ELSE UNCHANGED queue /\ Done(m, Refused)
        \/ /\ m.kind = "order"
           /\ IF Placeable(c, p) /\ \A i \in 1 .. Len(p) : Known(p[i])
              THEN queue' = [queue EXCEPT ![c] = Placed(c, p)] /\ Done(m, Success("reordered"))
              ELSE UNCHANGED queue /\ Done(m, Refused)

ServesServices(m) ==
  /\ m.answer = Waiting
  /\ ServesCatalog(m) \/ ServesQueue(m)
  /\ UNCHANGED <<catalog, sections, left>>

-----------------------------------------------------------------------------
(* The catalogue                                                           *)

\* load: nothing tells that it failed but the list that stays as it was.
ReadsCatalog(msgs) == And(msgs, "catalog", "providers", None, None)

CatalogStep(k, msgs) ==
  /\ catalog' = k
  /\ net' = msgs
  /\ UNCHANGED <<providers, queue, sections>>

OpenCatalog ==
  /\ Spend("catalog")
  /\ ~catalog.open
  /\ CatalogStep([ClosedCatalog EXCEPT !.open = TRUE, !.loading = TRUE], ReadsCatalog(net))

\* A form that is closed still has its answer close another one of the same page,
\* but of no other page.
OfCatalog(msgs) == {[m EXCEPT !.by = IF @ = "form" THEN "catalog" ELSE @] : m \in msgs}

LeaveCatalog ==
  /\ Spend("catalog")
  /\ catalog.open
  /\ CatalogStep(ClosedCatalog, Without({"catalog"}, OfCatalog(net)))

\* Nothing lies over the list.
CatalogFree == catalog.open /\ catalog.form.mode = None

\* The list that is searched, once it is read.
Cards == {p \in Providers : ~catalog.loading /\ catalog.list[p] # "absent"}

CheckProvider(p) ==
  /\ Spend("provider")
  /\ CatalogFree /\ p \in Cards
  /\ CatalogStep(catalog, And(net, "catalog", "check", p, None))

DeleteProvider(p) ==
  /\ Spend("provider")
  /\ CatalogFree /\ p \in Cards
  /\ CatalogStep(catalog, And(net, "catalog", "deleteProvider", p, None))

\* A new form each time, that is filled with what the list says.
OpenAddForm ==
  /\ Spend("form")
  /\ CatalogFree
  /\ CatalogStep([catalog EXCEPT !.form = [NoForm EXCEPT !.mode = "add"]], net)

OpenEditForm(p) ==
  /\ Spend("form")
  /\ CatalogFree /\ p \in Cards
  /\ CatalogStep([catalog EXCEPT !.form = [NoForm EXCEPT !.mode = "edit", !.of = p,
                                                        !.protocol = catalog.list[p]]], net)

CloseForm ==
  /\ catalog.form.mode # None
  /\ CatalogStep([catalog EXCEPT !.form = NoForm], Without({"form"}, net))
  /\ UNCHANGED left

\* All that is asked for is typed in; the identifier only of a new service.
FillForm(p, protocol) ==
  /\ Spend("form")
  /\ catalog.form.mode # None
  /\ catalog.form.mode = "edit" => p = catalog.form.of
  /\ CatalogStep([catalog EXCEPT !.form.of = p, !.form.protocol = protocol, !.form.filled = TRUE], net)

DetectModels ==
  /\ Spend("form")
  /\ catalog.form.filled /\ ~catalog.form.detecting
  /\ CatalogStep([catalog EXCEPT !.form.detecting = TRUE], And(net, "form", "detect", None, None))

\* Without all fields the form says so, and stays as it is.
SaveForm ==
  /\ Spend("form")
  /\ catalog.form.filled /\ ~catalog.form.saving
  /\ CatalogStep([catalog EXCEPT !.form.saving = TRUE],
                 And(net, "form", IF catalog.form.mode = "add" THEN "addProvider" ELSE "editProvider",
                     catalog.form.of, catalog.form.protocol))

CatalogAnswered(m) ==
  /\ m.by = "catalog"
  /\ LET others == net \ {m}
     IN \/ /\ m.kind = "providers" /\ m.here
           /\ CatalogStep([catalog EXCEPT !.loading = FALSE,
                                          !.list = IF Ok(m) THEN m.answer.data ELSE @], others)
        \/ /\ m.kind = "deleteProvider" /\ m.here /\ Ok(m)
           /\ CatalogStep(catalog, ReadsCatalog(others))
        \/ /\ m.kind = "check" \/ ~m.here \/ (m.kind = "deleteProvider" /\ ~Ok(m))
           /\ CatalogStep(catalog, others)

\* What was saved closes the form, be it another one by then, and the list is
\* read again.
FormAnswered(m) ==
  /\ m.by = "form"
  /\ LET others == net \ {m}
         rest   == IF m.kind = "detect"
                   THEN [catalog EXCEPT !.form.detecting = @ /\ ~m.here]
                   ELSE [catalog EXCEPT !.form.saving = @ /\ ~m.here]
     IN IF m.kind # "detect" /\ Ok(m) /\ catalog.open
        THEN CatalogStep([catalog EXCEPT !.form = NoForm], ReadsCatalog(Without({"form"}, others)))
        ELSE CatalogStep(rest, others)

-----------------------------------------------------------------------------
(* The services of a user                                                  *)

\* Two requests, for what is enabled and for what is not.
ReadsSection(c, msgs) == And(And(msgs, c, "enabled", c, None), c, "available", c, None)

SectionStep(c, k, msgs) ==
  /\ sections' = [sections EXCEPT ![c] = k]
  /\ net' = msgs
  /\ UNCHANGED <<providers, queue, catalog>>

\* load clears what an earlier failure said.
Loads(c, k, msgs) == SectionStep(c, [k EXCEPT !.failed = FALSE], ReadsSection(c, msgs))

OpenSections ==
  /\ Spend("sections")
  /\ \A c \in Capabilities : ~sections[c].open
  /\ sections' = [c \in Capabilities |-> [ClosedSection EXCEPT !.open = TRUE, !.loading = TRUE]]
  /\ net' = ReadsSection("chat", ReadsSection("video", net))
  /\ UNCHANGED <<providers, queue, catalog>>

LeaveSections ==
  /\ Spend("sections")
  /\ \E c \in Capabilities : sections[c].open
  /\ sections' = [c \in Capabilities |-> ClosedSection]
  /\ net' = Without(Capabilities, net)
  /\ UNCHANGED <<providers, queue, catalog>>

Rows(c) == IF sections[c].loading THEN {} ELSE 1 .. Len(sections[c].enabled)

AddService(c, p) ==
  /\ Spend("service")
  /\ ~sections[c].loading /\ p \in sections[c].available
  /\ SectionStep(c, sections[c], And(net, c, "add", c, p))

RemoveService(c, i) ==
  /\ Spend("service")
  /\ i \in Rows(c)
  /\ SectionStep(c, sections[c], And(net, c, "remove", c, sections[c].enabled[i].of))

ToggleService(c, i) ==
  /\ Spend("service")
  /\ i \in Rows(c)
  /\ LET row == sections[c].enabled[i]
     IN SectionStep(c, sections[c], And(net, c, IF row.on THEN "off" ELSE "on", c, row.of))

\* A row is known by its place, in a list that may be read again meanwhile.
DragStart(c, i) ==
  /\ Spend("service")
  /\ i \in Rows(c) /\ sections[c].drag = 0
  /\ SectionStep(c, [sections[c] EXCEPT !.drag = i], net)

DragEnd(c) ==
  /\ sections[c].drag # 0
  /\ SectionStep(c, [sections[c] EXCEPT !.drag = 0], net)
  /\ UNCHANGED left

Moved(s, i, j) == InsertAt(RemoveAt(s, i), j, s[i])

\* The new order is shown before the server has it.
Drop(c, j) ==
  /\ sections[c].drag \in Rows(c) \ {j} /\ j \in Rows(c)
  /\ LET next == Moved(sections[c].enabled, sections[c].drag, j)
     IN SectionStep(c, [sections[c] EXCEPT !.enabled = next, !.drag = 0],
                    And(net, c, "order", c, [i \in 1 .. Len(next) |-> next[i].of]))
  /\ UNCHANGED left

\* Mutant of LoadAnswered: an error is shown, and the sign of loading stays.
LoadAnsweredUncaught(m) ==
  /\ m.kind = "enabled"
  /\ \E o \in net :
       /\ o.by = m.by /\ o.kind = "available" /\ o.n = m.n
       /\ (Ok(m) /\ Ok(o)) \/ (m.answer = Refused) \/ (o.answer = Refused)
       /\ LET k == IF Ok(m) /\ Ok(o)
                   THEN [sections[m.of] EXCEPT !.enabled = m.answer.data,
                                               !.available = o.answer.data, !.loading = FALSE]
                   ELSE [sections[m.of] EXCEPT !.failed = TRUE]
          IN SectionStep(m.of, IF m.here THEN k ELSE sections[m.of], net \ {m, o})

\* Both lists, or the first of the two that fails.
LoadAnswered(m) ==
  /\ m.kind = "enabled"
  /\ \E o \in net :
       /\ o.by = m.by /\ o.kind = "available" /\ o.n = m.n
       /\ (Ok(m) /\ Ok(o)) \/ (m.answer = Refused) \/ (o.answer = Refused)
       /\ LET k == IF Ok(m) /\ Ok(o)
                   THEN [sections[m.of] EXCEPT !.enabled = m.answer.data,
                                               !.available = o.answer.data, !.loading = FALSE]
                   ELSE [sections[m.of] EXCEPT !.failed = TRUE, !.loading = FALSE]
          IN SectionStep(m.of, IF m.here THEN k ELSE sections[m.of], net \ {m, o})

\* A change that is refused leaves its error, and an order that is refused has
\* the list read again, which takes the error away.
QueueAnswered(m) ==
  /\ m.kind \in {"add", "remove", "on", "off", "order"}
  /\ LET others == net \ {m}
         k      == sections[m.of]
     IN \/ /\ ~m.here
           /\ SectionStep(m.of, k, others)
        \/ /\ m.here /\ Ok(m) /\ m.kind = "order"
           /\ SectionStep(m.of, k, others)
        \/ /\ m.here /\ Ok(m) = (m.kind # "order")
           /\ Loads(m.of, k, others)
        \/ /\ m.here /\ ~Ok(m) /\ m.kind # "order"
           /\ SectionStep(m.of, [k EXCEPT !.failed = TRUE], others)

DeliverServices(m) ==
  /\ UNCHANGED left
  /\ \/ Answered(m) /\ (CatalogAnswered(m) \/ FormAnswered(m) \/ QueueAnswered(m))
     \/ LoadAnswered(m)

ServicesUser ==
  \/ OpenCatalog \/ LeaveCatalog \/ OpenAddForm \/ CloseForm \/ DetectModels \/ SaveForm
  \/ OpenSections \/ LeaveSections
  \/ \E p \in Providers : \/ CheckProvider(p) \/ DeleteProvider(p) \/ OpenEditForm(p)
                          \/ \E protocol \in Protocols : FillForm(p, protocol)
  \/ \E c \in Capabilities : \/ DragEnd(c)
                             \/ \E p \in Providers : AddService(c, p)
                             \/ \E i \in 1 .. Cardinality(Providers) :
                                  RemoveService(c, i) \/ ToggleService(c, i) \/ DragStart(c, i) \/ Drop(c, i)
=============================================================================
