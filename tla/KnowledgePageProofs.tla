------------------------ MODULE KnowledgePageProofs ------------------------
(***************************************************************************)
(* Type correctness of the page of the knowledge bases, for any bases,     *)
(* groups, items and scenarios, with what lies in it beyond types: an item *)
(* is of a base that exists, and a dialog of the list of items is open     *)
(* only over a base that is selected.                                      *)
(*                                                                         *)
(* The invariant adds what the requests carry: a request that makes an     *)
(* item names a base or none, one that moves a base a group or none, an    *)
(* answer to a list is such a list, and what is read again are lists.      *)
(***************************************************************************)
EXTENDS KnowledgePage, TLAPS

Lists == {"bases", "groups", "items"}
Adds  == {"add", "direct", "uploadUrl", "put", "confirm"}

Stores ==
  [open : BOOLEAN, bases : [Bases -> Places], groups : SUBSET Groups,
   selected : Bases \cup {None}, tab : Tabs, list : [Items -> Status], loading : BOOLEAN,
   dialog : StoreDialogs \cup DetailDialogs \cup {"renameGroup", None},
   subject : Bases \cup Groups \cup {None}, menu : Bases \cup Groups \cup {"create", None},
   expanded : SUBSET (Groups \cup {None}), recall : RecallViews, sending : BOOLEAN,
   added : SUBSET Nat]

\* The dialog for a new base was opened from the menu of a group, or from none.
StoreOK(k) == k \in Stores /\ (k.dialog = "createBase" => k.subject \in Groups \cup {None})

DialogOK(k) == k.dialog \in DetailDialogs => k.open /\ k.selected # None

AnswerOK(kind, answer) ==
  answer.status = "ok" =>
    /\ kind = "bases" => answer.data \in [Bases -> Places]
    /\ kind = "groups" => answer.data \in SUBSET Groups
    /\ kind = "items" => answer.data \in [Items -> Status]

Fields == {"kind", "of", "to", "tab", "by", "many", "here", "rest", "answer", "n"}

\* What a request of this kind, and the uploads that come after it, are about.
AimOK(kind, of, to, by) ==
  /\ kind \in Adds => to \in Bases \cup {None}
  /\ by = "upload" => of \in Bases \cup {None}
  /\ kind = "updateBase" => to \in Groups \cup {None}
  /\ kind = "createBase" => of \in Groups \cup {None}

RequestOK(m) ==
  /\ DOMAIN m = Fields
  /\ AimOK(m.kind, m.of, m.to, m.by)
  /\ m.tab \in Tabs
  /\ m.many \in Nat
  /\ m.rest \in Seq(Lists)
  /\ AnswerOK(m.kind, m.answer)

ServerOK ==
  /\ bases \in [Bases -> Places]
  /\ groups \subseteq Groups
  /\ items \in [Items -> Rows]
  /\ Placed(items, bases)

RequestsOK(msgs) == \A m \in msgs : RequestOK(m)

PageOK == StoreOK(kb) /\ DialogOK(kb) /\ RequestsOK(net)

KnowledgePageOK == ServerOK /\ PageOK /\ left \in [Doings -> Nat]

LEMMA Typed == KnowledgePageOK => TypeOK
  BY DEF KnowledgePageOK, ServerOK, PageOK, StoreOK, DialogOK, Stores, TypeOK

-----------------------------------------------------------------------------
(* Requests                                                                *)

LEMMA ShortLists ==
  ASSUME NEW S, NEW a \in S, NEW b \in S
  PROVE  <<>> \in Seq(S) /\ <<a>> \in Seq(S) /\ <<a, b>> \in Seq(S)
OBVIOUS

LEMMA ChainIsLists == ASSUME NEW c \in Changes PROVE Chain[c] \in Seq(Lists)
<1>1. \A a, b \in Lists : <<a>> \in Seq(Lists) /\ <<a, b>> \in Seq(Lists)
  BY ShortLists
<1>2. c \in {"createBase", "updateBase", "deleteBase", "createGroup", "deleteGroup", "updateGroup",
             "add", "remove", "reindex", "direct", "confirm"}
  BY DEF Changes, Chain
<1>3. Chain[c] \in {<<"bases", "groups">>, <<"groups", "bases">>, <<"items", "bases">>,
                   <<"bases">>, <<"groups">>}
  BY <1>2 DEF Chain
<1>4. {"bases", "groups", "items"} = Lists
  BY DEF Lists
<1> QED
  BY <1>1, <1>3, <1>4

LEMMA NewRequest ==
  ASSUME StoreOK(kb), NEW kind, NEW of, NEW to, NEW by, NEW others, AimOK(kind, of, to, by)
  PROVE  RequestOK(Request(kind, of, to, by, others))
<1> DEFINE m == Request(kind, of, to, by, others)
<1>1. /\ DOMAIN m = Fields
      /\ m.kind = kind /\ m.of = of /\ m.to = to /\ m.by = by
      /\ m.tab = kb.tab
      /\ m.many \in Nat
      /\ m.answer = Waiting
  BY DEF Request, Fields
<1>2. m.rest \in Seq(Lists)
  <2>1. <<>> \in Seq(Lists)
    OBVIOUS
  <2>2. m.rest = IF kind \in Changes THEN Chain[kind] ELSE <<>>
    BY DEF Request
  <2> QED
    BY <2>1, <2>2, ChainIsLists
<1>3. AnswerOK(m.kind, m.answer)
  BY <1>1 DEF AnswerOK, Waiting
<1>4. m.tab \in Tabs
  BY <1>1 DEF StoreOK, Stores
<1> HIDE DEF m
<1>5. RequestOK(m)
  BY <1>1, <1>2, <1>3, <1>4 DEF RequestOK
<1> QED
  BY <1>5 DEF m

LEMMA Retabbed ==
  ASSUME NEW m, RequestOK(m), NEW t \in Tabs, NEW n \in Nat
  PROVE  /\ RequestOK([m EXCEPT !.tab = t])
         /\ RequestOK([m EXCEPT !.many = n])
         /\ RequestOK([m EXCEPT !.tab = t, !.many = n])
BY DEF RequestOK, Fields

LEMMA Kept ==
  ASSUME NEW m, RequestOK(m), NEW here
  PROVE  RequestOK([m EXCEPT !.here = here])
BY DEF RequestOK, Fields

LEMMA FollowedOK ==
  ASSUME StoreOK(kb), NEW m, RequestOK(m), NEW kind, NEW rest, NEW others,
         kind \in Lists \cup Adds, kind \in Adds => m.to \in Bases \cup {None},
         rest \in Seq(Lists)
  PROVE  RequestOK(Followed(m, kind, rest, others))
<1> DEFINE f == Followed(m, kind, rest, others)
<1>1. /\ DOMAIN f = Fields
      /\ f.kind = kind /\ f.of = m.of /\ f.to = m.to /\ f.by = m.by
      /\ f.tab = kb.tab
      /\ f.many = m.many
      /\ f.rest = rest
      /\ f.answer = Waiting
  BY DEF Followed, RequestOK, Fields
<1> HIDE DEF f
<1>2. AnswerOK(f.kind, f.answer)
  BY <1>1 DEF AnswerOK, Waiting
<1>3. AimOK(f.kind, f.of, f.to, f.by)
  BY <1>1 DEF AimOK, RequestOK, Lists, Adds
<1>4. f.tab \in Tabs
  BY <1>1 DEF StoreOK, Stores
<1>5. f.many \in Nat
  BY <1>1 DEF RequestOK
<1>6. RequestOK(f)
  BY <1>1, <1>2, <1>3, <1>4, <1>5 DEF RequestOK
<1> QED
  BY <1>6 DEF f

LEMMA DoneKeeps ==
  ASSUME RequestsOK(net), NEW m \in net, NEW answer, AnswerOK(m.kind, answer), Done(m, answer)
  PROVE  RequestsOK(net')
<1> DEFINE d == [m EXCEPT !.answer = answer]
<1>1. RequestOK(d)
  BY DEF RequestsOK, RequestOK, Fields
<1>2. \A x \in net' : x \in net \/ x = d
  BY DEF Done
<1> HIDE DEF d
<1> QED
  BY <1>1, <1>2 DEF RequestsOK

\* A step of the browser leaves the page right when its store and requests are.
LEMMA SettlesKeeps ==
  ASSUME NEW k, NEW msgs, StoreOK(k), RequestsOK(msgs), Settles(k, msgs)
  PROVE  PageOK' /\ UNCHANGED server
<1>1. kb' \in Stores
  <2> DEFINE d == IF k.dialog \in DetailDialogs /\ ~Shown(k) THEN None ELSE k.dialog
             r == IF RecallShown(k) /\ k.selected = kb.selected THEN k.recall ELSE "empty"
  <2>1. d \in StoreDialogs \cup DetailDialogs \cup {"renameGroup", None} /\ r \in RecallViews
    BY DEF StoreOK, Stores, RecallViews
  <2>2. kb' = [k EXCEPT !.dialog = d, !.recall = r]
    BY DEF Settles
  <2> HIDE DEF d, r
  <2> QED
    BY <2>1, <2>2 DEF StoreOK, Stores
<1>2. /\ kb'.dialog = IF k.dialog \in DetailDialogs /\ ~Shown(k) THEN None ELSE k.dialog
      /\ kb'.open = k.open /\ kb'.selected = k.selected /\ kb'.subject = k.subject
  BY DEF Settles, StoreOK, Stores
<1>3. kb'.dialog = "createBase" => k.dialog = "createBase"
  BY <1>2, KnowledgePageAssumption DEF StoreDialogs
<1>4. DialogOK(kb')
  <2>1. Shown(k) => k.open /\ k.selected # None
    BY DEF Shown
  <2> QED
    BY <1>2, <2>1, KnowledgePageAssumption DEF DialogOK
<1>5. RequestsOK(net')
  <2>1. SUFFICES ASSUME NEW m \in net' PROVE RequestOK(m)
    BY DEF RequestsOK
  <2>2. PICK x \in msgs : m = [x EXCEPT !.here = @ /\ Present(x, k)]
    BY DEF Settles
  <2> QED
    BY <2>2, Kept DEF RequestsOK
<1> QED
  BY <1>1, <1>2, <1>3, <1>4, <1>5 DEF PageOK, StoreOK, Settles

\* A request that is added is about something right.
LEMMA SendsKeeps ==
  ASSUME PageOK, NEW k, StoreOK(k), NEW m, RequestOK(m), Settles(k, net \cup {m})
  PROVE  PageOK' /\ UNCHANGED server
<1>1. RequestsOK(net \cup {m})
  BY DEF PageOK, RequestsOK
<1> QED
  BY <1>1, SettlesKeeps

\* A step that changes the store alone.
LEMMA StoreKeeps ==
  ASSUME PageOK, StoreOK(kb'), DialogOK(kb'), UNCHANGED <<server, net>>
  PROVE  PageOK' /\ UNCHANGED server
BY DEF PageOK, RequestsOK

-----------------------------------------------------------------------------
(* The chains                                                              *)

LEMMA EndedOK ==
  ASSUME NEW m, NEW ok, NEW k, StoreOK(k)
  PROVE  StoreOK(Ended(m, ok, k))
<1> DEFINE e == Ended(m, ok, k)
<1>1. e \in {k, [k EXCEPT !.dialog = None], [k EXCEPT !.menu = None]}
  <2>1. [k EXCEPT !.dialog = k.dialog] = k /\ [k EXCEPT !.menu = k.menu] = k
    BY DEF StoreOK, Stores
  <2> QED
    BY <2>1 DEF Ended
<1>2. StoreOK([k EXCEPT !.dialog = None])
  BY KnowledgePageAssumption DEF StoreOK, Stores, StoreDialogs
<1>3. StoreOK([k EXCEPT !.menu = None])
  BY DEF StoreOK, Stores
<1> HIDE DEF e
<1>4. StoreOK(e)
  BY <1>1, <1>2, <1>3
<1> QED
  BY <1>4 DEF e

LEMMA AddressEndedOK ==
  ASSUME NEW m, m.many \in Nat, NEW ok, NEW k, StoreOK(k)
  PROVE  StoreOK(AddressEnded(m, ok, k))
<1> DEFINE added == k.added \cup {g \in {m.many} : ok}
           sent == IF m.here THEN FALSE ELSE k.sending
           dialog == IF m.here /\ m.many \in added /\ k.dialog = "url" THEN None ELSE k.dialog
           a == [k EXCEPT !.added = added \ {m.many}, !.sending = sent, !.dialog = dialog]
           b == [k EXCEPT !.added = added]
<1>1. added \in SUBSET Nat /\ added \ {m.many} \in SUBSET Nat
  BY DEF StoreOK, Stores
<1>2. sent \in BOOLEAN /\ dialog \in {k.dialog, None}
  BY DEF StoreOK, Stores
<1>3. AddressEnded(m, ok, k) \in {a, b}
  BY DEF AddressEnded
<1> HIDE DEF added, sent, dialog
<1>4. StoreOK(a)
  BY <1>1, <1>2, KnowledgePageAssumption DEF StoreOK, Stores, StoreDialogs
<1>5. StoreOK(b)
  BY <1>1 DEF StoreOK, Stores
<1> HIDE DEF a, b
<1> QED
  BY <1>3, <1>4, <1>5

LEMMA FollowsKeeps ==
  ASSUME PageOK, NEW m \in net, NEW chain, RequestOK(chain), NEW ok, NEW k, StoreOK(k),
         Follows(m, chain, ok, k)
  PROVE  PageOK' /\ UNCHANGED server
<1> DEFINE others == net \ {m}
<1>1. RequestOK(m) /\ RequestsOK(others) /\ StoreOK(kb)
  BY DEF PageOK, RequestsOK
<1>2. CASE ok /\ chain.rest # <<>>
  <2> DEFINE l == Loads(chain.rest, k.loading)
             f == Followed(chain, Head(chain.rest), Tail(chain.rest), others)
  <2>1. Head(chain.rest) \in Lists /\ Tail(chain.rest) \in Seq(Lists)
    BY <1>2 DEF RequestOK
  <2>2. RequestOK(f)
    <3>1. Head(chain.rest) \notin Adds
      BY <2>1 DEF Lists, Adds
    <3> QED
      BY <1>1, <2>1, <3>1, FollowedOK
  <2>3. l \in BOOLEAN
    BY DEF StoreOK, Stores, Loads
  <2>4. Settles([k EXCEPT !.loading = l], others \cup {f})
    BY <1>2 DEF Follows
  <2> HIDE DEF l, f, others
  <2>5. StoreOK([k EXCEPT !.loading = l])
    BY <2>3 DEF StoreOK, Stores
  <2>6. RequestsOK(others \cup {f})
    BY <1>1, <2>2 DEF RequestsOK
  <2> QED
    BY <2>4, <2>5, <2>6, SettlesKeeps
<1>3. CASE ~(ok /\ chain.rest # <<>>) /\ ok /\ m.by = "upload" /\ m.many > 0
  <2> DEFINE g == [Followed(m, "uploadUrl", <<>>, others) EXCEPT !.to = m.of, !.many = @ - 1]
  <2>1. Settles(k, others \cup {g})
    BY <1>3 DEF Follows
  <2>2. RequestOK(g)
    <3>1. /\ DOMAIN g = Fields
          /\ g.kind = "uploadUrl" /\ g.of = m.of /\ g.to = m.of /\ g.by = "upload"
          /\ g.tab = kb.tab
          /\ g.many = m.many - 1
          /\ g.rest = <<>>
          /\ g.answer = Waiting
      BY <1>1, <1>3 DEF Followed, RequestOK, Fields
    <3> HIDE DEF g
    <3>2. m.of \in Bases \cup {None} /\ m.many - 1 \in Nat /\ kb.tab \in Tabs
      BY <1>1, <1>3 DEF RequestOK, AimOK, StoreOK, Stores
    <3>3. AnswerOK(g.kind, g.answer)
      BY <3>1 DEF AnswerOK, Waiting
    <3>4. AimOK(g.kind, g.of, g.to, g.by)
      BY <3>1, <3>2 DEF AimOK, Adds
    <3>5. g.rest \in Seq(Lists)
      BY <3>1
    <3> QED
      BY <3>1, <3>2, <3>3, <3>4, <3>5 DEF RequestOK
  <2> HIDE DEF g, others
  <2>3. RequestsOK(others \cup {g})
    BY <1>1, <2>2 DEF RequestsOK
  <2> QED
    BY <2>1, <2>3, SettlesKeeps
<1>4. CASE ~(ok /\ chain.rest # <<>>) /\ ~(ok /\ m.by = "upload" /\ m.many > 0)
  <2>1. PICK e \in {AddressEnded(m, ok, k), Ended(m, ok, k)} : Settles(e, others)
    BY <1>4 DEF Follows
  <2>2. StoreOK(e)
    BY <1>1, <2>1, EndedOK, AddressEndedOK DEF RequestOK
  <2> QED
    BY <1>1, <2>1, <2>2, SettlesKeeps
<1> QED
  BY <1>2, <1>3, <1>4

-----------------------------------------------------------------------------
(* Answers                                                                 *)

LEMMA EmptyOK == Empty \in [Items -> Status]
BY DEF Empty, Status

LEMMA BasesAnsweredKeeps ==
  ASSUME PageOK, NEW m \in net, BasesAnswered(m)
  PROVE  PageOK' /\ UNCHANGED server
<1> DEFINE read  == IF Ok(m) THEN m.answer.data ELSE Store.bases
           k     == [kb EXCEPT !.bases = read, !.loading = FALSE]
           there == {b \in Bases : read[b] # "absent"}
<1>1. RequestOK(m) /\ m.kind = "bases"
  BY DEF PageOK, RequestsOK, BasesAnswered
<1>2. read \in [Bases -> Places]
  <2>1. Store.bases \in [Bases -> Places]
    BY DEF Store, Places
  <2> QED
    BY <1>1, <2>1 DEF RequestOK, AnswerOK, Ok
<1>3. IF there # {} /\ kb.selected = None
      THEN \E b \in there : Follows(m, [m EXCEPT !.rest = <<"items">> \o @, !.to = b], TRUE,
                                    [k EXCEPT !.selected = b])
      ELSE Follows(m, m, TRUE, k)
  BY DEF BasesAnswered, Goes
<1>4. there \subseteq Bases
  OBVIOUS
<1> HIDE DEF read, there
<1>5. StoreOK(k)
  BY <1>2 DEF PageOK, StoreOK, Stores
<1>6. \A b \in Bases : StoreOK([k EXCEPT !.selected = b])
  BY <1>2 DEF PageOK, StoreOK, Stores
<1>7. ASSUME NEW b \in Bases
      PROVE  RequestOK([m EXCEPT !.rest = <<"items">> \o @, !.to = b])
  <2> DEFINE rest == <<"items">> \o m.rest
  <2>1. rest \in Seq(Lists)
    <3>1. m.rest \in Seq(Lists) /\ <<"items">> \in Seq(Lists)
      BY <1>1, ShortLists DEF RequestOK, Lists
    <3> QED
      BY <3>1
  <2> HIDE DEF rest
  <2>2. RequestOK([m EXCEPT !.rest = rest, !.to = b])
    BY <1>1, <2>1 DEF RequestOK, Fields, AimOK, Adds, AnswerOK
  <2> QED
    BY <2>2 DEF rest
<1> HIDE DEF k
<1> QED
  BY <1>1, <1>3, <1>4, <1>5, <1>6, <1>7, FollowsKeeps

LEMMA GroupsAnsweredKeeps ==
  ASSUME PageOK, NEW m \in net, GroupsAnswered(m)
  PROVE  PageOK' /\ UNCHANGED server
<1> DEFINE read == IF Ok(m) THEN m.answer.data ELSE {}
<1>1. RequestOK(m)
  BY DEF PageOK, RequestsOK
<1>2. read \in SUBSET Groups
  BY <1>1 DEF GroupsAnswered, RequestOK, AnswerOK, Ok
<1>3. Follows(m, m, TRUE, [kb EXCEPT !.groups = read])
  BY DEF GroupsAnswered, Goes
<1> HIDE DEF read
<1>4. StoreOK([kb EXCEPT !.groups = read])
  BY <1>2 DEF PageOK, StoreOK, Stores
<1> QED
  BY <1>1, <1>3, <1>4, FollowsKeeps

LEMMA ItemsAnsweredKeeps ==
  ASSUME PageOK, NEW m \in net, ItemsAnswered(m)
  PROVE  PageOK' /\ UNCHANGED server
<1> DEFINE read == IF Ok(m) THEN m.answer.data ELSE Empty
<1>1. RequestOK(m)
  BY DEF PageOK, RequestsOK
<1>2. read \in [Items -> Status]
  BY <1>1, EmptyOK DEF ItemsAnswered, RequestOK, AnswerOK, Ok
<1>3. Follows(m, m, TRUE, [kb EXCEPT !.list = read, !.loading = FALSE])
  BY DEF ItemsAnswered, Goes
<1> HIDE DEF read
<1>4. StoreOK([kb EXCEPT !.list = read, !.loading = FALSE])
  BY <1>2 DEF PageOK, StoreOK, Stores
<1> QED
  BY <1>1, <1>3, <1>4, FollowsKeeps

LEMMA ChangeAnsweredKeeps ==
  ASSUME PageOK, NEW m \in net, ChangeAnswered(m)
  PROVE  PageOK' /\ UNCHANGED server
<1>1. RequestOK(m) /\ StoreOK(kb)
  BY DEF PageOK, RequestsOK
<1>2. CASE m.kind = "deleteBase" /\ Ok(m) /\ kb.selected = m.of
  <2>1. Follows(m, m, Ok(m), [kb EXCEPT !.selected = None, !.list = Empty])
    BY <1>2 DEF ChangeAnswered, Goes
  <2>2. StoreOK([kb EXCEPT !.selected = None, !.list = Empty])
    BY <1>1, EmptyOK DEF StoreOK, Stores
  <2> QED
    BY <1>1, <2>1, <2>2, FollowsKeeps
<1>3. CASE m.kind = "remove"
  <2> DEFINE rest == IF kb.selected = None THEN <<"bases">> ELSE m.rest
             chain == [m EXCEPT !.to = kb.selected, !.rest = rest]
  <2>1. Follows(m, chain, Ok(m), kb)
    BY <1>3 DEF ChangeAnswered
  <2>2. rest \in Seq(Lists)
    BY <1>1, ShortLists DEF RequestOK, Lists
  <2> HIDE DEF rest
  <2>3. RequestOK(chain)
    BY <1>1, <1>3, <2>2 DEF RequestOK, Fields, AimOK, Adds, AnswerOK
  <2> HIDE DEF chain
  <2> QED
    BY <1>1, <2>1, <2>3, FollowsKeeps
<1>4. CASE ~(m.kind = "deleteBase" /\ Ok(m) /\ kb.selected = m.of) /\ m.kind # "remove"
  <2>1. Follows(m, m, Ok(m), kb)
    BY <1>4 DEF ChangeAnswered, Goes
  <2> QED
    BY <1>1, <2>1, FollowsKeeps
<1> QED
  BY <1>2, <1>3, <1>4

LEMMA UploadAnsweredKeeps ==
  ASSUME PageOK, NEW m \in net, UploadAnswered(m)
  PROVE  PageOK' /\ UNCHANGED server
<1> DEFINE others == net \ {m}
           next   == IF m.kind = "put" THEN "confirm" ELSE IF Ok(m) THEN "put" ELSE "direct"
           rest   == IF next = "put" THEN <<>> ELSE Chain[next]
           f      == Followed(m, next, rest, others)
           g      == [f EXCEPT !.tab = "file"]
           msgs   == IF m.kind = "put" /\ ~Ok(m) THEN {} ELSE {g}
<1>1. /\ RequestOK(m) /\ RequestsOK(others) /\ StoreOK(kb)
      /\ m.kind \in {"uploadUrl", "put"}
  BY DEF PageOK, RequestsOK, UploadAnswered
<1>2. Settles(kb, others \cup msgs)
  BY DEF UploadAnswered
<1>3. next \in {"confirm", "put", "direct"}
  OBVIOUS
<1>4. rest \in Seq(Lists)
  <2>1. {"confirm", "direct"} \subseteq Changes
    BY DEF Changes, Chain
  <2>2. <<>> \in Seq(Lists)
    OBVIOUS
  <2> HIDE DEF next
  <2> QED
    BY <1>3, <2>1, <2>2, ChainIsLists
<1> HIDE DEF next, rest, others
<1>5. RequestOK(f)
  <2>1. next \in Adds /\ m.to \in Bases \cup {None}
    BY <1>1, <1>3 DEF Adds, RequestOK, AimOK
  <2> QED
    BY <1>1, <1>4, <2>1, FollowedOK
<1> HIDE DEF f
<1>6. RequestOK(g)
  BY <1>5, Retabbed DEF Tabs
<1> HIDE DEF g
<1>7. RequestsOK(others \cup msgs)
  BY <1>1, <1>6 DEF RequestsOK
<1> QED
  BY <1>1, <1>2, <1>7, SettlesKeeps

LEMMA SearchAnsweredKeeps ==
  ASSUME PageOK, NEW m \in net, SearchAnswered(m)
  PROVE  PageOK' /\ UNCHANGED server
<1> DEFINE recall == IF m.here THEN IF Ok(m) THEN "results" ELSE "failed" ELSE kb.recall
<1>1. StoreOK(kb) /\ RequestsOK(net \ {m})
  BY DEF PageOK, RequestsOK
<1>2. recall \in RecallViews
  BY <1>1 DEF StoreOK, Stores, RecallViews
<1>3. Settles([kb EXCEPT !.recall = recall], net \ {m})
  BY DEF SearchAnswered
<1> HIDE DEF recall
<1>4. StoreOK([kb EXCEPT !.recall = recall])
  BY <1>1, <1>2 DEF StoreOK, Stores
<1> QED
  BY <1>1, <1>3, <1>4, SettlesKeeps

LEMMA DeliverKeeps ==
  ASSUME PageOK, NEW m \in net, Deliver(m)
  PROVE  PageOK' /\ UNCHANGED <<server, left>>
BY BasesAnsweredKeeps, GroupsAnsweredKeeps, ItemsAnsweredKeeps, ChangeAnsweredKeeps,
   UploadAnsweredKeeps, SearchAnsweredKeeps DEF Deliver

-----------------------------------------------------------------------------
(* The server                                                              *)

LEMMA NoItemOK == NoItem \in Rows /\ NoItem.status = "absent" /\ ~NoItem.job
BY DEF NoItem, Rows, Status, Tabs

LEMMA MakesKeeps ==
  ASSUME ServerOK, NEW b \in Bases \cup {None}, Exists(b), NEW t \in Tabs, NEW status \in Status,
         NEW job \in BOOLEAN, Makes(b, t, status, job), UNCHANGED <<bases, groups>>
  PROVE  ServerOK'
<1> DEFINE row == [status |-> status, base |-> b, type |-> t, job |-> job]
<1>1. row \in Rows /\ row.base = b
  BY DEF Rows
<1>2. items' = [items EXCEPT ![NewItem] = row] /\ NewItem \in Items
  BY DEF Makes, NewItem
<1> HIDE DEF row
<1>3. items' \in [Items -> Rows]
  BY <1>1, <1>2 DEF ServerOK
<1>4. \A i \in Items : items'[i] = IF i = NewItem THEN row ELSE items[i]
  BY <1>2 DEF ServerOK
<1>5. b # None /\ bases'[b] # "absent"
  BY DEF Exists
<1>6. Placed(items', bases')
  BY <1>1, <1>4, <1>5 DEF ServerOK, Placed
<1> QED
  BY <1>3, <1>6 DEF ServerOK

LEMMA AnswersOK ==
  ASSUME NEW kind
  PROVE  /\ AnswerOK(kind, Refused)
         /\ kind \notin Lists => \A data : AnswerOK(kind, Success(data))
BY DEF AnswerOK, Refused, Success, Lists

LEMMA ServesListsKeeps ==
  ASSUME ServerOK, RequestsOK(net), NEW m \in net, ServesLists(m)
  PROVE  ServerOK' /\ RequestsOK(net')
<1>1. ServerOK'
  BY DEF ServesLists, server, ServerOK
<1>2. CASE m.kind = "bases" /\ Done(m, Success(bases))
  <2>1. AnswerOK(m.kind, Success(bases))
    BY <1>2 DEF AnswerOK, Success, ServerOK
  <2> QED
    BY <1>1, <1>2, <2>1, DoneKeeps
<1>3. CASE m.kind = "groups" /\ Done(m, Success(groups))
  <2>1. AnswerOK(m.kind, Success(groups))
    BY <1>3 DEF AnswerOK, Success, ServerOK
  <2> QED
    BY <1>1, <1>3, <2>1, DoneKeeps
<1>4. CASE m.kind = "items" /\ Done(m, IF Exists(m.to) THEN Success(Of(m.to, m.tab)) ELSE Refused)
  <2>1. Of(m.to, m.tab) \in [Items -> Status]
    BY DEF Of, ServerOK, Rows, Status
  <2>2. AnswerOK(m.kind, Success(Of(m.to, m.tab)))
    BY <1>4, <2>1 DEF AnswerOK, Success
  <2>3. AnswerOK(m.kind, IF Exists(m.to) THEN Success(Of(m.to, m.tab)) ELSE Refused)
    BY <2>2, AnswersOK
  <2> QED
    BY <1>1, <1>4, <2>3, DoneKeeps
<1>5. CASE m.kind = "search" /\ \E answer \in {Success("results"), Refused} : Done(m, answer)
  <2>1. \A answer \in {Success("results"), Refused} : AnswerOK(m.kind, answer)
    BY <1>5, AnswersOK DEF Lists
  <2> QED
    BY <1>1, <1>5, <2>1, DoneKeeps
<1> QED
  BY <1>2, <1>3, <1>4, <1>5 DEF ServesLists

LEMMA ServesBasesKeeps ==
  ASSUME ServerOK, RequestsOK(net), NEW m \in net, ServesBases(m)
  PROVE  ServerOK' /\ RequestsOK(net')
<1>1. RequestOK(m)
  BY DEF RequestsOK
<1>2. CASE m.kind = "createBase" /\ ServesBases(m)
  <2> DEFINE b == CHOOSE b \in Bases : bases[b] = "absent"
  <2>1. b \in Bases /\ bases[b] = "absent"
    BY <1>2 DEF ServesBases
  <2>2. /\ bases' = [bases EXCEPT ![b] = m.of]
        /\ Done(m, Success("created"))
        /\ UNCHANGED <<groups, items>>
    BY <1>2 DEF ServesBases
  <2> HIDE DEF b
  <2>3. m.of \in Groups \cup {None} /\ m.of # "absent"
    BY <1>1, <1>2, KnowledgePageAssumption DEF RequestOK, AimOK
  <2>4. bases' \in [Bases -> Places]
    BY <2>1, <2>2, <2>3 DEF ServerOK, Places
  <2>5. Placed(items', bases')
    BY <2>1, <2>2, <2>3 DEF ServerOK, Placed, Rows
  <2>6. RequestsOK(net')
    BY <1>2, <2>2, AnswersOK, DoneKeeps DEF Lists
  <2> QED
    BY <2>2, <2>4, <2>5, <2>6 DEF ServerOK
<1>3. CASE m.kind = "updateBase" /\ ServesBases(m)
  <2>1. /\ bases' \in {bases, [bases EXCEPT ![m.of] = m.to]}
        /\ Done(m, IF Exists(m.of) THEN Success("updated") ELSE Refused)
        /\ UNCHANGED <<groups, items>>
    BY <1>3 DEF ServesBases
  <2>2. m.to \in Groups \cup {None} /\ m.to # "absent"
    BY <1>1, <1>3, KnowledgePageAssumption DEF RequestOK, AimOK
  <2>3. bases' \in [Bases -> Places]
    BY <2>1, <2>2 DEF ServerOK, Places
  <2>4. \A b \in Bases : bases[b] # "absent" => bases'[b] # "absent"
    BY <2>1, <2>2 DEF ServerOK
  <2>5. Placed(items', bases')
    BY <2>1, <2>4 DEF ServerOK, Placed, Rows
  <2>6. RequestsOK(net')
    <3>1. AnswerOK(m.kind, IF Exists(m.of) THEN Success("updated") ELSE Refused)
      BY <1>3, AnswersOK DEF Lists
    <3> QED
      BY <2>1, <3>1, DoneKeeps
  <2> QED
    BY <2>1, <2>3, <2>5, <2>6 DEF ServerOK
<1>4. CASE m.kind = "deleteBase" /\ ServesBases(m)
  <2>1. /\ bases' = [bases EXCEPT ![m.of] = "absent"]
        /\ items' = [i \in Items |-> IF items[i].base = m.of THEN NoItem ELSE items[i]]
        /\ Done(m, IF Exists(m.of) THEN Success("deleted") ELSE Refused)
        /\ UNCHANGED groups
    BY <1>4 DEF ServesBases
  <2>2. bases' \in [Bases -> Places]
    BY <2>1 DEF ServerOK, Places
  <2>3. items' \in [Items -> Rows]
    BY <2>1, NoItemOK DEF ServerOK
  <2>4. \A i \in Items : items'[i].status # "absent" \/ items'[i].job =>
                           items'[i] = items[i] /\ items[i].base # m.of
    BY <2>1, NoItemOK
  <2>5. \A b \in Bases : b # m.of => bases'[b] = bases[b]
    BY <2>1 DEF ServerOK
  <2>6. Placed(items', bases')
    BY <2>4, <2>5 DEF ServerOK, Placed, Rows
  <2>7. RequestsOK(net')
    <3>1. AnswerOK(m.kind, IF Exists(m.of) THEN Success("deleted") ELSE Refused)
      BY <1>4, AnswersOK DEF Lists
    <3> QED
      BY <2>1, <3>1, DoneKeeps
  <2> QED
    BY <2>1, <2>2, <2>3, <2>6, <2>7 DEF ServerOK
<1>5. CASE m.kind = "createGroup" /\ ServesBases(m)
  <2> DEFINE g == CHOOSE g \in Groups : g \notin groups
  <2>1. g \in Groups
    BY <1>5 DEF ServesBases
  <2>2. groups' = groups \cup {g} /\ Done(m, Success("created")) /\ UNCHANGED <<bases, items>>
    BY <1>5 DEF ServesBases
  <2> HIDE DEF g
  <2>3. RequestsOK(net')
    BY <1>5, <2>2, AnswersOK, DoneKeeps DEF Lists
  <2> QED
    BY <2>1, <2>2, <2>3 DEF ServerOK
<1>6. CASE m.kind = "deleteGroup" /\ ServesBases(m)
  <2>1. /\ groups' = groups \ {m.of}
        /\ bases' = [b \in Bases |-> IF bases[b] = m.of THEN None ELSE bases[b]]
        /\ Done(m, Success("deleted"))
        /\ UNCHANGED items
    BY <1>6 DEF ServesBases
  <2>2. bases' \in [Bases -> Places]
    BY <2>1 DEF ServerOK, Places
  <2>3. \A b \in Bases : bases[b] # "absent" => bases'[b] # "absent"
    BY <2>1, KnowledgePageAssumption
  <2>4. Placed(items', bases')
    BY <2>1, <2>3 DEF ServerOK, Placed, Rows
  <2>5. RequestsOK(net')
    BY <1>6, <2>1, AnswersOK, DoneKeeps DEF Lists
  <2> QED
    BY <2>1, <2>2, <2>4, <2>5 DEF ServerOK
<1>7. CASE m.kind = "updateGroup" /\ ServesBases(m)
  <2>1. /\ Done(m, IF m.of \in groups THEN Success("updated") ELSE Refused)
        /\ UNCHANGED <<bases, groups, items>>
    BY <1>7 DEF ServesBases
  <2>2. AnswerOK(m.kind, IF m.of \in groups THEN Success("updated") ELSE Refused)
    BY <1>7, AnswersOK DEF Lists
  <2> QED
    BY <2>1, <2>2, DoneKeeps DEF ServerOK
<1> QED
  BY <1>2, <1>3, <1>4, <1>5, <1>6, <1>7 DEF ServesBases

LEMMA ServesAddKeeps ==
  ASSUME ServerOK, RequestsOK(net), NEW m \in net, ServesAdd(m)
  PROVE  ServerOK' /\ RequestsOK(net')
<1>1. RequestOK(m) /\ m.kind \in {"add", "direct"}
  BY DEF RequestsOK, ServesAdd
<1>2. m.to \in Bases \cup {None} /\ m.tab \in Tabs
  BY <1>1 DEF RequestOK, AimOK, Adds
<1>3. RequestsOK(net')
  BY <1>1, AnswersOK, DoneKeeps DEF ServesAdd, Lists
<1>4. CASE Exists(m.to)
  BY <1>2, <1>3, <1>4, MakesKeeps DEF ServesAdd, Status
<1>5. CASE ~Exists(m.to)
  BY <1>3, <1>5 DEF ServesAdd, ServerOK
<1> QED
  BY <1>4, <1>5

LEMMA ServesUploadKeeps ==
  ASSUME ServerOK, RequestsOK(net), NEW m \in net, ServesUpload(m)
  PROVE  ServerOK' /\ RequestsOK(net')
<1>1. RequestOK(m) /\ m.kind \in {"uploadUrl", "put", "confirm"}
  BY DEF RequestsOK, ServesUpload
<1>2. m.to \in Bases \cup {None}
  BY <1>1 DEF RequestOK, AimOK, Adds
<1>3. \E data \in {"url", "stored", "confirmed"} : Done(m, Success(data)) \/ Done(m, Refused)
  BY DEF ServesUpload
<1>4. RequestsOK(net')
  BY <1>1, <1>3, AnswersOK, DoneKeeps DEF Lists
<1>5. UNCHANGED <<bases, groups>>
  BY DEF ServesUpload
<1>6. \/ UNCHANGED items
      \/ Exists(m.to) /\ Makes(m.to, "file", "uploading", FALSE)
      \/ Exists(m.to) /\ Makes(m.to, "file", "active", FALSE)
  BY DEF ServesUpload
<1>7. "file" \in Tabs /\ {"uploading", "active"} \subseteq Status
  BY DEF Tabs, Status
<1>8. ServerOK'
  <2>1. CASE UNCHANGED items
    BY <1>5, <2>1 DEF ServerOK
  <2>2. CASE Exists(m.to) /\ Makes(m.to, "file", "uploading", FALSE)
    BY <1>2, <1>5, <1>7, <2>2, MakesKeeps
  <2>3. CASE Exists(m.to) /\ Makes(m.to, "file", "active", FALSE)
    BY <1>2, <1>5, <1>7, <2>3, MakesKeeps
  <2> QED
    BY <1>6, <2>1, <2>2, <2>3
<1> QED
  BY <1>4, <1>8

LEMMA ServesItemsKeeps ==
  ASSUME ServerOK, RequestsOK(net), NEW m \in net, ServesItems(m)
  PROVE  ServerOK' /\ RequestsOK(net')
<1>1. m.kind \in {"remove", "reindex"} /\ UNCHANGED <<bases, groups>>
  BY DEF ServesItems
<1>2. \E data \in {"deleted", "queued"} : Done(m, Success(data)) \/ Done(m, Refused)
  BY DEF ServesItems
<1>3. RequestsOK(net')
  BY <1>1, <1>2, AnswersOK, DoneKeeps DEF Lists
<1>4. CASE UNCHANGED items
  BY <1>1, <1>3, <1>4 DEF ServerOK
<1>5. CASE items' = [items EXCEPT ![m.of] = NoItem]
  <2>1. items' \in [Items -> Rows]
    BY <1>5, NoItemOK DEF ServerOK
  <2>2. \A i \in Items : items'[i].status # "absent" \/ items'[i].job => items'[i] = items[i]
    BY <1>5, NoItemOK DEF ServerOK
  <2>3. Placed(items', bases')
    BY <1>1, <2>2 DEF ServerOK, Placed
  <2> QED
    BY <1>1, <1>3, <2>1, <2>3 DEF ServerOK
<1>6. CASE /\ items[m.of].status \in {"completed", "failed"}
           /\ items' = [items EXCEPT ![m.of].status = "active", ![m.of].job = TRUE]
  <2>1. items' \in [Items -> Rows]
    BY <1>6 DEF ServerOK, Rows, Status
  <2>2. \A i \in Items :
          /\ items'[i].base = items[i].base
          /\ items'[i].status # "absent" \/ items'[i].job => items[i].status # "absent" \/ items[i].job
    BY <1>6 DEF ServerOK, Rows
  <2>3. Placed(items', bases')
    BY <1>1, <2>2 DEF ServerOK, Placed
  <2> QED
    BY <1>1, <1>3, <2>1, <2>3 DEF ServerOK
<1> QED
  BY <1>4, <1>5, <1>6 DEF ServesItems

LEMMA ServeKeeps ==
  ASSUME ServerOK, PageOK, NEW m \in net, Serve(m)
  PROVE  ServerOK' /\ PageOK' /\ UNCHANGED left
<1>1. RequestsOK(net) /\ UNCHANGED <<kb, left>>
  BY DEF PageOK, Serve
<1>2. ServerOK' /\ RequestsOK(net')
  BY <1>1, ServesListsKeeps, ServesBasesKeeps, ServesAddKeeps, ServesUploadKeeps, ServesItemsKeeps
     DEF Serve
<1> QED
  BY <1>1, <1>2 DEF PageOK, StoreOK, DialogOK

LEMMA IndexKeeps ==
  ASSUME ServerOK, PageOK, NEW i \in Items, Index(i)
  PROVE  ServerOK' /\ PageOK' /\ UNCHANGED left
<1>1. PICK status \in {"completed", "failed"} :
        items' = [items EXCEPT ![i].status = status, ![i].job = FALSE]
  BY DEF Index
<1>2. items' \in [Items -> Rows]
  BY <1>1 DEF ServerOK, Rows, Status
<1>3. \A j \in Items :
        /\ items'[j].base = items[j].base
        /\ items'[j].status # "absent" \/ items'[j].job => items[j].status # "absent" \/ items[j].job
  BY <1>1 DEF Index, ServerOK, Rows
<1>4. UNCHANGED <<bases, groups, kb, net, left>>
  BY DEF Index
<1>5. ServerOK'
  BY <1>2, <1>3, <1>4 DEF ServerOK, Placed
<1> QED
  BY <1>4, <1>5 DEF PageOK, StoreOK, DialogOK, RequestsOK

LEMMA LoseKeeps ==
  ASSUME ServerOK, PageOK, NEW m \in net, Lose(m)
  PROVE  ServerOK' /\ PageOK'
<1>1. RequestsOK(net')
  BY AnswersOK, DoneKeeps DEF Lose, PageOK
<1>2. UNCHANGED <<storage, bases, groups, items, kb>>
  BY DEF Lose, server
<1> QED
  BY <1>1, <1>2 DEF ServerOK, PageOK, StoreOK, DialogOK

-----------------------------------------------------------------------------
(* The user                                                                *)

LEMMA OpenPageKeeps ==
  ASSUME PageOK, OpenPage
  PROVE  PageOK' /\ UNCHANGED server
<1> DEFINE k     == [kb EXCEPT !.open = TRUE, !.expanded = {None}, !.loading = TRUE]
           first == net \cup {Request("bases", None, None, "page", net)}
           msgs  == first \cup {Request("groups", None, None, "page", first)}
<1>1. StoreOK(kb) /\ RequestsOK(net)
  BY DEF PageOK
<1>2. StoreOK(k)
  BY <1>1 DEF StoreOK, Stores
<1>3. AimOK("bases", None, None, "page") /\ AimOK("groups", None, None, "page")
  BY DEF AimOK, Adds
<1>4. RequestsOK(first)
  BY <1>1, <1>3, NewRequest DEF RequestsOK
<1>5. Settles(k, msgs)
  BY DEF OpenPage
<1> HIDE DEF k, first
<1>6. RequestsOK(msgs)
  BY <1>1, <1>3, <1>4, NewRequest DEF RequestsOK
<1> HIDE DEF msgs
<1> QED
  BY <1>2, <1>5, <1>6, SettlesKeeps

LEMMA LeavePageKeeps ==
  ASSUME PageOK, LeavePage
  PROVE  PageOK' /\ UNCHANGED server
<1> DEFINE d == IF kb.dialog \in StoreDialogs THEN kb.dialog ELSE None
           k == [kb EXCEPT !.open = FALSE, !.menu = None, !.dialog = d]
<1>1. StoreOK(kb) /\ RequestsOK(net)
  BY DEF PageOK
<1>2. d \in {kb.dialog, None}
  OBVIOUS
<1>3. Settles(k, net)
  BY DEF LeavePage
<1> HIDE DEF d
<1>4. StoreOK(k)
  BY <1>1, <1>2, KnowledgePageAssumption DEF StoreOK, Stores, StoreDialogs
<1> HIDE DEF k
<1> QED
  BY <1>1, <1>3, <1>4, SettlesKeeps

LEMMA SelectBaseKeeps ==
  ASSUME PageOK, NEW b \in Bases, SelectBase(b)
  PROVE  PageOK' /\ UNCHANGED server
<1> DEFINE k == [kb EXCEPT !.selected = b, !.tab = "file", !.list = Empty, !.loading = TRUE]
<1>1. StoreOK(kb)
  BY DEF PageOK
<1>2. StoreOK(k) /\ k.selected = b
  BY <1>1, EmptyOK DEF StoreOK, Stores, Tabs
<1>3. Settles(k, net \cup {Request("items", None, k.selected, "select", net)})
  BY DEF SelectBase, Sends
<1>4. AimOK("items", None, b, "select")
  BY DEF AimOK, Adds
<1> HIDE DEF k
<1> QED
  BY <1>1, <1>2, <1>3, <1>4, NewRequest, SendsKeeps

\* The navigator and the dialogs that change the store alone.
LEMMA NavigatorKeeps ==
  ASSUME PageOK,
         \/ \E g \in Groups \cup {None} : ToggleGroup(g)
         \/ \E x \in Bases \cup Groups \cup {"create"} : OpenMenu(x)
         \/ CloseMenu \/ MenuDialog \/ OfferBase \/ OpenAdd \/ OpenRecall
  PROVE  PageOK' /\ UNCHANGED server
<1>1. StoreOK(kb) /\ DialogOK(kb)
  BY DEF PageOK
<1>2. CASE \E g \in Groups \cup {None} : ToggleGroup(g)
  <2>1. PICK g \in Groups \cup {None} :
          /\ kb' = [kb EXCEPT !.expanded = IF g \in @ THEN @ \ {g} ELSE @ \cup {g}]
          /\ UNCHANGED <<server, net>>
    BY <1>2 DEF ToggleGroup
  <2> DEFINE e == IF g \in kb.expanded THEN kb.expanded \ {g} ELSE kb.expanded \cup {g}
  <2>2. kb' = [kb EXCEPT !.expanded = e] /\ e \in SUBSET (Groups \cup {None})
    BY <1>1, <2>1 DEF StoreOK, Stores
  <2> HIDE DEF e
  <2>3. StoreOK(kb') /\ DialogOK(kb')
    BY <1>1, <2>2 DEF StoreOK, DialogOK, Stores
  <2> QED
    BY <2>1, <2>3, StoreKeeps
<1>3. CASE CloseMenu \/ \E x \in Bases \cup Groups \cup {"create"} : OpenMenu(x)
  <2>1. PICK x \in Bases \cup Groups \cup {"create", None} :
          kb' = [kb EXCEPT !.menu = x] /\ UNCHANGED <<server, net>>
    BY <1>3 DEF OpenMenu, CloseMenu
  <2>2. StoreOK(kb') /\ DialogOK(kb')
    BY <1>1, <2>1 DEF StoreOK, DialogOK, Stores
  <2> QED
    BY <2>1, <2>2, StoreKeeps
<1>4. CASE MenuDialog
  <2> DEFINE subject == IF kb.menu = "create" THEN None ELSE kb.menu
  <2>1. PICK d \in Opens[MenuOf(kb.menu)] :
          kb' = [kb EXCEPT !.dialog = d, !.menu = None, !.subject = subject]
    BY <1>4 DEF MenuDialog
  <2>2. kb.menu \in Bases \cup Groups \cup {"create"} /\ UNCHANGED <<server, net>>
    BY <1>1, <1>4 DEF MenuDialog, StoreOK, Stores
  <2>3. subject \in Bases \cup Groups \cup {None}
    BY <2>2
  <2>4. d \in {"renameBase", "renameGroup", "createBase", "createGroup"}
    BY <2>1 DEF Opens, MenuOf
  <2>5. d = "createBase" => subject \in Groups \cup {None}
    BY <2>1, <2>2 DEF Opens, MenuOf
  <2> HIDE DEF subject
  <2>6. StoreOK(kb') /\ DialogOK(kb')
    BY <1>1, <2>1, <2>3, <2>4, <2>5 DEF StoreOK, DialogOK, Stores, StoreDialogs, DetailDialogs
  <2> QED
    BY <2>2, <2>6, StoreKeeps
<1>5. CASE OfferBase
  <2>1. kb' = [kb EXCEPT !.dialog = "createBase", !.subject = None] /\ UNCHANGED <<server, net>>
    BY <1>5 DEF OfferBase
  <2>2. StoreOK(kb') /\ DialogOK(kb')
    BY <1>1, <2>1 DEF StoreOK, DialogOK, Stores, StoreDialogs, DetailDialogs
  <2> QED
    BY <2>1, <2>2, StoreKeeps
<1>6. CASE OpenAdd
  <2> DEFINE sending == IF kb.tab = "url" THEN FALSE ELSE kb.sending
  <2>1. kb' = [kb EXCEPT !.dialog = kb.tab, !.sending = sending] /\ UNCHANGED <<server, net>>
    BY <1>6 DEF OpenAdd
  <2>2. kb.tab \in DetailDialogs /\ kb.open /\ kb.selected # None
    BY <1>6 DEF OpenAdd, Free, Shown
  <2>3. sending \in BOOLEAN
    BY <1>1 DEF StoreOK, Stores
  <2> HIDE DEF sending
  <2>4. StoreOK(kb') /\ DialogOK(kb')
    BY <1>1, <2>1, <2>2, <2>3 DEF StoreOK, DialogOK, Stores, DetailDialogs
  <2> QED
    BY <2>1, <2>4, StoreKeeps
<1>7. CASE OpenRecall
  <2>1. kb' = [kb EXCEPT !.dialog = "recall"] /\ UNCHANGED <<server, net>>
    BY <1>7 DEF OpenRecall
  <2>2. StoreOK(kb') /\ DialogOK(kb')
    BY <1>1, <2>1 DEF StoreOK, DialogOK, Stores, StoreDialogs, DetailDialogs
  <2> QED
    BY <2>1, <2>2, StoreKeeps
<1> QED
  BY <1>2, <1>3, <1>4, <1>5, <1>6, <1>7

LEMMA CloseDialogKeeps ==
  ASSUME PageOK, CloseDialog
  PROVE  PageOK' /\ UNCHANGED server
<1>1. Settles([kb EXCEPT !.dialog = None], net)
  BY DEF CloseDialog
<1>2. StoreOK([kb EXCEPT !.dialog = None]) /\ RequestsOK(net)
  BY KnowledgePageAssumption DEF PageOK, StoreOK, Stores, StoreDialogs
<1> QED
  BY <1>1, <1>2, SettlesKeeps

\* The menus and the dialogs for names, which send a request.
LEMMA ManagingKeeps ==
  ASSUME PageOK,
         \/ \E b \in Bases : BaseMenu(b)
         \/ \E g \in Groups : DeleteGroup(g)
         \/ SubmitBase \/ SubmitGroup \/ SubmitBaseName \/ SubmitGroupName
  PROVE  PageOK' /\ UNCHANGED server
<1>1. StoreOK(kb)
  BY DEF PageOK
<1>2. PICK kind, of, to, by :
        /\ AimOK(kind, of, to, by)
        /\ Settles(kb, net \cup {Request(kind, of, to, by, net)})
  <2>1. CASE \E b \in Bases : BaseMenu(b)
    <3>1. PICK b \in Bases : BaseMenu(b)
      BY <2>1
    <3>2. CASE Sends(kb, "deleteBase", b, "menu")
      <4>1. AimOK("deleteBase", b, kb.selected, "menu")
        BY DEF AimOK, Adds
      <4> QED
        BY <3>2, <4>1 DEF Sends
    <3>3. CASE \E g \in (kb.groups \cup {None}) \ ({kb.bases[b]} \ {None}) :
                 Settles(kb, net \cup {Request("updateBase", b, g, "menu", net)})
      <4>1. PICK g \in kb.groups \cup {None} :
              Settles(kb, net \cup {Request("updateBase", b, g, "menu", net)})
        BY <3>3
      <4>2. AimOK("updateBase", b, g, "menu")
        BY <1>1 DEF AimOK, Adds, StoreOK, Stores
      <4> QED
        BY <4>1, <4>2
    <3> QED
      BY <3>1, <3>2, <3>3 DEF BaseMenu
  <2>2. CASE \E g \in Groups : DeleteGroup(g)
    <3>1. PICK g \in Groups : Sends(kb, "deleteGroup", g, "menu")
      BY <2>2 DEF DeleteGroup
    <3>2. AimOK("deleteGroup", g, kb.selected, "menu")
      BY DEF AimOK, Adds
    <3> QED
      BY <3>1, <3>2 DEF Sends
  <2>3. CASE SubmitBase
    <3>1. kb.dialog = "createBase" /\ Submit("createBase")
      BY <2>3 DEF SubmitBase
    <3>2. AimOK("createBase", kb.subject, None, kb.dialog)
      BY <1>1, <3>1 DEF AimOK, Adds, StoreOK
    <3> QED
      BY <3>1, <3>2 DEF Submit
  <2>4. CASE SubmitGroup
    <3>1. kb.dialog = "createGroup" /\ Submit("createGroup")
      BY <2>4 DEF SubmitGroup
    <3>2. AimOK("createGroup", kb.subject, None, kb.dialog)
      BY <3>1 DEF AimOK, Adds
    <3> QED
      BY <3>1, <3>2 DEF Submit
  <2>5. CASE SubmitBaseName
    <3>1. kb.dialog = "renameBase" /\ Submit("updateBase")
      BY <2>5 DEF SubmitBaseName
    <3>2. AimOK("updateBase", kb.subject, None, kb.dialog)
      BY <3>1 DEF AimOK, Adds
    <3> QED
      BY <3>1, <3>2 DEF Submit
  <2>6. CASE SubmitGroupName
    <3>1. kb.dialog = "renameGroup" /\ Submit("updateGroup")
      BY <2>6 DEF SubmitGroupName
    <3>2. AimOK("updateGroup", kb.subject, None, kb.dialog)
      BY <3>1 DEF AimOK, Adds
    <3> QED
      BY <3>1, <3>2 DEF Submit
  <2> QED
    BY <2>1, <2>2, <2>3, <2>4, <2>5, <2>6
<1> QED
  BY <1>1, <1>2, NewRequest, SendsKeeps

LEMMA SetActiveTabKeeps ==
  ASSUME PageOK, NEW t \in Tabs, SetActiveTab(t)
  PROVE  PageOK' /\ UNCHANGED server
<1> DEFINE k == [kb EXCEPT !.tab = t, !.loading = TRUE]
           r == Request("items", None, kb.selected, "tab", net)
<1>1. StoreOK(kb) /\ StoreOK(k)
  BY DEF PageOK, StoreOK, Stores
<1>2. Settles(k, net \cup {[r EXCEPT !.tab = t]})
  BY DEF SetActiveTab
<1>3. AimOK("items", None, kb.selected, "tab")
  BY DEF AimOK, Adds
<1>4. RequestOK(r)
  BY <1>1, <1>3, NewRequest
<1> HIDE DEF k, r
<1> QED
  BY <1>1, <1>2, <1>4, Retabbed, SendsKeeps

\* Notes, addresses and files, which are for the base that is selected.
LEMMA AimsAtSelected ==
  ASSUME StoreOK(kb), NEW kind \in Adds, NEW of \in Bases \cup {None}, NEW by
  PROVE  AimOK(kind, of, kb.selected, by)
BY DEF AimOK, Adds, StoreOK, Stores

LEMMA SaveNoteKeeps ==
  ASSUME PageOK, SaveNote
  PROVE  PageOK' /\ UNCHANGED server
<1> DEFINE r == Request("add", None, kb.selected, "note", net)
<1>1. StoreOK(kb)
  BY DEF PageOK
<1>2. Settles(kb, net \cup {[r EXCEPT !.tab = "note"]})
  BY DEF SaveNote
<1>3. RequestOK(r)
  BY <1>1, AimsAtSelected, NewRequest DEF Adds
<1> HIDE DEF r
<1> QED
  BY <1>1, <1>2, <1>3, Retabbed, SendsKeeps DEF Tabs

LEMMA SubmitAddressesKeeps ==
  ASSUME PageOK, left \in [Doings -> Nat], SubmitAddresses
  PROVE  PageOK' /\ UNCHANGED server
<1> DEFINE k == [kb EXCEPT !.sending = TRUE]
           One(others) == others \cup {[Request("add", None, kb.selected, "url", others)
                                          EXCEPT !.tab = "url", !.many = left["add"]]}
<1>1. StoreOK(kb) /\ StoreOK(k) /\ RequestsOK(net)
  BY DEF PageOK, StoreOK, Stores
<1>2. left["add"] \in Nat /\ "url" \in Tabs
  BY DEF Doings, Tabs
<1>3. ASSUME NEW others, RequestsOK(others) PROVE RequestsOK(One(others))
  <2> DEFINE r == Request("add", None, kb.selected, "url", others)
  <2>1. RequestOK(r)
    BY <1>1, AimsAtSelected, NewRequest DEF Adds
  <2> HIDE DEF r
  <2>2. RequestOK([r EXCEPT !.tab = "url", !.many = left["add"]])
    BY <1>2, <2>1, Retabbed
  <2> QED
    BY <1>3, <2>2 DEF RequestsOK, r
<1>4. \E msgs \in {One(net), One(One(net))} : Settles(k, msgs)
  BY DEF SubmitAddresses
<1> HIDE DEF k, One
<1>5. RequestsOK(One(net)) /\ RequestsOK(One(One(net)))
  BY <1>1, <1>3
<1> QED
  BY <1>1, <1>4, <1>5, SettlesKeeps

LEMMA ChooseFilesKeeps ==
  ASSUME PageOK, ChooseFiles
  PROVE  PageOK' /\ UNCHANGED server
<1> DEFINE r == Request("uploadUrl", kb.selected, kb.selected, "upload", net)
<1>1. StoreOK(kb) /\ kb.selected \in Bases \cup {None}
  BY DEF PageOK, StoreOK, Stores
<1>2. PICK more \in {0, 1} : Settles(kb, net \cup {[r EXCEPT !.many = more]})
  BY DEF ChooseFiles
<1>3. RequestOK(r)
  BY <1>1, AimsAtSelected, NewRequest DEF Adds
<1> HIDE DEF r
<1>4. RequestOK([r EXCEPT !.many = more])
  BY <1>3, Retabbed DEF Tabs
<1> QED
  BY <1>1, <1>2, <1>4, SendsKeeps

LEMMA RowsKeep ==
  ASSUME PageOK, NEW i \in Items, DeleteItem(i) \/ ReindexItem(i)
  PROVE  PageOK' /\ UNCHANGED server
<1>1. StoreOK(kb)
  BY DEF PageOK
<1>2. AimOK("remove", i, kb.selected, "delete") /\ AimOK("reindex", i, kb.selected, "row")
  BY DEF AimOK, Adds
<1>3. \/ Settles(kb, net \cup {Request("remove", i, kb.selected, "delete", net)})
      \/ Settles(kb, net \cup {Request("reindex", i, kb.selected, "row", net)})
  BY DEF DeleteItem, ReindexItem, Sends
<1> QED
  BY <1>1, <1>2, <1>3, NewRequest, SendsKeeps

LEMMA PollKeeps ==
  ASSUME PageOK, Poll
  PROVE  PageOK' /\ UNCHANGED <<server, left>>
<1>1. StoreOK(kb)
  BY DEF PageOK
<1>2. AimOK("items", None, kb.selected, "poll")
  BY DEF AimOK, Adds
<1>3. Settles(kb, net \cup {Request("items", None, kb.selected, "poll", net)}) /\ UNCHANGED left
  BY DEF Poll, Sends
<1> QED
  BY <1>1, <1>2, <1>3, NewRequest, SendsKeeps

LEMMA RunSearchKeeps ==
  ASSUME PageOK, RunSearch
  PROVE  PageOK' /\ UNCHANGED server
<1> DEFINE k == [kb EXCEPT !.recall = "empty"]
<1>1. StoreOK(kb) /\ StoreOK(k) /\ k.selected = kb.selected
  BY DEF PageOK, StoreOK, Stores, RecallViews
<1>2. AimOK("search", kb.selected, kb.selected, "search")
  BY DEF AimOK, Adds
<1>3. Settles(k, net \cup {Request("search", kb.selected, k.selected, "search", net)})
  BY DEF RunSearch, Sends
<1> HIDE DEF k
<1> QED
  BY <1>1, <1>2, <1>3, NewRequest, SendsKeeps

LEMMA UserKeeps ==
  ASSUME PageOK, left \in [Doings -> Nat], User
  PROVE  PageOK' /\ UNCHANGED server
BY OpenPageKeeps, LeavePageKeeps, SelectBaseKeeps, NavigatorKeeps, CloseDialogKeeps, ManagingKeeps,
   SetActiveTabKeeps, SaveNoteKeeps, SubmitAddressesKeeps, ChooseFilesKeeps, RowsKeep, RunSearchKeeps
   DEF User

\* Every doing of the user and the network has its share of the budget.
LEMMA LeftStays ==
  ASSUME left \in [Doings -> Nat], Next
  PROVE  left' \in [Doings -> Nat]
<1>1. ASSUME NEW d \in Doings, Spend(d) PROVE left' \in [Doings -> Nat]
  BY <1>1 DEF Spend
<1>2. {"walk", "select", "tab", "manage", "add", "upload", "row", "search", "lost"} \subseteq Doings
  BY DEF Doings
<1>3. UNCHANGED left \/ \E d \in {"walk", "select", "tab", "manage", "add", "upload", "row", "search",
                                  "lost"} : Spend(d)
  <2>1. CASE User
    BY <2>1 DEF User, OpenPage, LeavePage, CloseMenu, MenuDialog, OfferBase, CloseDialog, SubmitBase,
       SubmitGroup, SubmitBaseName, SubmitGroupName, OpenAdd, SaveNote, SubmitAddresses, ChooseFiles,
       OpenRecall, RunSearch, SelectBase, BaseMenu, DeleteGroup, ToggleGroup, OpenMenu, SetActiveTab,
       DeleteItem, ReindexItem
  <2>2. CASE Poll \/ (\E i \in Items : Index(i))
    BY <2>2 DEF Poll, Index
  <2>3. CASE \E m \in net : Serve(m) \/ Lose(m) \/ Deliver(m)
    BY <2>3 DEF Serve, Lose, Deliver
  <2> QED
    BY <2>1, <2>2, <2>3 DEF Next
<1> QED
  BY <1>1, <1>2, <1>3

-----------------------------------------------------------------------------

LEMMA FirstIsOK == Init => KnowledgePageOK
<1> SUFFICES ASSUME Init PROVE KnowledgePageOK
  OBVIOUS
<1>1. PICK s \in Scenarios :
        /\ bases = s.bases /\ items = s.items /\ left = s.doings
        /\ kb \in IF s.visited = {} THEN {Store} ELSE {Visited(b, s.tab) : b \in s.visited}
  BY DEF Init
<1>2. groups \subseteq Groups /\ net = {}
  BY DEF Init
<1>3. ServerOK /\ left \in [Doings -> Nat]
  BY <1>1, <1>2, KnowledgePageAssumption DEF ServerOK
<1>4. StoreOK(Store) /\ DialogOK(Store)
  <2>1. Store \in Stores
    BY EmptyOK DEF Store, Stores, Places, Tabs, RecallViews
  <2>2. Store.dialog = None
    BY DEF Store
  <2> QED
    BY <2>1, <2>2, KnowledgePageAssumption DEF StoreOK, DialogOK, StoreDialogs
<1>5. ASSUME NEW b \in s.visited
      PROVE  StoreOK(Visited(b, s.tab)) /\ DialogOK(Visited(b, s.tab))
  <2> DEFINE list == [i \in Items |-> IF items[i].base = b /\ items[i].type = s.tab
                                      THEN items[i].status ELSE "absent"]
             known == Groups \cap {bases[x] : x \in Bases}
             v == [Store EXCEPT !.open = TRUE, !.bases = bases, !.groups = known,
                                !.expanded = {None} \cup Groups, !.selected = b, !.tab = s.tab,
                                !.list = list]
  <2>1. list \in [Items -> Status] /\ known \in SUBSET Groups
    BY <1>3 DEF ServerOK, Rows, Status
  <2>2. b \in Bases /\ s.tab \in Tabs /\ bases \in [Bases -> Places]
    BY <1>3, KnowledgePageAssumption DEF ServerOK
  <2>3. v = Visited(b, s.tab)
    BY DEF Visited
  <2> HIDE DEF list, known
  <2>4. StoreOK(v) /\ DialogOK(v)
    <3>1. v.dialog = Store.dialog /\ v.subject = Store.subject
      BY <1>4 DEF StoreOK, Stores
    <3>2. v \in Stores
      BY <1>4, <2>1, <2>2 DEF StoreOK, Stores
    <3>3. v.dialog = None
      BY <3>1 DEF Store
    <3> QED
      BY <3>2, <3>3, KnowledgePageAssumption DEF StoreOK, DialogOK, StoreDialogs
  <2> HIDE DEF v
  <2> QED
    BY <2>3, <2>4
<1>6. StoreOK(kb) /\ DialogOK(kb)
  BY <1>1, <1>4, <1>5
<1> QED
  BY <1>2, <1>3, <1>6 DEF KnowledgePageOK, PageOK, RequestsOK

LEMMA StepKeeps == KnowledgePageOK /\ [Next]_vars => KnowledgePageOK'
<1> SUFFICES ASSUME KnowledgePageOK, [Next]_vars PROVE KnowledgePageOK'
  OBVIOUS
<1>1. ServerOK /\ PageOK /\ left \in [Doings -> Nat]
  BY DEF KnowledgePageOK
<1>2. ASSUME UNCHANGED server PROVE ServerOK'
  BY <1>1, <1>2 DEF ServerOK, server
<1>3. CASE User
  BY <1>1, <1>2, <1>3, UserKeeps, LeftStays DEF KnowledgePageOK, Next
<1>4. CASE Poll
  BY <1>1, <1>2, <1>4, PollKeeps DEF KnowledgePageOK
<1>5. CASE \E i \in Items : Index(i)
  BY <1>1, <1>5, IndexKeeps DEF KnowledgePageOK
<1>6. ASSUME NEW m \in net, Serve(m) PROVE KnowledgePageOK'
  BY <1>1, <1>6, ServeKeeps DEF KnowledgePageOK
<1>7. ASSUME NEW m \in net, Lose(m) PROVE KnowledgePageOK'
  BY <1>1, <1>7, LoseKeeps, LeftStays DEF KnowledgePageOK, Next
<1>8. ASSUME NEW m \in net, Deliver(m) PROVE KnowledgePageOK'
  BY <1>1, <1>2, <1>8, DeliverKeeps DEF KnowledgePageOK
<1>9. CASE UNCHANGED vars
  BY <1>1, <1>9 DEF vars, KnowledgePageOK, ServerOK, PageOK, StoreOK, DialogOK, RequestsOK
<1> QED
  BY <1>3, <1>4, <1>5, <1>6, <1>7, <1>8, <1>9 DEF Next

\* The store, the lists it has read and the rows of the server have their
\* types; an item that exists, or that a job works on, is of a base that exists,
\* whatever bases are deleted while files are sent (useKnowledgeStore,
\* KnowledgeItemService.create); and a dialog of the list of items is open only
\* on the page and over a selected base (KnowledgeDetail).
THEOREM PageIsTyped == Spec => []TypeOK
<1>1. Init => KnowledgePageOK
  BY FirstIsOK
<1>2. KnowledgePageOK /\ [Next]_vars => KnowledgePageOK'
  BY StepKeeps
<1>3. KnowledgePageOK => TypeOK
  BY Typed
<1> QED
  BY <1>1, <1>2, <1>3, PTL DEF Spec
=============================================================================
