------------------------------ MODULE UserPages ------------------------------
(***************************************************************************)
(* The accounts and the page that manages them (UserManagementPage,        *)
(* api/admin/users.py): one by one or several at a time, each deed with a  *)
(* dialog that asks first.                                                 *)
(***************************************************************************)
EXTENDS Network

CONSTANT
  Accounts,  \* of the users, by number
  Self       \* the administrator at the page

Root == 0

ASSUME AccountsAssumption ==
  /\ Accounts \subseteq Nat /\ Root \in Accounts /\ Self \in Accounts
  /\ \A s \in Scenarios : s.accounts \in [Accounts -> [there : BOOLEAN, active : BOOLEAN, super : BOOLEAN]]

VARIABLES
  accounts,  \* whether they are there, may sign in, and are administrators
  people     \* the page

userVars == <<accounts, people>>

Gone      == [there |-> FALSE, active |-> FALSE, super |-> FALSE]
NoDeed    == [kind |-> None, of |-> {}, active |-> FALSE, batch |-> FALSE]
NoDialog  == [kind |-> None, of |-> Root, active |-> FALSE, super |-> FALSE]

ClosedPeople ==
  [open |-> FALSE, list |-> [u \in Accounts |-> Gone], loading |-> FALSE, selected |-> {},
   deed |-> NoDeed, dialog |-> NoDialog, saving |-> FALSE, sending |-> FALSE]

UsersInit(s) ==
  /\ accounts = s.accounts
  /\ people = IF "people" \in s.shown THEN [ClosedPeople EXCEPT !.open = TRUE, !.list = accounts]
              ELSE ClosedPeople

-----------------------------------------------------------------------------
(* The server                                                              *)

\* Who asks is an administrator still.
MayAsk == accounts[Self].there /\ accounts[Self].active /\ accounts[Self].super

\* The first one is not deleted.
Deletable(u) == u # Root /\ accounts[u].there

Deeds == {"change", "delete"}

\* The routes of the accounts name who asks as the default of a parameter, so that
\* they may not know: a request of one who is no administrator any more, and the
\* deletion of the own account, are refused or are done.
Stranger(m) ==
  /\ m.kind \in Deeds \cup {"accounts", "edit"}
  /\ ~MayAsk \/ (m.kind = "delete" /\ m.of = Self)

\* m.of is an account, or the accounts a notice is for.
ServesUsers(m) ==
  /\ m.answer = Waiting
  /\ \/ /\ m.kind = "accounts" /\ Done(m, Success(accounts))
        /\ UNCHANGED accounts
     \/ /\ m.kind \in {"change", "edit"} /\ accounts[m.of].there
        /\ accounts' = [accounts EXCEPT ![m.of].active = m.with.active,
                                        ![m.of].super = IF m.kind = "edit" THEN m.with.super ELSE @]
        /\ Done(m, Success("changed"))
     \/ /\ m.kind = "delete" /\ Deletable(m.of)
        /\ accounts' = [accounts EXCEPT ![m.of] = Gone]
        /\ Done(m, Success("deleted"))
     \/ /\ \/ Stranger(m)
           \/ m.kind \in {"change", "edit"} /\ ~accounts[m.of].there
           \/ m.kind = "delete" /\ ~Deletable(m.of)
        /\ Done(m, Refused)
        /\ UNCHANGED accounts
     \/ /\ m.kind = "notice"
        /\ Done(m, IF MayAsk /\ \E u \in m.of : accounts[u].there THEN Success("sent") ELSE Refused)
        /\ UNCHANGED accounts
  /\ UNCHANGED <<people, left>>

-----------------------------------------------------------------------------
(* The page                                                                *)

PeopleStep(k, msgs) ==
  /\ people' = k
  /\ net' = msgs
  /\ UNCHANGED accounts

ReadsAccounts(msgs) == And(msgs, "people", "accounts", Root, None)

OpenPeople ==
  /\ Spend("people")
  /\ ~people.open
  /\ PeopleStep([ClosedPeople EXCEPT !.open = TRUE, !.loading = TRUE], ReadsAccounts(net))

LeavePeople ==
  /\ Spend("people")
  /\ people.open
  /\ PeopleStep(ClosedPeople, Without({"people"}, net))

\* Nothing lies over the list, and it was read.
PeopleFree == people.open /\ ~people.loading /\ people.deed = NoDeed /\ people.dialog = NoDialog

Listed == {u \in Accounts : people.list[u].there}

ToggleSelect(u) ==
  /\ Spend("choose")
  /\ PeopleFree /\ u \in Listed
  /\ PeopleStep([people EXCEPT !.selected = (@ \ {u}) \cup ({u} \ @)], net)

\* As many as are listed are taken for all of them, though those that were deleted
\* since are still counted.
ToggleSelectAll ==
  /\ Spend("choose")
  /\ PeopleFree
  /\ PeopleStep([people EXCEPT !.selected =
                   IF Cardinality(@) = Cardinality(Listed) THEN {} ELSE Listed], net)

ClearSelection ==
  /\ Spend("choose")
  /\ PeopleFree /\ people.selected # {}
  /\ PeopleStep([people EXCEPT !.selected = {}], net)

\* What is asked is fixed with the question.
Asks(kind, of, active, batch) ==
  /\ Spend("deed")
  /\ PeopleFree /\ of # {}
  /\ PeopleStep([people EXCEPT !.deed = [kind |-> kind, of |-> of, active |-> active, batch |-> batch]],
                net)

AskOne(u) ==
  /\ u \in Listed
  /\ \E kind \in Deeds : Asks(kind, {u}, kind = "change" /\ ~people.list[u].active, FALSE)

AskBatch(kind, active) == Asks(kind, people.selected, active, TRUE)

CancelDeed ==
  /\ people.deed # NoDeed
  /\ PeopleStep([people EXCEPT !.deed = NoDeed], net)
  /\ UNCHANGED left

\* The requests of one deed are known by a number of its own.
Same(m) == {o \in net : o.here /\ o.kind \in Deeds /\ o.with.id = m.with.id}

\* One request for each of them, all at once; the question stays till the answer,
\* and may be taken away, or be confirmed again, before.
ConfirmDeed ==
  /\ Spend("deed")
  /\ people.deed # NoDeed
  /\ LET id == CHOOSE k \in 0 .. Cardinality(net) : \A o \in net : o.kind \in Deeds => o.with.id # k
         with == [id |-> id, active |-> people.deed.active, batch |-> people.deed.batch]
     IN PeopleStep(people, net \cup {Request("people", people.deed.kind, u, with, net) : u \in people.deed.of})

OpenDialog(kind, u) ==
  /\ Spend("dialog")
  /\ PeopleFree
  /\ kind = "all" => people.selected # {} /\ u = Root
  /\ kind # "all" => u \in Listed
  /\ PeopleStep([people EXCEPT !.dialog = [kind |-> kind, of |-> u, active |-> people.list[u].active,
                                           super |-> people.list[u].super]], net)

CloseDialog ==
  /\ people.dialog # NoDialog
  /\ PeopleStep([people EXCEPT !.dialog = NoDialog], net)
  /\ UNCHANGED left

FillEdit(active, super) ==
  /\ Spend("dialog")
  /\ people.dialog.kind = "edit"
  /\ PeopleStep([people EXCEPT !.dialog.active = active, !.dialog.super = super], net)

SaveEdit ==
  /\ Spend("dialog")
  /\ people.dialog.kind = "edit" /\ ~people.saving
  /\ PeopleStep([people EXCEPT !.saving = TRUE],
                And(net, "people", "edit", people.dialog.of,
                    [active |-> people.dialog.active, super |-> people.dialog.super]))

\* A notice for those that are selected by then is one for everybody if nobody is.
SendNotice ==
  /\ Spend("dialog")
  /\ people.dialog.kind \in {"one", "all"} /\ ~people.sending
  /\ PeopleStep([people EXCEPT !.sending = TRUE],
                And(net, "people", "notice",
                    IF people.dialog.kind = "one" THEN {people.dialog.of}
                    ELSE IF people.selected # {} THEN people.selected ELSE Accounts, None))

\* Mutant of DeedAnswered: the first answer is taken for all of them.
DeedAnsweredFirst(m) ==
  /\ m.kind \in Deeds /\ m.here
  /\ LET k == [people EXCEPT !.deed = NoDeed]
     IN IF Ok(m)
        THEN PeopleStep([k EXCEPT !.selected = IF m.with.batch THEN {} ELSE @],
                        ReadsAccounts((net \ Same(m)) \cup {[o EXCEPT !.here = FALSE] : o \in Same(m) \ {m}}))
        ELSE PeopleStep(k, (net \ Same(m)) \cup {[o EXCEPT !.here = FALSE] : o \in Same(m) \ {m}})

\* A deed ends with its last answer, or the first that is refused; the rest of it
\* goes on then. Either takes away the question that is shown by then.
DeedAnswered(m) ==
  /\ m.kind \in Deeds /\ m.here
  /\ LET k == [people EXCEPT !.deed = NoDeed]
     IN \/ /\ \A o \in Same(m) : Ok(o)
           /\ PeopleStep([k EXCEPT !.selected = IF m.with.batch THEN {} ELSE @],
                         ReadsAccounts(net \ Same(m)))
        \/ /\ ~Ok(m)
           /\ PeopleStep(k, (net \ Same(m)) \cup {[o EXCEPT !.here = FALSE] : o \in Same(m) \ {m}})

\* What was saved or sent closes the dialog that is open by then.
DialogAnswered(m) ==
  /\ m.kind \in {"edit", "notice"} /\ m.here
  /\ LET others == net \ {m}
         k == [people EXCEPT !.saving = @ /\ m.kind # "edit", !.sending = @ /\ m.kind # "notice",
                             !.dialog = IF Ok(m) THEN NoDialog ELSE @]
     IN PeopleStep(k, IF Ok(m) /\ m.kind = "edit" THEN ReadsAccounts(others) ELSE others)

DeliverUsers(m) ==
  /\ m.by = "people" /\ Answered(m)
  /\ UNCHANGED left
  /\ \/ DeedAnswered(m)
     \/ DialogAnswered(m)
     \/ /\ ~m.here
        /\ PeopleStep(people, net \ {m})
     \/ /\ m.kind = "accounts" /\ m.here
        /\ PeopleStep([people EXCEPT !.loading = FALSE, !.list = IF Ok(m) THEN m.answer.data ELSE @],
                      net \ {m})

PeopleUser ==
  \/ OpenPeople \/ LeavePeople \/ ToggleSelectAll \/ ClearSelection
  \/ CancelDeed \/ ConfirmDeed \/ CloseDialog \/ SaveEdit \/ SendNotice
  \/ AskBatch("delete", FALSE)
  \/ \E active \in BOOLEAN : AskBatch("change", active) \/ \E super \in BOOLEAN : FillEdit(active, super)
  \/ \E u \in Accounts : ToggleSelect(u) \/ AskOne(u) \/ \E kind \in {"edit", "one", "all"} : OpenDialog(kind, u)
=============================================================================
