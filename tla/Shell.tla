------------------------------- MODULE Shell -------------------------------
(***************************************************************************)
(* The frame around the pages of the application                           *)
(* (components/layout/AppLayout.tsx): the bell, which counts the unread    *)
(* notifications every 30 seconds, its list, and the dialog of a           *)
(* notification, on top of the session.                                    *)
(***************************************************************************)
EXTENDS Session

VARIABLES
  notes,  \* the notifications of the user, on the server
  bell    \* local state of the frame

vars == <<session, net, left, notes, bell>>

ClosedBell == [badge |-> 0, list |-> [n \in Notes |-> "absent"], open |-> FALSE,
               loading |-> FALSE, detail |-> None, clearing |-> FALSE, deleting |-> None]

\* The application starts by asking who the cookie is of.
Init ==
  /\ \E s \in Scenarios :
       /\ account = [p \in Phones |-> [status |-> s.status, version |-> 0]]
       /\ cookie = IF s.signedIn THEN [phone |-> CHOOSE p \in Phones : TRUE, version |-> 0]
                                 ELSE NoCookie
       /\ at = s.at
       /\ left = s.doings
  /\ sms = {}
  /\ user = None
  /\ booting = TRUE
  /\ form = Opened(at, None)
  /\ net = With({}, "boot", None, TRUE)
  /\ notes = [n \in Notes |-> "unsent"]
  /\ bell = ClosedBell

Unread == {n \in Notes : notes[n] = "unread"}
Kept   == {n \in Notes : notes[n] \in {"unread", "read"}}

-----------------------------------------------------------------------------
(* The server                                                              *)

NoteSent ==
  /\ Spend("note")
  /\ \E n \in Notes : notes[n] = "unsent" /\ notes' = [notes EXCEPT ![n] = "unread"]
  /\ UNCHANGED <<session, net, bell>>

ServesBell(m) ==
  /\ m.kind \in BellKinds
  /\ \/ ~Valid(m.cookie) /\ Done(m, Refusal("unauthorized")) /\ UNCHANGED notes
     \/ /\ Valid(m.cookie)
        /\ \/ m.kind = "unread" /\ Done(m, Success(Cardinality(Unread))) /\ UNCHANGED notes
           \/ /\ m.kind = "list"
              /\ Done(m, Success([n \in Notes |-> IF n \in Kept THEN notes[n] ELSE "absent"]))
              /\ UNCHANGED notes
           \/ /\ m.kind \in {"read", "readAll"}
              /\ LET marked == IF m.kind = "readAll" THEN Unread ELSE {m.of} \cap Kept
                 IN notes' = [n \in Notes |-> IF n \in marked THEN "read" ELSE notes[n]]
              /\ Done(m, Success("read"))
           \/ /\ m.kind = "clear"
              /\ notes' = [n \in Notes |-> IF n \in Kept THEN "gone" ELSE notes[n]]
              /\ Done(m, Success("cleared"))
           \/ /\ m.kind = "remove"
              /\ IF m.of \in Kept
                 THEN notes' = [notes EXCEPT ![m.of] = "gone"] /\ Done(m, Success("deleted"))
                 ELSE Done(m, Refusal("missing")) /\ UNCHANGED notes

Serve(m) ==
  /\ ~Answered(m)
  /\ \/ (ServesSigning(m) \/ ServesSession(m)) /\ UNCHANGED notes
     \/ ServesBell(m) /\ UNCHANGED <<account, sms>>
  /\ UNCHANGED <<cookie, user, booting, at, form, left, bell>>

\* A request or its answer gets lost.
Lose(m) ==
  /\ Spend("lost")
  /\ m.answer.status # "lost"
  /\ Done(m, Refusal("lost"))
  /\ UNCHANGED <<session, notes, bell>>

-----------------------------------------------------------------------------
(* The bell                                                                *)

OfBell(kind, n, good) ==
  /\ net' = With(net, kind, n, good)
  /\ UNCHANGED <<session, notes>>

Under(kind) == {m \in net : m.kind = kind}

\* Mutant of FetchUnread: at first only.
FetchUnreadOnce ==
  /\ InShell
  /\ Cardinality(Under("unread") \cup Under("logout")) < left["polls"]
  /\ bell = ClosedBell
  /\ OfBell("unread", None, TRUE)
  /\ UNCHANGED <<bell, left>>

\* fetchUnread, at first and every 30 seconds.
FetchUnread ==
  /\ InShell
  /\ Cardinality(Under("unread") \cup Under("logout")) < left["polls"]
  /\ OfBell("unread", None, TRUE)
  /\ UNCHANGED <<bell, left>>

\* The list is read whenever the panel is opened.
OpenPanel ==
  /\ Spend("open")
  /\ InShell /\ ~bell.open /\ bell.detail = None
  /\ bell' = [bell EXCEPT !.open = TRUE, !.loading = TRUE]
  /\ OfBell("list", None, TRUE)

\* A click on the bell, or outside of the panel.
ClosePanel ==
  /\ InShell /\ bell.open
  /\ bell' = [bell EXCEPT !.open = FALSE]
  /\ UNCHANGED <<session, notes, net, left>>

Rows == IF InShell /\ bell.open /\ ~bell.loading
        THEN {n \in Notes : bell.list[n] # "absent"} ELSE {}

\* openDetail: an unread notification is marked first, then shown.
OpenDetail(n) ==
  /\ Spend("read")
  /\ n \in Rows /\ bell.detail = None
  /\ IF bell.list[n] = "unread"
     THEN OfBell("read", n, TRUE) /\ UNCHANGED bell
     ELSE bell' = [bell EXCEPT !.detail = n] /\ UNCHANGED <<session, notes, net>>

CloseDetail ==
  /\ InShell /\ bell.detail # None
  /\ bell' = [bell EXCEPT !.detail = None]
  /\ UNCHANGED <<session, notes, net, left>>

MarkAllRead ==
  /\ Spend("readAll")
  /\ InShell /\ bell.open /\ bell.badge > 0
  /\ OfBell("readAll", None, TRUE)
  /\ UNCHANGED bell

\* Clearing and deleting take a second click within three seconds.
ClearAll ==
  /\ Spend("clear")
  /\ InShell /\ bell.open /\ \E n \in Notes : bell.list[n] # "absent"
  /\ IF bell.clearing
     THEN OfBell("clear", None, TRUE) /\ UNCHANGED bell
     ELSE bell' = [bell EXCEPT !.clearing = TRUE] /\ UNCHANGED <<session, notes, net>>

\* From its row or in its dialog, which the deletion then closes.
DeleteNote(n) ==
  /\ Spend("delete")
  /\ InShell /\ (n \in Rows \/ bell.detail = n)
  /\ IF bell.deleting = n
     THEN OfBell("remove", n, bell.detail = n) /\ UNCHANGED bell
     ELSE bell' = [bell EXCEPT !.deleting = n] /\ UNCHANGED <<session, notes, net>>

ConfirmLapses ==
  /\ \/ bell.clearing /\ bell' = [bell EXCEPT !.clearing = FALSE]
     \/ bell.deleting # None /\ bell' = [bell EXCEPT !.deleting = None]
  /\ UNCHANGED <<session, notes, net, left>>

Lowered(k) == IF k = 0 THEN 0 ELSE k - 1
MarkedRead == [n \in Notes |-> IF bell.list[n] = "unread" THEN "read" ELSE bell.list[n]]

\* What an answer does to the frame.
Rung(m) ==
  CASE m.kind = "unread"  -> IF Ok(m) THEN [bell EXCEPT !.badge = m.answer.data] ELSE bell
    [] m.kind = "list"    -> [bell EXCEPT !.loading = FALSE,
                                          !.list = IF Ok(m) THEN m.answer.data ELSE ClosedBell.list]
    [] m.kind = "read"    -> IF Ok(m)
                             THEN [bell EXCEPT !.badge = Lowered(@), !.detail = m.of,
                                     !.list[m.of] = IF @ = "absent" THEN @ ELSE "read"]
                             ELSE [bell EXCEPT !.detail = m.of]
    [] m.kind = "readAll" -> IF Ok(m) THEN [bell EXCEPT !.badge = 0, !.list = MarkedRead] ELSE bell
    [] m.kind = "clear"   -> IF Ok(m)
                             THEN [bell EXCEPT !.badge = 0, !.list = ClosedBell.list,
                                               !.clearing = FALSE]
                             ELSE [bell EXCEPT !.clearing = FALSE]
    [] m.kind = "remove"  -> IF Ok(m)
                             THEN [bell EXCEPT !.badge = Lowered(@), !.list[m.of] = "absent",
                                     !.detail = IF m.good THEN None ELSE @, !.deleting = None]
                             ELSE [bell EXCEPT !.deleting = None]

BellAnswered(m) ==
  /\ m.kind \in BellKinds
  /\ bell' = IF m.here THEN Rung(m) ELSE bell
  /\ net' = AfterAnswer(m)
  /\ UNCHANGED <<session, notes, left>>

-----------------------------------------------------------------------------

\* The frame is gone with the last page of the application.
FrameFollows == bell' = IF at' \in ShellPages /\ ~booting' THEN bell ELSE ClosedBell

Deliver(m) ==
  /\ Answered(m)
  /\ \/ BellAnswered(m)
     \/ DeliversSession(m) /\ FrameFollows /\ UNCHANGED <<account, sms, notes, left>>

User ==
  \/ UserOfSession /\ FrameFollows /\ UNCHANGED notes
  \/ OpenPanel \/ ClosePanel \/ CloseDetail \/ MarkAllRead \/ ClearAll
  \/ \E n \in Notes : OpenDetail(n) \/ DeleteNote(n)

Timers ==
  \/ (CoolsDown \/ EnterApplication) /\ FrameFollows /\ UNCHANGED notes
  \/ FetchUnread \/ ConfirmLapses

Outside ==
  \/ (Revoke \/ Expire) /\ UNCHANGED <<notes, bell>>
  \/ NoteSent

Next == User \/ Timers \/ Outside \/ \E m \in net : Serve(m) \/ Lose(m) \/ Deliver(m)

Spec == Init /\ [][Next]_vars

Kinds == {"boot", "login", "me", "loginCode", "logout", "register", "send", "verify",
          "forgot", "sendReset", "reset", "email", "newPassword"} \cup BellKinds

\* The server and the network answer, and the interval of the bell goes on.
Fairness ==
  /\ \A k \in Kinds : /\ WF_vars(\E m \in Under(k) : Serve(m))
                      /\ WF_vars(\E m \in Under(k) : Deliver(m))
  /\ WF_vars(FetchUnread)

FairSpec == Spec /\ Fairness

-----------------------------------------------------------------------------
(* Properties                                                              *)

\* A session that was revoked, has expired or lost its token to a new password
\* ends in the browser: the bell asks again and again, and an answer that is
\* not authorised leads to the page where the user signs in (apiRequest).
LapsedSessionEnds == (InShell /\ ~Valid(cookie)) ~> (~InShell \/ Valid(cookie))

\* Signing out comes to an end, although the answer to a request to sign out
\* may itself be one that signs out (apiRequest, logout).
LogoutsEnd == <>[](Under("logout") = {})

\* The number on the bell is right in the end: what it was counted down for
\* twice, or what an old answer set it to, is corrected by a later count.
BadgeConverges == <>[](InShell => bell.badge = Cardinality(Unread))

\* A code is on its way at most once: a sixth digit, a pasted code and the
\* button cannot use it up twice (handleCodeSubmit, submit).
OneCodeUnderWay == Cardinality({m \in net : m.kind \in {"loginCode", "verify"} /\ m.here}) <= 1
=============================================================================
