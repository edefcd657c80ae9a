---------------------------- MODULE ShellProofs ----------------------------
(***************************************************************************)
(* A code is on its way at most once, for every number of phone numbers,   *)
(* accounts and notifications, and however often the user, the server and  *)
(* the network do each thing.                                              *)
(*                                                                         *)
(* That the boxes are closed while a code is on its way is not enough for  *)
(* an induction: another answer opens them again, that of the password     *)
(* that is reset or changed.  The invariant CodeOK says on which page the  *)
(* component is that waits for each of these answers.                      *)
(***************************************************************************)
EXTENDS Shell, FiniteSetTheorems, TLAPS

Fields(m) == DOMAIN m = {"kind", "of", "good", "cookie", "here", "answer", "n"}

FormFields == DOMAIN form = {"phone", "mode", "sent", "cooling", "busy", "code", "done"}

IsCode(m) == m.here /\ m.kind \in {"loginCode", "verify"}

\* A component that waits for an answer is on its page; one that waits for that
\* of a code has its boxes closed.
AtHome(m, place, busy) ==
  /\ m.kind = "loginCode"   => place = "login" /\ busy
  /\ m.kind = "verify"      => place = "verify" /\ busy
  /\ m.kind = "forgot"      => place = "forgot"
  /\ m.kind = "reset"       => place = "reset"
  /\ m.kind = "newPassword" => place = "profile"

Sound(msgs, place, busy) ==
  /\ \A m \in msgs : Fields(m) /\ (m.here => AtHome(m, place, busy))
  /\ \A m, o \in msgs : IsCode(m) /\ IsCode(o) => m = o

CodeOK == FormFields /\ Sound(net, at, form.busy)

\* Requests that any page may send at any time.
Free(kind) == kind \notin {"loginCode", "verify", "forgot", "reset", "newPassword"}

-----------------------------------------------------------------------------
(* Requests and pages                                                      *)

LEMMA RequestFields ==
  ASSUME NEW kind, NEW p, NEW good, NEW others
  PROVE  /\ Fields(Request(kind, p, good, others))
         /\ Request(kind, p, good, others).kind = kind
  BY DEF Request, Fields

LEMMA ReceivedSound ==
  ASSUME NEW place, NEW busy, Sound(net, place, busy), NEW m
  PROVE  Sound(Received(m), place, busy)
  BY DEF Sound, Received

LEMMA WithSound ==
  ASSUME NEW place, NEW busy, NEW msgs, Sound(msgs, place, busy),
         NEW kind, Free(kind), NEW p, NEW good
  PROVE  Sound(With(msgs, kind, p, good), place, busy)
  <1> DEFINE r == Request(kind, p, good, msgs)
  <1>1. Fields(r) /\ r.kind = kind
    BY RequestFields
  <1> HIDE DEF r
  <1>2. With(msgs, kind, p, good) = msgs \cup {r}
    BY DEF With, r
  <1> QED
    BY <1>1, <1>2 DEF Sound, Free, AtHome, IsCode

LEMMA AfterAnswerSound ==
  ASSUME NEW place, NEW busy, Sound(net, place, busy), NEW m
  PROVE  Sound(AfterAnswer(m), place, busy)
  <1>1. Free("logout")
    BY DEF Free
  <1> QED
    BY <1>1, ReceivedSound, WithSound DEF AfterAnswer

\* The answer is all that serving a request, or losing it, changes of it.
LEMMA DoneSound ==
  ASSUME NEW place, NEW busy, Sound(net, place, busy), NEW m \in net, NEW answer, Done(m, answer)
  PROVE  Sound(net', place, busy)
  <1> DEFINE a == [m EXCEPT !.answer = answer]
  <1>1. Fields(a) /\ a.kind = m.kind /\ a.here = m.here
    BY DEF Sound, Fields
  <1> HIDE DEF a
  <1>2. net' = (net \ {m}) \cup {a}
    BY DEF Done, a
  <1> QED
    BY <1>1, <1>2 DEF Sound, AtHome, IsCode

\* Whoever leaves a page leaves nobody there who waits.
LEMMA GoesSound ==
  ASSUME FormFields, NEW msgs, Sound(msgs, at, form.busy), NEW page, NEW p, Goes(page, p, msgs)
  PROVE  CodeOK'
  <1>1. CASE at' = at
    BY <1>1 DEF Goes, CodeOK, FormFields
  <1>2. CASE at' # at
    <2>1. form' = Opened(at', p) /\ net' = {Orphaned(m) : m \in msgs}
      BY <1>2 DEF Goes
    <2>2. FormFields'
      BY <2>1 DEF FormFields, Opened, Blank
    <2>3. ASSUME NEW m \in msgs
          PROVE  /\ Fields(Orphaned(m)) /\ ~IsCode(Orphaned(m))
                 /\ Orphaned(m).here => AtHome(Orphaned(m), at', form'.busy)
      BY DEF Orphaned, Sound, Fields, IsCode, AtHome, BellKinds
    <2> QED
      BY <2>1, <2>2, <2>3 DEF CodeOK, Sound
  <1> QED
    BY <1>1, <1>2

LEMMA StaysSound ==
  ASSUME FormFields, NEW msgs, Sound(msgs, at, form.busy), Stays(msgs)
  PROVE  CodeOK'
  BY GoesSound DEF Stays

LEMMA SubmitsSound ==
  ASSUME CodeOK, NEW kind, Free(kind), NEW p, NEW good, Submits(kind, p, good), UNCHANGED form
  PROVE  CodeOK'
  BY WithSound DEF CodeOK, Submits, FormFields

\* Boxes that are opened again while no code is on its way.
LEMMA OpensSound ==
  ASSUME NEW place, NEW busy, NEW msgs, Sound(msgs, place, busy), \A o \in msgs : ~IsCode(o)
  PROVE  Sound(msgs, place, FALSE)
  BY DEF Sound, AtHome, IsCode

LEMMA RefilledFields ==
  ASSUME FormFields
  PROVE  DOMAIN Refilled = DOMAIN form /\ Refilled.busy = FALSE
  BY DEF FormFields, Refilled

-----------------------------------------------------------------------------
(* The session                                                             *)

\* A code is entered where the boxes are open, so none is on its way.
LEMMA EnterOK ==
  ASSUME CodeOK, NEW kind \in {"loginCode", "verify"}, BoxesOpen,
         at = IF kind = "loginCode" THEN "login" ELSE "verify",
         form' = [form EXCEPT !.busy = TRUE, !.code = "full"],
         NEW p, NEW good, Submits(kind, p, good)
  PROVE  CodeOK'
  <1> DEFINE r == Request(kind, p, good, net)
  <1>1. Fields(r) /\ r.kind = kind
    BY RequestFields
  <1>2. net' = net \cup {r} /\ at' = at
    BY DEF Submits, With
  <1> HIDE DEF r
  <1>3. form'.busy = TRUE /\ FormFields'
    BY DEF CodeOK, FormFields
  <1>4. \A m \in net : ~IsCode(m)
    BY DEF CodeOK, Sound, AtHome, IsCode, BoxesOpen
  <1> QED
    BY <1>1, <1>2, <1>3, <1>4 DEF CodeOK, Sound, AtHome, IsCode

\* The other forms that close while they wait.
LEMMA CloseOK ==
  ASSUME CodeOK, NEW kind,
         \/ kind = "forgot" /\ at = "forgot"
         \/ kind = "reset" /\ at = "reset"
         \/ kind = "newPassword" /\ at = "profile",
         form' = [form EXCEPT !.busy = TRUE], NEW p, NEW good, Submits(kind, p, good)
  PROVE  CodeOK'
  <1> DEFINE r == Request(kind, p, good, net)
  <1>1. Fields(r) /\ r.kind = kind
    BY RequestFields
  <1>2. net' = net \cup {r} /\ at' = at
    BY DEF Submits, With
  <1> HIDE DEF r
  <1>3. form'.busy = TRUE /\ FormFields'
    BY DEF CodeOK, FormFields
  <1> QED
    BY <1>1, <1>2, <1>3 DEF CodeOK, Sound, AtHome, IsCode

LEMMA UserOK ==
  ASSUME CodeOK, UserOfSession
  PROVE  CodeOK'
  <1>1. ASSUME NEW p \in Phones, SubmitPassword(p) \/ SendCode(p) \/ SubmitRegister(p)
        PROVE  CodeOK'
    <2>1. PICK kind, good : Free(kind) /\ Submits(kind, p, good) /\ UNCHANGED form
      BY <1>1 DEF SubmitPassword, SendCode, SubmitRegister, Free
    <2> QED
      BY <2>1, SubmitsSound
  <1>2. ASSUME NEW p \in Phones, EnterLoginCode(p)
        PROVE  CodeOK'
    BY <1>2, EnterOK DEF EnterLoginCode
  <1>3. CASE EnterVerifyCode
    BY <1>3, EnterOK DEF EnterVerifyCode
  <1>4. ASSUME NEW p \in Phones, SubmitForgot(p)
        PROVE  CodeOK'
    BY <1>4, CloseOK DEF SubmitForgot
  <1>5. CASE SubmitReset
    BY <1>5, CloseOK DEF SubmitReset
  <1>6. CASE ChangePassword
    BY <1>6, CloseOK DEF ChangePassword
  <1>7. CASE ProfileLogout \/ SaveEmail
    <2>1. PICK kind : Free(kind) /\ Submits(kind, None, TRUE) /\ UNCHANGED form
      BY <1>7 DEF ProfileLogout, SaveEmail, Free
    <2> QED
      BY <2>1, SubmitsSound
  <1>8. CASE MenuLogout
    <2>1. Sound(With(net, "logout", None, TRUE), at, form.busy)
      BY WithSound DEF CodeOK, Free
    <2> QED
      BY <1>8, <2>1, GoesSound DEF MenuLogout, CodeOK
  <1>9. CASE EnterResetCode \/ Walk
    BY <1>9, GoesSound DEF EnterResetCode, Walk, CodeOK
  <1>10. CASE SwitchMode
    BY <1>10 DEF SwitchMode, CodeOK, FormFields
  <1> QED
    BY <1>1, <1>2, <1>3, <1>4, <1>5, <1>6, <1>7, <1>8, <1>9, <1>10 DEF UserOfSession

\* An answer that only opens the form again, for the component that asked.
LEMMA ReopensOK ==
  ASSUME CodeOK, NEW m \in net, m.kind \in {"loginCode", "verify", "forgot", "reset", "newPassword"},
         NEW msgs, Sound(msgs, at, form.busy), \A o \in msgs : IsCode(o) => o \in Received(m),
         net' = msgs, UNCHANGED at,
         \/ form' = form
         \/ m.here /\ form'.busy = FALSE /\ DOMAIN form' = DOMAIN form
  PROVE  CodeOK'
  <1>1. CASE form' = form
    BY <1>1 DEF CodeOK, FormFields
  <1>2. CASE m.here /\ form'.busy = FALSE /\ DOMAIN form' = DOMAIN form
    <2>1. \A o \in msgs : ~IsCode(o)
      BY <1>2 DEF CodeOK, Sound, AtHome, IsCode, Received
    <2> QED
      BY <1>2, <2>1, OpensSound DEF CodeOK, FormFields
  <1> QED
    BY <1>1, <1>2

LEMMA DeliversOK ==
  ASSUME CodeOK, NEW m \in net, DeliversSession(m)
  PROVE  CodeOK'
  <1>1. /\ FormFields /\ Sound(net, at, form.busy)
        /\ Sound(Received(m), at, form.busy) /\ Sound(AfterAnswer(m), at, form.busy)
    BY ReceivedSound, AfterAnswerSound DEF CodeOK
  <1>2. DOMAIN Refilled = DOMAIN form /\ Refilled.busy = FALSE
    BY <1>1, RefilledFields
  <1>3. CASE BootAnswered(m) \/ LogoutAnswered(m)
    BY <1>1, <1>3, StaysSound DEF BootAnswered, LogoutAnswered
  <1>4. CASE LoginAnswered(m)
    <2>1. CASE Ok(m)
      <3> DEFINE q == Request("me", m.of, TRUE, Received(m))
                 r == [q EXCEPT !.cookie = cookie']
      <3>1. at' = at /\ form' = form /\ net' = Received(m) \cup {r}
        BY <1>4, <2>1 DEF LoginAnswered
      <3>2. Fields(q) /\ q.kind = "me"
        BY RequestFields
      <3> HIDE DEF q
      <3>3. Fields(r) /\ r.kind = "me"
        BY <3>2 DEF Fields
      <3> HIDE DEF r
      <3> QED
        BY <1>1, <3>1, <3>3 DEF CodeOK, FormFields, Sound, AtHome, IsCode
    <2>2. CASE ~Ok(m)
      BY <1>1, <1>4, <2>2, GoesSound, StaysSound DEF LoginAnswered
    <2> QED
      BY <2>1, <2>2
  <1>5. CASE MeAnswered(m)
    BY <1>1, <1>5, GoesSound, StaysSound DEF MeAnswered
  <1>6. CASE SendAnswered(m)
    <2>1. FormFields' /\ form'.busy = form.busy
      BY <1>1, <1>6 DEF SendAnswered, FormFields
    <2> QED
      BY <1>1, <1>6, <2>1 DEF SendAnswered, CodeOK
  <1>7. CASE LoginCodeAnswered(m)
    <2>1. CASE Ok(m)
      BY <1>1, <1>7, <2>1, GoesSound DEF LoginCodeAnswered
    <2>2. CASE ~Ok(m)
      BY <1>1, <1>2, <1>7, <2>2, ReopensOK DEF LoginCodeAnswered
    <2> QED
      BY <2>1, <2>2
  <1>8. CASE RegisterAnswered(m)
    BY <1>1, <1>8, GoesSound, StaysSound DEF RegisterAnswered
  <1>9. CASE VerifyAnswered(m)
    <2>1. \/ form' = form
          \/ m.here /\ form'.busy = FALSE /\ DOMAIN form' = DOMAIN form
      BY <1>1, <1>2, <1>9 DEF VerifyAnswered, FormFields
    <2> QED
      BY <1>1, <1>9, <2>1, ReopensOK DEF VerifyAnswered
  <1>10. CASE ForgotAnswered(m) \/ ResetAnswered(m)
    <2>1. CASE Ok(m)
      BY <1>1, <1>10, <2>1, GoesSound DEF ForgotAnswered, ResetAnswered
    <2>2. CASE ~Ok(m)
      BY <1>1, <1>2, <1>10, <2>2, ReopensOK DEF ForgotAnswered, ResetAnswered
    <2> QED
      BY <2>1, <2>2
  <1>11. CASE ProfileAnswered(m)
    <2>1. \A o \in AfterAnswer(m) : IsCode(o) => o \in Received(m)
      <3> DEFINE r == Request("logout", None, TRUE, Received(m))
      <3>1. r.kind = "logout"
        BY RequestFields
      <3>2. AfterAnswer(m) \subseteq Received(m) \cup {r}
        BY DEF AfterAnswer, With
      <3> HIDE DEF r
      <3> QED
        BY <3>1, <3>2 DEF IsCode
    <2>2. /\ net' = AfterAnswer(m) /\ UNCHANGED at
          /\ form' = IF m.here /\ m.kind = "newPassword" THEN Refilled ELSE form
      BY <1>11 DEF ProfileAnswered
    <2>3. CASE m.kind = "newPassword"
      BY <1>1, <1>2, <2>1, <2>2, <2>3, ReopensOK
    <2>4. CASE m.kind # "newPassword"
      BY <1>1, <2>2, <2>4 DEF CodeOK, FormFields
    <2> QED
      BY <2>3, <2>4
  <1> QED
    BY <1>3, <1>4, <1>5, <1>6, <1>7, <1>8, <1>9, <1>10, <1>11 DEF DeliversSession

-----------------------------------------------------------------------------
(* The frame, the server and the whole                                     *)

LEMMA OfBellOK ==
  ASSUME CodeOK, NEW kind \in BellKinds, NEW n, NEW good, OfBell(kind, n, good)
  PROVE  CodeOK'
  <1>1. Free(kind)
    BY DEF Free, BellKinds
  <1> QED
    BY <1>1, WithSound DEF OfBell, CodeOK, FormFields, session

LEMMA CodeKept ==
  ASSUME CodeOK, UNCHANGED <<net, at, form>>
  PROVE  CodeOK'
  BY DEF CodeOK, FormFields

LEMMA FrameOK ==
  ASSUME CodeOK,
         \/ OpenPanel \/ ClosePanel \/ CloseDetail \/ MarkAllRead \/ ClearAll
         \/ \E n \in Notes : OpenDetail(n) \/ DeleteNote(n)
         \/ FetchUnread \/ ConfirmLapses
  PROVE  CodeOK'
  <1>1. \/ \E kind \in BellKinds : \E n, good : OfBell(kind, n, good)
        \/ UNCHANGED <<session, net>>
    BY DEF OpenPanel, ClosePanel, CloseDetail, MarkAllRead, ClearAll, OpenDetail, DeleteNote,
           FetchUnread, ConfirmLapses, BellKinds
  <1> QED
    BY <1>1, OfBellOK, CodeKept DEF session

LEMMA ServeOK ==
  ASSUME CodeOK, NEW m \in net, Serve(m) \/ Lose(m)
  PROVE  CodeOK'
  <1>1. UNCHANGED <<at, form>>
    BY DEF Serve, Lose, session
  <1>2. \E answer : Done(m, answer)
    BY DEF Serve, Lose, ServesSigning, ServesSession, ServesBell
  <1> QED
    BY <1>1, <1>2, DoneSound DEF CodeOK, FormFields

LEMMA DeliverOK ==
  ASSUME CodeOK, NEW m \in net, Deliver(m)
  PROVE  CodeOK'
  <1>1. CASE BellAnswered(m)
    <2>1. net' = AfterAnswer(m) /\ UNCHANGED <<at, form>>
      BY <1>1 DEF BellAnswered, session
    <2> QED
      BY <2>1, AfterAnswerSound DEF CodeOK, FormFields
  <1>2. CASE DeliversSession(m)
    BY <1>2, DeliversOK
  <1> QED
    BY <1>1, <1>2 DEF Deliver

LEMMA InitOK ==
  ASSUME Init
  PROVE  CodeOK
  <1>1. net = With({}, "boot", None, TRUE) /\ form = Opened(at, None)
    BY DEF Init
  <1>2. Sound({}, at, form.busy)
    BY DEF Sound
  <1>3. Free("boot")
    BY DEF Free
  <1> QED
    BY <1>1, <1>2, <1>3, WithSound DEF CodeOK, FormFields, Opened, Blank

LEMMA StepOK ==
  ASSUME CodeOK, [Next]_vars
  PROVE  CodeOK'
  <1>1. CASE UNCHANGED vars
    BY <1>1, CodeKept DEF vars, session
  <1>2. CASE User
    BY <1>2, UserOK, FrameOK DEF User
  <1>3. CASE Timers
    <2>1. CASE CoolsDown
      BY <2>1 DEF CoolsDown, CodeOK, FormFields
    <2>2. CASE EnterApplication
      BY <2>2, GoesSound DEF EnterApplication, CodeOK
    <2> QED
      BY <1>3, <2>1, <2>2, FrameOK DEF Timers
  <1>4. CASE Outside
    BY <1>4, CodeKept DEF Outside, Revoke, Expire, NoteSent, session
  <1> QED
    BY <1>1, <1>2, <1>3, <1>4, ServeOK, DeliverOK DEF Next

\* The invariant: every step of the user, the timers, the network and the
\* server keeps it.
THEOREM CodesAreSound == Spec => []CodeOK
  BY InitOK, StepOK, PTL DEF Spec

\* A code is on its way at most once, from whichever page: a sixth digit, a
\* pasted code and the button cannot use it up twice (handleCodeSubmit, submit).
THEOREM CodesAreSentOnce == Spec => []OneCodeUnderWay
  <1>1. CodeOK => OneCodeUnderWay
    <2> SUFFICES ASSUME CodeOK
                 PROVE  OneCodeUnderWay
      OBVIOUS
    <2> DEFINE S == {m \in net : m.kind \in {"loginCode", "verify"} /\ m.here}
    <2>1. \A m, o \in S : m = o
      BY DEF CodeOK, Sound, IsCode
    <2>2. S = {} \/ \E m : S = {m}
      BY <2>1
    <2>3. Cardinality(S) <= 1
      BY <2>2, FS_EmptySet, FS_Singleton
    <2> QED
      BY <2>3 DEF OneCodeUnderWay
  <1> QED
    BY <1>1, CodesAreSound, PTL
=============================================================================
