------------------------------ MODULE Session ------------------------------
(***************************************************************************)
(* Signing in and out in the frontend: the store of the session            *)
(* (store/useAuthStore.ts), what every call to the server does when it is  *)
(* not authorised (api/client.ts), the guards of the routes, the six pages *)
(* before the application, and the profile.                                *)
(*                                                                         *)
(* A call is sent with the cookie of that moment, served, and its answer   *)
(* is delivered, in any order.  Answers set and clear the cookie.          *)
(***************************************************************************)
EXTENDS Naturals, FiniteSets

CONSTANTS
  None,      \* no user, no cookie, no phone
  Phones,    \* phone numbers, each of an account at most
  Notes,     \* notifications ever sent to the user
  Scenarios  \* the accounts and the page at the start, and how often the user,
             \* the server and the network then do each thing

Doings == {"password", "code", "send", "register", "reset", "profile", "logout", "walk",
           "revoke", "expire", "lost", "note", "open", "read", "readAll", "clear", "delete",
           "polls"}  \* counts, and requests to sign out, under way when one is sent

SignPages  == {"login", "register", "verify", "forgot", "verifyReset", "reset"}
ShellPages == {"home", "profile"}

ASSUME SessionAssumption ==
  /\ None \notin Phones \cup Notes
  /\ \A s \in Scenarios : s.doings \in [Doings -> Nat] /\ s.at \in SignPages \cup ShellPages

VARIABLES
  account,  \* of each phone, on the server: status, and the version of its tokens
  sms,      \* phones with a code that can still be used
  cookie,   \* the cookie of the browser
  user,     \* user of the session store
  booting,  \* its loading
  at,       \* the page
  form,     \* local state of the page
  net,      \* requests and answers under way
  left      \* what is left of the budget

session == <<account, sms, cookie, user, booting, at, form>>

NoCookie  == [phone |-> None, version |-> 0]
Cookie(p) == [phone |-> p, version |-> account[p].version]
Valid(c)  == c # NoCookie /\ account[c.phone].status = "verified"
                      /\ account[c.phone].version = c.version

Blank == [phone |-> None, mode |-> "password", sent |-> FALSE, cooling |-> FALSE,
          busy |-> FALSE, code |-> "empty", done |-> FALSE]

\* verify-phone and verify-reset start with a minute in which nothing is resent.
Opened(page, p) == [Blank EXCEPT !.phone = p, !.cooling = page \in {"verify", "verifyReset"}]

Spend(d) == left[d] > 0 /\ left' = [left EXCEPT ![d] = @ - 1]

-----------------------------------------------------------------------------
(* Requests                                                                *)

\* here is FALSE once the component that waits for the answer is gone.
Request(kind, p, good, others) ==
  [kind |-> kind, of |-> p, good |-> good, cookie |-> cookie, here |-> TRUE,
   answer |-> [status |-> "waiting"],
   n |-> CHOOSE k \in 0 .. Cardinality(others) : \A m \in others : m.kind = kind => m.n # k]

With(others, kind, p, good) == others \cup {Request(kind, p, good, others)}

Success(data)    == [status |-> "ok", data |-> data]
Refusal(reason)  == [status |-> reason]
Answered(m) == m.answer.status # "waiting"
Ok(m)       == m.answer.status = "ok"

Done(m, answer) == net' = (net \ {m}) \cup {[m EXCEPT !.answer = answer]}

\* The next page, as the guard of the routes lets it be reached: a page of the
\* application is rendered for a user, or while it is not known who that is.
Landing(page, u, unknown) == IF page \in ShellPages /\ u = None /\ ~unknown THEN "login" ELSE page

\* Requests of the frame that the pages of the application share.
BellKinds == {"unread", "list", "read", "readAll", "clear", "remove"}

Orphaned(m) == IF m.kind \in BellKinds /\ at' \in ShellPages THEN m ELSE [m EXCEPT !.here = FALSE]

\* Every step of the browser ends with the page and what is under way; the
\* state of a page that was left is gone.
Goes(page, p, msgs) ==
  /\ at' = Landing(page, user', booting')
  /\ net' = IF at' = at THEN msgs ELSE {Orphaned(m) : m \in msgs}
  /\ form' = IF at' = at THEN form ELSE Opened(at', p)

Stays(msgs) == Goes(at, None, msgs)

-----------------------------------------------------------------------------
(* The server                                                              *)

ServesSigning(m) ==
  \/ /\ m.kind = "login"
     /\ Done(m, IF ~m.good \/ account[m.of].status = "none" THEN Refusal("bad")
                ELSE IF account[m.of].status = "new" THEN Refusal("unverified")
                ELSE Success(Cookie(m.of)))
     /\ UNCHANGED <<account, sms>>
  \/ /\ m.kind \in {"loginCode", "verify"}
     /\ LET passes == m.good /\ m.of \in sms /\ account[m.of].status # "none"
        IN IF passes
           THEN /\ account' = [account EXCEPT ![m.of].status = "verified"]
                /\ Done(m, Success(Cookie(m.of)))
           ELSE Done(m, Refusal("code")) /\ UNCHANGED account
     /\ UNCHANGED sms
  \/ /\ m.kind = "register"
     /\ IF account[m.of].status # "none"
        THEN Done(m, Refusal("duplicate")) /\ UNCHANGED <<account, sms>>
        ELSE /\ account' = [account EXCEPT ![m.of].status = "new"]
             /\ \E sent \in {{}, {m.of}} : sms' = sms \cup sent
             /\ Done(m, Success(m.of))
  \/ /\ m.kind \in {"send", "sendReset", "forgot"}
     /\ \/ sms' = sms \cup {m.of} /\ Done(m, Success(m.of))
        \/ UNCHANGED sms /\ Done(m, Refusal("sms"))
     /\ UNCHANGED account
  \/ /\ m.kind = "reset"
     /\ Done(m, IF m.good /\ m.of \in sms THEN Success(m.of) ELSE Refusal("code"))
     /\ UNCHANGED <<account, sms>>

\* Routes that ask for a valid token.  An address cannot be saved, the route is
\* another one; a new password makes the tokens invalid, that of the page too.
ServesSession(m) ==
  \/ /\ m.kind \in {"me", "boot", "logout", "email", "newPassword"}
     /\ ~Valid(m.cookie)
     /\ Done(m, Refusal("unauthorized"))
     /\ UNCHANGED <<account, sms>>
  \/ /\ m.kind \in {"me", "boot", "logout", "email"}
     /\ Valid(m.cookie)
     /\ Done(m, IF m.kind = "email" THEN Refusal("method") ELSE Success(m.cookie))
     /\ UNCHANGED <<account, sms>>
  \/ /\ m.kind = "newPassword"
     /\ Valid(m.cookie)
     /\ \/ /\ m.good
           /\ account' = [account EXCEPT ![m.cookie.phone].version = @ + 1]
           /\ Done(m, Success("changed"))
        \/ Done(m, Refusal("password")) /\ UNCHANGED account
     /\ UNCHANGED sms

\* An administrator revokes the tokens of a user; a code or a cookie expires.
Revoke ==
  /\ Spend("revoke")
  /\ \E p \in Phones : account' = [account EXCEPT ![p].version = @ + 1]
  /\ UNCHANGED <<sms, cookie, user, booting, at, form, net>>

Expire ==
  /\ Spend("expire")
  /\ \/ sms # {} /\ sms' = {} /\ UNCHANGED cookie
     \/ cookie # NoCookie /\ cookie' = NoCookie /\ UNCHANGED sms
  /\ UNCHANGED <<account, user, booting, at, form, net>>

-----------------------------------------------------------------------------
(* The store and the client                                                *)

Received(m) == net \ {m}

\* Mutant of AfterAnswer: the caller gets the error, and that is all.
AfterAnswerQuietly(m) == Received(m)

\* apiRequest: an answer that is not authorised signs the user out, which is
\* another request; the caller gets an error in any case.
AfterAnswer(m) ==
  IF m.answer.status = "unauthorized" /\ user # None
  THEN With(Received(m), "logout", None, TRUE)
  ELSE Received(m)

\* init: who the cookie says the user is.
BootAnswered(m) ==
  /\ m.kind = "boot"
  /\ user' = IF Ok(m) THEN m.answer.data.phone ELSE None
  /\ booting' = FALSE
  /\ Stays(AfterAnswer(m))
  /\ UNCHANGED cookie

\* Mutant of LogoutAnswered: who could not be signed out stays.
LogoutAnsweredOnly(m) ==
  /\ m.kind = "logout"
  /\ user' = IF Ok(m) THEN None ELSE user
  /\ cookie' = IF Ok(m) THEN NoCookie ELSE cookie
  /\ UNCHANGED booting
  /\ Stays(AfterAnswer(m))

\* logout: nobody is signed in, whatever the answer was.
LogoutAnswered(m) ==
  /\ m.kind = "logout"
  /\ user' = None
  /\ cookie' = IF Ok(m) THEN NoCookie ELSE cookie
  /\ UNCHANGED booting
  /\ Stays(AfterAnswer(m))

\* login: the cookie is there, and the user is asked for.
LoginAnswered(m) ==
  /\ m.kind = "login"
  /\ UNCHANGED <<user, booting>>
  /\ IF Ok(m)
     THEN /\ cookie' = m.answer.data
          /\ at' = at /\ form' = form
          /\ net' = Received(m) \cup
               {[Request("me", m.of, TRUE, Received(m)) EXCEPT !.cookie = cookie']}
     ELSE /\ UNCHANGED cookie
          /\ IF m.answer.status = "unverified" THEN Goes("verify", m.of, Received(m))
                                                 ELSE Stays(Received(m))

MeAnswered(m) ==
  /\ m.kind = "me"
  /\ UNCHANGED <<cookie, booting>>
  /\ user' = IF Ok(m) THEN m.answer.data.phone ELSE user
  /\ IF Ok(m) THEN Goes("home", None, Received(m)) ELSE Stays(AfterAnswer(m))

-----------------------------------------------------------------------------
(* The pages before the application                                        *)

\* A form that is filled in, valid, and sent.
Submits(kind, p, good) ==
  /\ net' = With(net, kind, p, good)
  /\ UNCHANGED <<account, sms, cookie, user, booting, at>>

\* LoginPage: a password that is right or wrong; nothing keeps the user from
\* sending it again.
SubmitPassword(p) ==
  /\ Spend("password")
  /\ at = "login" /\ form.mode = "password"
  /\ \E good \in BOOLEAN : Submits("login", p, good)
  /\ UNCHANGED form

SwitchMode ==
  /\ Spend("walk")
  /\ at = "login"
  /\ form' = [form EXCEPT !.mode = IF @ = "password" THEN "code" ELSE "password",
                          !.sent = FALSE, !.code = "empty"]
  /\ UNCHANGED <<account, sms, cookie, user, booting, at, net>>

\* The buttons that send a code: the first one, and those to resend it.
CanSend ==
  \/ at = "login" /\ form.mode = "code" /\ (form.sent => ~form.cooling)
  \/ at \in {"verify", "verifyReset"} /\ ~form.done /\ ~form.cooling
SendCode(p) ==
  /\ Spend("send")
  /\ CanSend
  /\ at # "login" => p = form.phone
  /\ Submits(IF at = "verifyReset" THEN "sendReset" ELSE "send", p, TRUE)
  /\ UNCHANGED form

SendAnswered(m) ==
  /\ m.kind \in {"send", "sendReset"}
  /\ form' = IF m.here /\ Ok(m) THEN [form EXCEPT !.sent = TRUE, !.cooling = TRUE] ELSE form
  /\ net' = Received(m)
  /\ UNCHANGED <<cookie, user, booting, at>>

CoolsDown ==
  /\ form.cooling
  /\ form' = [form EXCEPT !.cooling = FALSE]
  /\ UNCHANGED <<account, sms, cookie, user, booting, at, net, left>>

\* The six boxes and the button take a code until one is on its way.
BoxesOpen == ~form.busy /\ ~form.done

\* Mutant of EnterLoginCode: the six boxes stay open.
EnterLoginCodeTwice(p) ==
  /\ Spend("code")
  /\ at = "login" /\ form.mode = "code" /\ form.sent
  /\ form' = [form EXCEPT !.busy = TRUE, !.code = "full"]
  /\ \E good \in BOOLEAN : Submits("loginCode", p, good)

\* The sixth digit sends the code; the boxes are closed until it is answered.
EnterLoginCode(p) ==
  /\ Spend("code")
  /\ at = "login" /\ form.mode = "code" /\ form.sent /\ BoxesOpen
  /\ form' = [form EXCEPT !.busy = TRUE, !.code = "full"]
  /\ \E good \in BOOLEAN : Submits("loginCode", p, good)

Refilled == [form EXCEPT !.busy = FALSE, !.code = "empty"]

LoginCodeAnswered(m) ==
  /\ m.kind = "loginCode"
  /\ UNCHANGED booting
  /\ IF Ok(m)
     THEN /\ cookie' = m.answer.data
          /\ user' = m.answer.data.phone
          /\ Goes("home", None, Received(m))
     ELSE /\ form' = IF m.here THEN Refilled ELSE form
          /\ net' = Received(m)
          /\ UNCHANGED <<cookie, user, at>>

\* RegisterPage.
SubmitRegister(p) ==
  /\ Spend("register")
  /\ at = "register"
  /\ Submits("register", p, TRUE)
  /\ UNCHANGED form

RegisterAnswered(m) ==
  /\ m.kind = "register"
  /\ UNCHANGED <<cookie, user, booting>>
  /\ IF Ok(m) THEN Goes("verify", m.of, Received(m)) ELSE Stays(Received(m))

\* VerifyPhonePage: as on the page to sign in, the sixth digit sends the code.
EnterVerifyCode ==
  /\ Spend("code")
  /\ at = "verify" /\ BoxesOpen
  /\ form' = [form EXCEPT !.busy = TRUE, !.code = "full"]
  /\ \E good \in BOOLEAN : Submits("verify", form.phone, good)

VerifyAnswered(m) ==
  /\ m.kind = "verify"
  /\ UNCHANGED <<booting, at>>
  /\ net' = Received(m)
  /\ cookie' = IF Ok(m) THEN m.answer.data ELSE cookie
  /\ user' = IF Ok(m) THEN m.answer.data.phone ELSE user
  /\ form' = IF ~m.here THEN form
             ELSE IF Ok(m) THEN [form EXCEPT !.busy = FALSE, !.done = TRUE] ELSE Refilled

\* The page that says so is left after a moment.
EnterApplication ==
  /\ at = "verify" /\ form.done
  /\ UNCHANGED <<account, sms, cookie, user, booting, left>>
  /\ Goes("home", None, net)

\* ForgotPasswordPage, VerifyResetOtpPage and ResetPasswordPage: the code is
\* taken along, and checked with the new password.
SubmitForgot(p) ==
  /\ Spend("reset")
  /\ at = "forgot" /\ ~form.busy
  /\ form' = [form EXCEPT !.busy = TRUE]
  /\ Submits("forgot", p, TRUE)

ForgotAnswered(m) ==
  /\ m.kind = "forgot"
  /\ UNCHANGED <<cookie, user, booting>>
  /\ IF Ok(m) THEN Goes("verifyReset", m.of, Received(m))
     ELSE /\ form' = IF m.here THEN Refilled ELSE form
          /\ net' = Received(m)
          /\ UNCHANGED at

EnterResetCode ==
  /\ at = "verifyReset"
  /\ UNCHANGED <<account, sms, cookie, user, booting, left>>
  /\ Goes("reset", form.phone, net)

SubmitReset ==
  /\ Spend("reset")
  /\ at = "reset" /\ ~form.busy
  /\ form' = [form EXCEPT !.busy = TRUE]
  /\ \E good \in BOOLEAN : Submits("reset", form.phone, good)

ResetAnswered(m) ==
  /\ m.kind = "reset"
  /\ UNCHANGED <<cookie, user, booting>>
  /\ IF Ok(m) THEN Goes("login", None, Received(m))
     ELSE /\ form' = IF m.here THEN Refilled ELSE form
          /\ net' = Received(m)
          /\ UNCHANGED at

\* The links between the pages.
Links == [login |-> {"register", "forgot"}, register |-> {"login"}, verify |-> {"register"},
          forgot |-> {"login"}, verifyReset |-> {}, reset |-> {"login"},
          home |-> {"profile"}, profile |-> {"home"}]

InShell == at \in ShellPages /\ ~booting

Walk ==
  /\ Spend("walk")
  /\ at \in ShellPages => InShell
  /\ ~form.done
  /\ UNCHANGED <<account, sms, cookie, user, booting>>
  /\ \E page \in Links[at] : Goes(page, None, net)

-----------------------------------------------------------------------------
(* Signing out, and the profile                                            *)

\* The menu does not wait for the answer, the profile does.
MenuLogout ==
  /\ Spend("logout")
  /\ InShell
  /\ UNCHANGED <<account, sms, cookie, user, booting>>
  /\ Goes("login", None, With(net, "logout", None, TRUE))

ProfileLogout ==
  /\ Spend("logout")
  /\ InShell /\ at = "profile"
  /\ UNCHANGED form
  /\ Submits("logout", None, TRUE)

SaveEmail ==
  /\ Spend("profile")
  /\ InShell /\ at = "profile"
  /\ UNCHANGED form
  /\ Submits("email", None, TRUE)

ChangePassword ==
  /\ Spend("profile")
  /\ InShell /\ at = "profile" /\ ~form.busy
  /\ form' = [form EXCEPT !.busy = TRUE]
  /\ \E good \in BOOLEAN : Submits("newPassword", None, good)

ProfileAnswered(m) ==
  /\ m.kind \in {"email", "newPassword"}
  /\ form' = IF m.here /\ m.kind = "newPassword" THEN Refilled ELSE form
  /\ net' = AfterAnswer(m)
  /\ UNCHANGED <<cookie, user, booting, at>>

DeliversSession(m) ==
  \/ BootAnswered(m) \/ LogoutAnswered(m) \/ LoginAnswered(m) \/ MeAnswered(m)
  \/ SendAnswered(m) \/ LoginCodeAnswered(m) \/ RegisterAnswered(m) \/ VerifyAnswered(m)
  \/ ForgotAnswered(m) \/ ResetAnswered(m) \/ ProfileAnswered(m)

UserOfSession ==
  \/ \E p \in Phones : \/ SubmitPassword(p) \/ SendCode(p) \/ EnterLoginCode(p)
                       \/ SubmitRegister(p) \/ SubmitForgot(p)
  \/ SwitchMode \/ EnterVerifyCode \/ EnterResetCode \/ SubmitReset \/ Walk
  \/ MenuLogout \/ ProfileLogout \/ SaveEmail \/ ChangePassword

=============================================================================
