------------------------------- MODULE MCShell -------------------------------
(* Instances of Shell for TLC.                                              *)
EXTENDS Shell, TLC

Only(f) == [d \in Doings |-> IF d \in DOMAIN f THEN f[d] ELSE IF d = "polls" THEN 1 ELSE 0]

Scenario(status, signedIn, page, doings) ==
  [status |-> status, signedIn |-> signedIn, at |-> page, doings |-> Only(doings)]

AllScenarios == {
  Scenario("none", FALSE, "register", "register" :> 2 @@ "code" :> 2 @@ "send" :> 1),
  Scenario("new", FALSE, "login", "password" :> 2 @@ "code" :> 1 @@ "send" :> 1 @@ "walk" :> 1),
  Scenario("verified", FALSE, "login", "password" :> 2 @@ "logout" :> 1 @@ "lost" :> 2),
  Scenario("verified", FALSE, "login", "code" :> 2 @@ "send" :> 2 @@ "walk" :> 2 @@ "expire" :> 1),
  Scenario("verified", FALSE, "forgot", "reset" :> 3 @@ "send" :> 1 @@ "walk" :> 1 @@ "expire" :> 1),
  Scenario("verified", TRUE, "home", "walk" :> 2 @@ "profile" :> 2 @@ "logout" :> 1),
  Scenario("verified", TRUE, "home", "revoke" :> 1 @@ "expire" :> 1 @@ "password" :> 1 @@ "logout" :> 1
                                     @@ "polls" :> 2),
  Scenario("verified", TRUE, "home", "note" :> 2 @@ "open" :> 1 @@ "read" :> 2),
  Scenario("verified", TRUE, "home", "note" :> 1 @@ "open" :> 1 @@ "delete" :> 2 @@ "read" :> 1
                                     @@ "lost" :> 1 @@ "polls" :> 2),
  Scenario("verified", TRUE, "home", "note" :> 2 @@ "open" :> 1 @@ "readAll" :> 1 @@ "clear" :> 2)
}
=============================================================================
