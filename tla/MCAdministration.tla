-------------------------- MODULE MCAdministration --------------------------
(* Instances of Administration for TLC.                                     *)
EXTENDS Administration, TLC

Only(f) == [d \in Doings |-> IF d \in DOMAIN f THEN f[d] ELSE IF d = "polls" THEN 1 ELSE 0]

\* Services, the two queues, and the patents, by title and number; the
\* pages that were opened and read before.
NoAnalyses == [a \in Analyses |-> [there |-> "new", title |-> "analysis", flow |-> FALSE, solutions |-> {}]]

Scenario(there, chat, videos, has, shown, doings) ==
  [shown |-> shown,
   analyses |-> NoAnalyses,
   providers |-> [p \in Providers |-> IF p \in DOMAIN there THEN there[p] ELSE "absent"],
   queue |-> [c \in Capabilities |->
                LET s == IF c = "chat" THEN chat ELSE videos
                IN [p \in Providers |-> IF \E i \in DOMAIN s : s[i] = p
                                        THEN [rank |-> CHOOSE i \in DOMAIN s : s[i] = p, on |-> TRUE]
                                        ELSE Out]],
   table |-> [p \in Patents |-> IF p \in DOMAIN has
                                THEN [there |-> "there", title |-> has[p][1], number |-> has[p][2]]
                                ELSE NoPatent],
   accounts |-> [u \in Accounts |-> [there |-> TRUE, active |-> TRUE, super |-> u # 2]],
   doings |-> Only(doings)]

Nobody == [p \in {} |-> None]
Chat   == "p1" :> "openai"
Video  == "p1" :> "video"
Both   == "p1" :> "video" @@ "p2" :> "video"

NoPatents == <<>>
Two   == <<<<"lamp", "n1">>, <<"motor", None>>>>
Three == <<<<"lamp", "n1">>, <<"motor", None>>, <<"lamp", None>>>>

\* The first n analyses are there; the last of them has two solutions, the one
\* before it none, the others were never started.
Archived(n, doings) ==
  [Scenario(Nobody, <<>>, <<>>, NoPatents, {}, doings) EXCEPT
     !.analyses = [a \in Analyses |->
                     IF a > n THEN @[a]
                     ELSE [@[a] EXCEPT !.there = "there", !.flow = a > n - 2,
                                       !.solutions = IF a = n THEN {"s1", "s2"} ELSE {}]]]

\* The catalogue and its form; the queues of a user; videos, with a server that is
\* started again and services that change; the desk of the patents, and the search;
\* the accounts, with deeds and dialogs; the archive of a user.
AllScenarios == {
  Scenario(Nobody, <<>>, <<>>, NoPatents, {}, "catalog" :> 2 @@ "form" :> 4),
  Scenario(Chat, <<"p1">>, <<>>, NoPatents, {}, "catalog" :> 2 @@ "provider" :> 2),
  Scenario(Chat, <<>>, <<>>, NoPatents, {"catalog"}, "form" :> 5 @@ "lost" :> 1),
  Scenario(Both, <<"p1">>, <<>>, NoPatents, {}, "sections" :> 1 @@ "service" :> 1 @@ "lost" :> 1),
  Scenario(Both, <<"p1", "p2">>, <<>>, NoPatents, {}, "sections" :> 1 @@ "service" :> 2),
  Scenario(Video, <<>>, <<>>, NoPatents, {"catalog"}, "sections" :> 2 @@ "service" :> 1 @@ "provider" :> 1),
  Scenario(Video, <<>>, <<"p1">>, NoPatents, {}, "video page" :> 1 @@ "video" :> 1 @@ "crash" :> 1 @@ "select" :> 1),
  Scenario(Video, <<>>, <<"p1">>, NoPatents, {}, "video page" :> 2 @@ "video" :> 1 @@ "lost" :> 1),
  Scenario(Video, <<>>, <<"p1">>, NoPatents, {"video page"}, "video" :> 1 @@ "polls" :> 2),
  Scenario(Both, <<>>, <<"p1", "p2">>, NoPatents, {"catalog", "video page"}, "video" :> 1 @@ "provider" :> 1),
  Scenario(Video, <<>>, <<"p1">>, NoPatents, {"catalog", "video page"}, "video" :> 1 @@ "form" :> 3),
  Scenario(Nobody, <<>>, <<>>, Two, {}, "desk" :> 1 @@ "patentForm" :> 3 @@ "upload" :> 1),
  Scenario(Nobody, <<>>, <<>>, Three, {"desk"}, "patent" :> 3 @@ "lost" :> 1),
  Scenario(Nobody, <<>>, <<>>, NoPatents, {"desk"}, "desk" :> 2 @@ "upload" :> 2 @@ "crash" :> 1),
  Scenario(Nobody, <<>>, <<>>, Three, {}, "view" :> 2 @@ "search" :> 3 @@ "select" :> 1 @@ "lost" :> 1),
  Scenario(Nobody, <<>>, <<>>, Three, {"desk"}, "view" :> 1 @@ "search" :> 1 @@ "patent" :> 2),
  Scenario(Nobody, <<>>, <<>>, Two, {"desk"}, "patent" :> 2 @@ "patentForm" :> 2),
  Scenario(Nobody, <<>>, <<>>, NoPatents, {}, "people" :> 2 @@ "deed" :> 3 @@ "lost" :> 1),
  Scenario(Nobody, <<>>, <<>>, NoPatents, {"people"}, "choose" :> 2 @@ "deed" :> 2),
  Scenario(Nobody, <<>>, <<>>, NoPatents, {"people"}, "choose" :> 1 @@ "dialog" :> 2 @@ "deed" :> 2),
  Scenario(Nobody, <<>>, <<>>, NoPatents, {"people"}, "dialog" :> 4 @@ "lost" :> 1),
  Archived(4, "archive" :> 1 @@ "analysis" :> 2 @@ "analysis made" :> 1),
  Archived(3, "archive" :> 2 @@ "analysis" :> 1 @@ "analysis made" :> 1 @@ "lost" :> 1),
  Archived(1, "archive" :> 1 @@ "analysis opened" :> 1 @@ "lost" :> 1),
  Archived(2, "archive" :> 2 @@ "analysis" :> 1 @@ "analysis opened" :> 1)
}

\* For a counterexample: two services in the order of their ranks, and one change.
OneOrder == {Scenario(Both, <<"p1", "p2">>, <<>>, NoPatents, {}, "sections" :> 1 @@ "service" :> 1)}
=============================================================================
