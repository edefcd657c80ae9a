--------------------------- MODULE MCKnowledgePage ---------------------------
(* Instances of KnowledgePage for TLC.                                      *)
EXTENDS KnowledgePage, TLC

Only(f) == [d \in Doings |-> IF d \in DOMAIN f THEN f[d] ELSE IF d = "polls" THEN 1 ELSE 0]

Item(b, t, s) == [status |-> s, base |-> b, type |-> t, job |-> s = "active"]

Scenario(stored, there, has, at, tab, doings) ==
  [tab |-> tab, visited |-> at, storage |-> stored, bases |-> [b \in Bases |-> IF b \in DOMAIN there THEN there[b] ELSE "absent"],
   items |-> [i \in Items |-> IF i \in DOMAIN has THEN has[i] ELSE NoItem], doings |-> Only(doings)]

Nowhere == [b \in {} |-> None]
One  == "b1" :> None
Two  == "b1" :> None @@ "b2" :> None
Held == "b1" :> None @@ "b2" :> "g1"

Nothing == [i \in {} |-> NoItem]
File1(s) == "i1" :> Item("b1", "file", s)

\* The navigator, where bases and groups come, go and move, and the page is
\* left; two bases, their lists and tabs; rows; notes, addresses and files,
\* with and without a storage; the recall test.
AllScenarios == {
  Scenario(FALSE, Nowhere, Nothing, {}, "file", "manage" :> 2),
  Scenario(FALSE, One, File1("active"), {}, "file", "walk" :> 1),
  Scenario(FALSE, Held, File1("active"), {}, "file", "select" :> 1),
  Scenario(FALSE, One, Nothing, {"b1"}, "file", "manage" :> 3),
  Scenario(FALSE, "b2" :> "g1", Nothing, {}, "file", "manage" :> 3),
  Scenario(FALSE, Held, File1("completed"), {"b1"}, "file", "manage" :> 2 @@ "select" :> 1),
  Scenario(FALSE, Held, File1("active"), {"b2"}, "file", "manage" :> 2 @@ "lost" :> 1),
  Scenario(FALSE, Two, File1("active") @@ "i2" :> Item("b2", "file", "active"), {"b1"}, "file", "select" :> 2),
  Scenario(FALSE, One, File1("active") @@ "i2" :> Item("b1", "note", "active"), {"b1"}, "file", "tab" :> 1 @@ "lost" :> 1),
  Scenario(FALSE, Two, File1("completed"), {"b1"}, "file", "row" :> 2 @@ "select" :> 1),
  Scenario(FALSE, One, File1("failed"), {"b1"}, "file", "row" :> 1 @@ "lost" :> 1 @@ "tab" :> 1),
  Scenario(FALSE, One, Nothing, {"b1"}, "url", "add" :> 2 @@ "lost" :> 1),
  Scenario(FALSE, One, Nothing, {"b1"}, "note", "add" :> 4),
  Scenario(FALSE, One, Nothing, {"b1"}, "url", "add" :> 3),
  Scenario(FALSE, One, Nothing, {"b1"}, "note", "add" :> 1 @@ "manage" :> 2),
  Scenario(FALSE, One, Nothing, {"b1"}, "file", "upload" :> 1 @@ "tab" :> 1),
  Scenario(FALSE, One, Nothing, {"b1"}, "file", "upload" :> 1 @@ "lost" :> 1),
  Scenario(TRUE, Two, Nothing, {"b1"}, "file", "upload" :> 1 @@ "select" :> 1),
  Scenario(FALSE, Two, Nothing, {"b1"}, "file", "search" :> 3 @@ "select" :> 1 @@ "walk" :> 1)
}

\* For a counterexample: one file, with a storage.
OneUpload == {Scenario(TRUE, One, Nothing, {"b1"}, "file", "upload" :> 1)}
=============================================================================
