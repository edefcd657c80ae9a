-------------------------- MODULE MCKnowledgeItems --------------------------
(* Instances of KnowledgeItems for TLC: how often each request and each     *)
(* fault happens in a behaviour.                                            *)
EXTENDS KnowledgeItems, TLC

\* Nothing happens, but for the requests and faults that f names.
Only(f) == [r \in Requests |-> IF r \in DOMAIN f THEN f[r] ELSE 0]

\* Items added in any place, so that containers are in containers, beside an
\* import, a reindex, a deletion.
Added    == Only("add" :> 3 @@ "reindex" :> 1 @@ "delete" :> 1)
Deleted  == Only("import" :> 1 @@ "add" :> 2 @@ "delete" :> 1)
Renewed  == Only("import" :> 1 @@ "add" :> 2 @@ "reindex" :> 1)

\* The process ends, or the database refuses a statement.
Both(f)  == "import" :> 1 @@ "add" :> 1 @@ "reindex" :> 1 @@ "delete" :> 1 @@ f
Crashed  == Only(Both("crash" :> 1))
Refused  == Only(Both("fault" :> 1))

\* Routes in threads and process_url_item, beside imports and uploads.
Routes   == Only("upload" :> 2 @@ "import" :> 1 @@ "add" :> 1 @@ "reindex" :> 1
                 @@ "remove" :> 1 @@ "fetch" :> 1)

AllBounds == {Added, Deleted, Renewed, Crashed, Refused, Routes}
=============================================================================
