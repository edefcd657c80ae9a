------------------------------ MODULE ItemTree ------------------------------
(***************************************************************************)
(* The tree of knowledge items of one base and the operations that walk it *)
(* (backend/app/services/knowledge_item_service.py): the subtree of a set  *)
(* of items, and the status of a container, which is derived from its      *)
(* children.                                                               *)
(*                                                                         *)
(* A tree is a function `item' from ids to rows, of which kind and group   *)
(* matter here, and a function `st' from ids to statuses.  An id whose     *)
(* status is "absent" has no row, or none any more: another row may still  *)
(* name it as its group.                                                   *)
(***************************************************************************)
EXTENDS Naturals, Sequences, FiniteSets

CONSTANT MaxItems   \* bound: rows of knowledge_items ever created

ASSUME MaxItemsAssumption == MaxItems \in Nat \ {0}

Items  == 1 .. MaxItems
NoItem == 0             \* the group of a root item

Leaves == {"file", "note", "url"}
Kinds  == Leaves \cup {"directory"}

\* The statuses of a row; the first four are on their way to another one.
Active   == {"idle", "processing", "preparing", "reading"}
Statuses == Active \cup {"completed", "failed", "deleting", "absent"}

Present(st, i)  == i # NoItem /\ st[i] # "absent"
Children(item, st, c) == {i \in Items : Present(st, i) /\ item[i].group = c}

\* get_subtree_items with include_roots: the rows of roots and all below.  A
\* row is created after its group, so its id is the greater one.
Subtree(item, st, roots) ==
  LET below[i \in Items] ==
        /\ Present(st, i)
        /\ \/ i \in roots
           \/ item[i].group \in Items /\ below[item[i].group]
  IN {i \in Items : below[i]}

\* get_outermostSelectedItem_ids: those that are not below another one.
Outermost(item, st, R) ==
  {r \in R : \A q \in R : r \notin Subtree(item, st, {q}) \ {q}}

-----------------------------------------------------------------------------
(* The status of containers                                                *)

\* Mutant of Verdict: children that failed do not count.
VerdictWithoutFailures(item, st, c) ==
  IF \E i \in Children(item, st, c) : st[i] \in Active
  THEN "processing" ELSE "completed"

\* The status the children of a container give it.
Verdict(item, st, c) ==
  LET kids == {st[i] : i \in Children(item, st, c)}
  IN IF kids \cap Active # {} THEN "processing"
     ELSE IF "failed" \in kids THEN "failed"
     ELSE "completed"

\* _reconcile_containers takes no notice of what is no container and of a
\* container that is being deleted...
Settled(item, st, c) ==
  ~Present(st, c) \/ item[c].kind # "directory" \/ st[c] = "deleting"

\* ...leaves one that is being prepared as it is, writes the verdict into any
\* other one, and goes on with the group.  This is one round of its loop:
\* `todo' holds the containers to look at, `seen' those it has looked at and
\* never will again.
Walks == [st : [Items -> Statuses], todo : Seq(Items \cup {NoItem}), seen : SUBSET Items]

Look(item) ==
  [w \in Walks |->
     LET c == Head(w.todo)
     IN IF w.todo = <<>> THEN w
        ELSE IF c = NoItem \/ c \in w.seen THEN [w EXCEPT !.todo = Tail(@)]
        ELSE IF Settled(item, w.st, c)
        THEN [w EXCEPT !.todo = Tail(@), !.seen = @ \cup {c}]
        ELSE [st   |-> IF w.st[c] = "preparing" THEN w.st
                       ELSE [w.st EXCEPT ![c] = Verdict(item, w.st, c)],
              todo |-> Append(Tail(w.todo), item[c].group),
              seen |-> w.seen \cup {c}]]

\* A round takes one container from `todo', and puts one there only when it
\* puts another one into `seen': after so many rounds there is none left.
Rounds(starts) == Len(starts) + MaxItems

Reconcile(item, st, starts) ==
  LET walk[n \in 0 .. Rounds(starts)] ==
        IF n = 0 THEN [st |-> st, todo |-> starts, seen |-> {}]
        ELSE Look(item)[walk[n - 1]]
  IN walk[Rounds(starts)].st

\* Mutant of Written: "deleting" does not stick.
WrittenOverDeleting(item, st, i, new) ==
  IF ~Present(st, i) THEN st
  ELSE Reconcile(item, [st EXCEPT ![i] = new], <<i, item[i].group>>)

\* update_status: "deleting" is irreversible; a container that fails keeps
\* its own status, any other one is looked at before its group.
Written(item, st, i, new) ==
  IF ~Present(st, i) \/ (st[i] = "deleting" /\ new # "deleting") THEN st
  ELSE LET starts == IF new = "failed" /\ item[i].kind = "directory"
                     THEN <<item[i].group>>
                     ELSE <<i, item[i].group>>
       IN Reconcile(item, [st EXCEPT ![i] = new], starts)

\* set_subtree_status(..., "deleting").
MarkedDeleting(item, st, roots) ==
  LET doomed == Subtree(item, st, roots)
  IN [i \in Items |-> IF i \in doomed THEN "deleting" ELSE st[i]]

\* delete_items_by_ids; `groups' are the groups of the deleted rows in the
\* order of the SELECT.
Removed(item, st, gone, groups) ==
  Reconcile(item, [i \in Items |-> IF i \in gone THEN "absent" ELSE st[i]], groups)

=============================================================================
