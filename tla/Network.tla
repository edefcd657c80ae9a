------------------------------ MODULE Network ------------------------------
(***************************************************************************)
(* What the pages of the administrator and of the user share: requests     *)
(* that are sent, served and answered, in any order, and a budget of what  *)
(* the users, the network and the server still do (api/client.ts).         *)
(***************************************************************************)
EXTENDS Naturals, FiniteSets

CONSTANTS
  None,      \* nobody, nothing
  Doings,    \* kinds of steps that are limited
  Scenarios  \* what there is at first, and how often each of these steps is done

ASSUME NetworkAssumption == \A s \in Scenarios : s.doings \in [Doings -> Nat]

VARIABLES
  net,   \* requests and answers under way
  left   \* what is left of the budget

Spend(d) == left[d] > 0 /\ left' = [left EXCEPT ![d] = @ - 1]

Waiting       == [status |-> "waiting"]
Success(data) == [status |-> "ok", data |-> data]
Refused       == [status |-> "refused"]

Answered(m) == m.answer.status \in {"ok", "refused"}
Ok(m)       == m.answer.status = "ok"

\* by is the part of a page that sent the request, what is asked and with what;
\* here is FALSE once that part of the page is gone; n tells like ones apart.
Request(by, kind, of, with, others) ==
  [by |-> by, kind |-> kind, of |-> of, with |-> with, here |-> TRUE, answer |-> Waiting,
   n |-> CHOOSE k \in 0 .. Cardinality(others) :
           \A m \in others : m.by = by /\ m.kind = kind => m.n # k]

And(others, by, kind, of, with) == others \cup {Request(by, kind, of, with, others)}

\* The parts of a page that are gone no longer take answers.
Without(by, msgs) == {[m EXCEPT !.here = @ /\ m.by \notin by] : m \in msgs}

Done(m, answer) == net' = (net \ {m}) \cup {[m EXCEPT !.answer = answer]}

\* A request that is not served yet, or the answer of one, gets lost.
Lose(m) ==
  /\ Spend("lost")
  /\ m.answer = Waiting \/ Ok(m)
  /\ Done(m, Refused)
=============================================================================
