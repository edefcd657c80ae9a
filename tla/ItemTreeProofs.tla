--------------------------- MODULE ItemTreeProofs ---------------------------
(***************************************************************************)
(* What the operators of ItemTree compute, for a tree of any size.  Both   *)
(* are defined by recursion over data, and the induction they need is that *)
(* every set of numbers has a least element: the rows of a subtree by      *)
(* induction over ids (a row lies in an older one), the rounds of          *)
(* _reconcile_containers by induction over their number.                   *)
(***************************************************************************)
EXTENDS ItemTree, FiniteSetTheorems, WellFoundedInduction, TLAPS

\* Every nonempty set of numbers has a least element: a counterexample to what
\* is to be shown may be taken to be the first one.
LEMMA Least ==
  ASSUME NEW S \in SUBSET Nat, S # {}
  PROVE  \E n \in S : \A m \in S : n <= m
  <1> DEFINE R == OpToRel(<, Nat)
  <1>1. IsWellFoundedOn(R, Nat)
    BY NatLessThanWellFounded, Zenon
  <1>2. \A x, y \in Nat : <<x, y>> \in R <=> x < y
    BY DEF OpToRel
  <1> HIDE DEF R
  <1>3. PICK x \in S : \A y \in S : <<y, x>> \notin R
    BY <1>1, WFMin, Zenon
  <1>4. ASSUME NEW y \in S PROVE x <= y
    <2>1. x \in Nat /\ y \in Nat
      OBVIOUS
    <2>2. ~(y < x)
      BY <2>1, <1>2, <1>3
    <2> QED
      BY <2>1, <2>2
  <1> QED
    BY <1>4

-----------------------------------------------------------------------------
(* Subtrees                                                                *)

\* i lies in the subtree of roots if S is it: it is there, and it is one of the
\* roots or its group lies in S.
Belongs(it, st, roots, S, i) ==
  Present(st, i) /\ (i \in roots \/ (it[i].group \in Items /\ it[i].group \in S))

\* The rows of a base: each lies in none or in an older one.
Forest(it) == \A i \in Items : it[i].group \in Items \cup {NoItem} /\ it[i].group < i

\* The recursive definition of a subtree has a value, whatever the groups are:
\* the least set that holds what belongs to it.
LEMMA SubtreeFix ==
  ASSUME NEW it, NEW st, NEW roots
  PROVE  \A i \in Items : i \in Subtree(it, st, roots)
                            <=> Belongs(it, st, roots, Subtree(it, st, roots), i)
  <1> DEFINE Closed(S) == \A i \in Items : Belongs(it, st, roots, S, i) => i \in S
             L == {i \in Items : \A S \in SUBSET Items : Closed(S) => i \in S}
             Body(f) == [i \in Items |-> /\ Present(st, i)
                                         /\ \/ i \in roots
                                            \/ it[i].group \in Items /\ f[it[i].group]]
             good == [i \in Items |-> i \in L]
             below == CHOOSE f : f = Body(f)
  <1>1. Closed(L)
    BY DEF Belongs
  <1>2. ASSUME NEW i \in L
        PROVE  Belongs(it, st, roots, L, i)
    <2> DEFINE M == {j \in L : Belongs(it, st, roots, L, j)}
    <2>1. Closed(M)
      BY <1>1 DEF Belongs
    <2> QED
      BY <2>1
  <1>3. \A i \in Items : i \in L <=> Belongs(it, st, roots, L, i)
    BY <1>1, <1>2
  <1> HIDE DEF L
  <1>4. good = Body(good)
    <2> DEFINE C(i) == /\ Present(st, i)
                       /\ \/ i \in roots
                          \/ it[i].group \in Items /\ good[it[i].group]
    <2>1. \A i \in Items : good[i] <=> i \in L
      OBVIOUS
    <2>2. good = [i \in Items |-> i \in L]
      OBVIOUS
    <2>3. Body(good) = [i \in Items |-> C(i)]
      OBVIOUS
    <2> HIDE DEF good, Body
    <2>4. ASSUME NEW i \in Items
          PROVE  /\ i \in L <=> C(i)
                 /\ C(i) \in BOOLEAN
      <3>1. i \in L <=> Belongs(it, st, roots, L, i)
        BY <1>3
      <3>2. it[i].group \in Items => (good[it[i].group] <=> it[i].group \in L)
        BY <2>1
      <3>3. C(i) \in BOOLEAN
        BY Zenon
      <3> QED
        BY <3>1, <3>2, <3>3 DEF Belongs
    <2> HIDE DEF C
    <2>5. ASSUME NEW i \in Items
          PROVE  (i \in L) = C(i)
      <3>1. CASE i \in L
        BY <2>4, <3>1
      <3>2. CASE i \notin L
        <4>1. C(i) = FALSE
          BY <2>4, <3>2
        <4>2. (i \in L) = FALSE
          BY <3>2
        <4> QED
          BY <4>1, <4>2
      <3> QED
        BY <3>1, <3>2
    <2>6. [i \in Items |-> i \in L] = [i \in Items |-> C(i)]
      BY <2>5
    <2> QED
      BY <2>2, <2>3, <2>6, Zenon
  <1>5. below = Body(below)
    <2> HIDE DEF good, Body
    <2> QED
      BY <1>4
  <1>6. Subtree(it, st, roots) = {i \in Items : below[i]}
    BY DEF Subtree
  <1> HIDE DEF below
  <1>7. \A i \in Items : below[i] <=> Belongs(it, st, roots, {j \in Items : below[j]}, i)
    BY <1>5 DEF Belongs
  <1> QED
    BY <1>6, <1>7

\* A subtree holds rows, the roots among them and what lies in it, as a set.
LEMMA SubtreeHolds ==
  ASSUME NEW it, NEW st, NEW roots
  PROVE  /\ Subtree(it, st, roots) \subseteq Items
         /\ \A i \in Subtree(it, st, roots) : Present(st, i)
         /\ \A i \in Items : i \in roots /\ Present(st, i) => i \in Subtree(it, st, roots)
         /\ \A i \in Items : /\ Present(st, i)
                             /\ it[i].group \in Subtree(it, st, roots)
                             => i \in Subtree(it, st, roots)
  <1>1. Subtree(it, st, roots) \subseteq Items
    BY DEF Subtree
  <1> QED
    BY <1>1, SubtreeFix DEF Belongs

\* In a forest it is the only such set: whatever is closed holds all of it.
LEMMA SubtreeIsLeast ==
  ASSUME NEW it, NEW st, NEW roots, NEW S,
         Forest(it),
         \A i \in Items : Belongs(it, st, roots, S, i) => i \in S
  PROVE  Subtree(it, st, roots) \subseteq S
  <1> DEFINE T == Subtree(it, st, roots)
             W == T \ S
  <1>1. T \subseteq Items /\ Items \subseteq Nat
    BY SubtreeHolds DEF Items
  <1>2. \A i \in Items : i \in T <=> Belongs(it, st, roots, T, i)
    BY SubtreeFix
  <1> HIDE DEF T
  <1>3. SUFFICES ASSUME W # {} PROVE FALSE
    BY DEF T
  <1>4. PICK n \in W : \A m \in W : n <= m
    BY <1>1, <1>3, Least
  <1>5. /\ Present(st, n)
        /\ n \in roots \/ (it[n].group \in Items /\ it[n].group \in T)
    BY <1>1, <1>2 DEF Belongs
  <1>6. n \notin roots /\ it[n].group \notin S
    BY <1>1, <1>5 DEF Belongs
  <1>7. it[n].group \in W
    BY <1>5, <1>6
  <1>8. it[n].group < n /\ n <= it[n].group
    BY <1>1, <1>4, <1>7 DEF Forest
  <1>9. it[n].group \in Nat /\ n \in Nat
    BY <1>1, <1>7
  <1> QED
    BY <1>8, <1>9

\* What two trees have in common: if rows of the first one are rows of the
\* second one and lie in the same group, so are subtrees.
LEMMA SubtreeGrows ==
  ASSUME NEW it, NEW st, NEW it2, NEW st2, NEW roots,
         Forest(it),
         \A i \in Items : Present(st, i) => Present(st2, i) /\ it2[i].group = it[i].group
  PROVE  Subtree(it, st, roots) \subseteq Subtree(it2, st2, roots)
  <1>1. \A i \in Items : Belongs(it2, st2, roots, Subtree(it2, st2, roots), i)
                            => i \in Subtree(it2, st2, roots)
    BY SubtreeFix
  <1>2. \A i \in Items : Belongs(it, st, roots, Subtree(it2, st2, roots), i)
                            => i \in Subtree(it2, st2, roots)
    BY <1>1 DEF Belongs
  <1> QED
    BY <1>2, SubtreeIsLeast

\* A subtree of what lies in a subtree is part of it.
LEMMA SubtreeWithin ==
  ASSUME NEW it, NEW st, NEW outer, NEW inner,
         Forest(it),
         \A i \in Items : i \in inner /\ Present(st, i) => i \in Subtree(it, st, outer)
  PROVE  Subtree(it, st, inner) \subseteq Subtree(it, st, outer)
  <1>1. \A i \in Items : Belongs(it, st, inner, Subtree(it, st, outer), i)
                            => i \in Subtree(it, st, outer)
    BY SubtreeHolds DEF Belongs
  <1> QED
    BY <1>1, SubtreeIsLeast

\* What stays of a subtree when whole subtrees are gone.
LEMMA SubtreeStays ==
  ASSUME NEW it, NEW st, NEW it2, NEW st2, NEW roots, NEW gone,
         Forest(it),
         \A i \in Items : Present(st, i) /\ it[i].group \in gone => i \in gone,
         \A i \in Items : Present(st, i) /\ i \notin gone =>
                            Present(st2, i) /\ it2[i].group = it[i].group
  PROVE  Subtree(it, st, roots) \ gone \subseteq Subtree(it2, st2, roots)
  <1> DEFINE T == Subtree(it2, st2, roots)
  <1>1. \A i \in Items : i \in T <=> Belongs(it2, st2, roots, T, i)
    BY SubtreeFix
  <1> HIDE DEF T
  <1>2. \A i \in Items : Belongs(it, st, roots, gone \cup T, i) => i \in gone \cup T
    BY <1>1 DEF Belongs
  <1>3. Subtree(it, st, roots) \subseteq gone \cup T
    BY <1>2, SubtreeIsLeast
  <1> QED
    BY <1>3 DEF T

\* Nothing in the subtree of an item is older than the item.
LEMMA SubtreeIsYounger ==
  ASSUME NEW it, NEW st, NEW r \in Items,
         Forest(it)
  PROVE  \A i \in Subtree(it, st, {r}) : i >= r
  <1> DEFINE S == {i \in Items : i >= r}
  <1>1. Items \subseteq Nat
    BY DEF Items
  <1>2. \A i \in Items : Belongs(it, st, {r}, S, i) => i \in S
    BY <1>1 DEF Belongs, Forest
  <1>3. Subtree(it, st, {r}) \subseteq S
    BY <1>2, SubtreeIsLeast
  <1> QED
    BY <1>3

\* What is below an item is closed: the item is not below itself.
LEMMA BelowIsClosed ==
  ASSUME NEW it, NEW st, NEW r \in Items,
         Forest(it)
  PROVE  \A i \in Items : /\ Present(st, i)
                           /\ it[i].group \in Subtree(it, st, {r}) \ {r}
                           => i \in Subtree(it, st, {r}) \ {r}
  <1> SUFFICES ASSUME NEW i \in Items,
                      Present(st, i),
                      it[i].group \in Subtree(it, st, {r}) \ {r}
               PROVE  i \in Subtree(it, st, {r}) \ {r}
    OBVIOUS
  <1>1. i \in Subtree(it, st, {r})
    BY SubtreeHolds
  <1>2. it[i].group >= r /\ it[i].group < i /\ it[i].group \in Items
    BY SubtreeIsYounger, SubtreeHolds DEF Forest
  <1>3. i # r
    BY <1>2 DEF Items
  <1> QED
    BY <1>1, <1>3

\* An item that nothing lies in is its own subtree.
LEMMA LeafSubtree ==
  ASSUME NEW it, NEW st, NEW r \in Items,
         Forest(it),
         Children(it, st, r) = {}
  PROVE  Subtree(it, st, {r}) \subseteq {r}
  <1>1. \A i \in Items : Belongs(it, st, {r}, {r}, i) => i \in {r}
    BY DEF Belongs, Children
  <1> QED
    BY <1>1, SubtreeIsLeast

-----------------------------------------------------------------------------
(* Rounds                                                                  *)

\* There are N rounds from s, all in V, of which G gives the n-th one from n and
\* the one before.
HasRounds(N, s, G, V) ==
  \E f \in [0 .. N -> V] : f[0] = s /\ \A n \in 1 .. N : f[n] = G[<<n, f[n - 1]>>]

\* G can be applied N times if it never leads out of V.
LEMMA RoundsExist ==
  ASSUME NEW N \in Nat, NEW s, NEW G, NEW V,
         s \in V,
         \A n \in 1 .. N : \A w \in V : G[<<n, w>>] \in V
  PROVE  HasRounds(N, s, G, V)
  <1> DEFINE Runs(m, f) == f[0] = s /\ \A n \in 1 .. m : f[n] = G[<<n, f[n - 1]>>]
             None == {m \in 0 .. N : ~\E f \in [0 .. m -> V] : Runs(m, f)}
  <1>1. SUFFICES ASSUME None # {} PROVE FALSE
    BY DEF HasRounds
  <1>2. None \in SUBSET Nat
    OBVIOUS
  <1>3. PICK m \in None : \A k \in None : m <= k
    BY <1>1, <1>2, Least
  <1>4. m # 0
    <2> DEFINE f == [n \in 0 .. 0 |-> s]
    <2>1. f \in [0 .. 0 -> V] /\ Runs(0, f)
      OBVIOUS
    <2> QED
      BY <2>1
  <1>5. m - 1 \in 0 .. N /\ m - 1 \notin None
    <2> HIDE DEF Runs
    <2>1. m \in 0 .. N /\ m - 1 \in 0 .. N /\ ~(m <= m - 1)
      BY <1>4
    <2> QED
      BY <1>3, <2>1
  <1>6. PICK f \in [0 .. m - 1 -> V] : Runs(m - 1, f)
    BY <1>5
  <1> DEFINE g == [n \in 0 .. m |-> IF n = m THEN G[<<m, f[m - 1]>>] ELSE f[n]]
  <1>7. g \in [0 .. m -> V]
    <2>1. m \in 1 .. N /\ f[m - 1] \in V
      BY <1>4
    <2>2. G[<<m, f[m - 1]>>] \in V
      BY <2>1
    <2> QED
      BY <2>1, <2>2
  <1>8. g[0] = s
    BY <1>4, <1>6
  <1>9. ASSUME NEW n \in 1 .. m
        PROVE  g[n] = G[<<n, g[n - 1]>>]
    <2>1. n - 1 \in 0 .. m - 1 /\ g[n - 1] = f[n - 1]
      OBVIOUS
    <2>2. CASE n = m
      BY <2>1, <2>2
    <2>3. CASE n # m
      <3>1. n \in 1 .. m - 1 /\ g[n] = f[n]
        BY <2>3
      <3> HIDE DEF g
      <3> QED
        BY <1>6, <2>1, <3>1
    <2> QED
      BY <2>2, <2>3
  <1> HIDE DEF g
  <1> QED
    BY <1>7, <1>8, <1>9

\* What holds at first and is carried from one round to the next holds in all.
LEMMA RoundsPreserve ==
  ASSUME NEW N \in Nat, NEW f, NEW Good,
         f[0] \in Good[0],
         \A n \in 1 .. N : f[n - 1] \in Good[n - 1] => f[n] \in Good[n]
  PROVE  \A n \in 0 .. N : f[n] \in Good[n]
  <1> DEFINE Bad == {n \in 0 .. N : f[n] \notin Good[n]}
  <1>1. SUFFICES ASSUME Bad # {} PROVE FALSE
    OBVIOUS
  <1>2. Bad \in SUBSET Nat
    OBVIOUS
  <1>3. PICK n \in Bad : \A k \in Bad : n <= k
    BY <1>1, <1>2, Least
  <1>4. n # 0
    OBVIOUS
  <1>5. n - 1 \in 0 .. N /\ n - 1 \notin Bad
    <2> HIDE DEF Bad
    <2>1. n \in 0 .. N
      BY DEF Bad
    <2>2. n - 1 \in 0 .. N /\ ~(n <= n - 1)
      BY <1>4, <2>1
    <2> QED
      BY <1>3, <2>2
  <1>6. n \in 1 .. N
    BY <1>4
  <1> QED
    BY <1>5, <1>6

\* The statuses that telling the containers about their children may lead to:
\* those of containers that are there and neither prepared nor deleted.
Retold(it, st, st2) ==
  /\ st2 \in [Items -> Statuses]
  /\ \A i \in Items :
       \/ st2[i] = st[i]
       \/ /\ it[i].kind = "directory"
          /\ st[i] \notin {"absent", "deleting", "preparing"}
          /\ st2[i] \in {"processing", "failed", "completed"}

\* A round of _reconcile_containers leads to another one.
LEMMA LookRetells ==
  ASSUME NEW it, NEW st, NEW w \in Walks,
         Forest(it), Retold(it, st, w.st)
  PROVE  Look(it)[w] \in Walks /\ Retold(it, st, Look(it)[w].st)
  <1> DEFINE c == Head(w.todo)
             new == [w.st EXCEPT ![c] = Verdict(it, w.st, c)]
  <1>1. CASE w.todo = <<>> \/ c = NoItem \/ c \in w.seen \/ Settled(it, w.st, c)
    <2>1. w.todo # <<>> => c \in Items \cup {NoItem} /\ Tail(w.todo) \in Seq(Items \cup {NoItem})
      BY DEF Walks
    <2> DEFINE passed == [w EXCEPT !.todo = Tail(@)]
               noted  == [w EXCEPT !.todo = Tail(@), !.seen = @ \cup {c}]
    <2>2. w.todo # <<>> => passed \in Walks /\ passed.st = w.st
      BY <2>1 DEF Walks
    <2>3. w.todo # <<>> /\ c \in Items => noted \in Walks /\ noted.st = w.st
      BY <2>1 DEF Walks
    <2>4. \/ Look(it)[w] = w
          \/ w.todo # <<>> /\ Look(it)[w] = passed
          \/ w.todo # <<>> /\ c \in Items /\ Look(it)[w] = noted
      BY <1>1, <2>1 DEF Look
    <2> HIDE DEF c, passed, noted
    <2> QED
      BY <2>2, <2>3, <2>4
  <1>2. CASE ~(w.todo = <<>> \/ c = NoItem \/ c \in w.seen \/ Settled(it, w.st, c))
    <2>1. c \in Items /\ Tail(w.todo) \in Seq(Items \cup {NoItem})
      BY <1>2 DEF Walks
    <2>2. it[c].group \in Items \cup {NoItem}
      BY <2>1 DEF Forest
    <2>3. Verdict(it, w.st, c) \in {"processing", "failed", "completed"}
      BY DEF Verdict
    <2>4. it[c].kind = "directory" /\ w.st[c] \notin {"absent", "deleting"}
      BY <1>2, <2>1 DEF Settled, Present
    <2>5. Look(it)[w] =
            [st   |-> IF w.st[c] = "preparing" THEN w.st ELSE new,
             todo |-> Append(Tail(w.todo), it[c].group),
             seen |-> w.seen \cup {c}]
      BY <1>2 DEF Look
    <2>6. new \in [Items -> Statuses]
      BY <2>1, <2>3 DEF Walks, Statuses, Active
    <2>7. w.st[c] # "preparing" => Retold(it, st, new)
      BY <2>1, <2>3, <2>4, <2>6 DEF Retold
    <2> HIDE DEF new, c
    <2>8. Look(it)[w] \in Walks
      BY <2>1, <2>2, <2>5, <2>6 DEF Walks
    <2>9. Retold(it, st, Look(it)[w].st)
      BY <2>5, <2>7
    <2> QED
      BY <2>8, <2>9
  <1> QED
    BY <1>1, <1>2

\* The rounds of Reconcile are there, each comes from the one before, and
\* Reconcile is what the last one has come to.
LEMMA ReconcileRounds ==
  ASSUME NEW it, NEW st \in [Items -> Statuses],
         NEW starts \in Seq(Items \cup {NoItem}),
         Forest(it)
  PROVE  /\ Rounds(starts) \in Nat
         /\ \E f : /\ f[0] = [st |-> st, todo |-> starts, seen |-> {}]
                   /\ f[0] \in Walks
                   /\ \A n \in 1 .. Rounds(starts) : f[n] = Look(it)[f[n - 1]]
                   /\ Reconcile(it, st, starts) = f[Rounds(starts)].st
  <1> DEFINE Good == {w \in Walks : Retold(it, st, w.st)}
             N == Rounds(starts)
             s == [st |-> st, todo |-> starts, seen |-> {}]
             Body(f) == [n \in 0 .. N |-> IF n = 0 THEN s ELSE Look(it)[f[n - 1]]]
             walk == CHOOSE f : f = Body(f)
             G == [p \in (1 .. N) \X Good |-> Look(it)[p[2]]]
  <1>1. N \in Nat
    BY MaxItemsAssumption DEF Rounds
  <1>2. s \in Good
    BY DEF Walks, Retold
  <1>3. ASSUME NEW n \in 1 .. N, NEW w \in Good
        PROVE  /\ G[<<n, w>>] = Look(it)[w]
               /\ G[<<n, w>>] \in Good
    <2>1. Look(it)[w] \in Good
      BY LookRetells
    <2> HIDE DEF Good
    <2>2. <<n, w>> \in (1 .. N) \X Good
      OBVIOUS
    <2>3. G[<<n, w>>] = Look(it)[w]
      BY <2>2
    <2> QED
      BY <2>1, <2>3
  <1>4. Reconcile(it, st, starts) = walk[N].st
    BY DEF Reconcile
  <1> HIDE DEF Good, s, N
  <1>5. HasRounds(N, s, G, Good)
    <2> HIDE DEF G
    <2> QED
      BY <1>1, <1>2, <1>3, RoundsExist
  <1>6. \E f : f = Body(f)
    <2>1. PICK f \in [0 .. N -> Good] :
                 f[0] = s /\ \A n \in 1 .. N : f[n] = G[<<n, f[n - 1]>>]
      BY <1>5 DEF HasRounds
    <2>2. \A n \in 1 .. N : f[n] = Look(it)[f[n - 1]]
      <3> HIDE DEF G
      <3>1. ASSUME NEW n \in 1 .. N PROVE f[n - 1] \in Good
        BY <1>1
      <3> QED
        BY <1>3, <2>1, <3>1
    <2> DEFINE L == Look(it)
    <2> HIDE DEF L
    <2>3. f = [n \in 0 .. N |-> IF n = 0 THEN s ELSE L[f[n - 1]]]
      BY <1>1, <2>1, <2>2 DEF L
    <2> QED
      BY <2>3 DEF L
  <1>7. walk = Body(walk)
    <2> HIDE DEF Body
    <2> QED
      BY <1>6
  <1> HIDE DEF walk
  <1>8. walk[0] = s /\ \A n \in 1 .. N : walk[n] = Look(it)[walk[n - 1]]
    <2> DEFINE L == Look(it)
    <2> HIDE DEF L
    <2>1. walk = [n \in 0 .. N |-> IF n = 0 THEN s ELSE L[walk[n - 1]]]
      BY <1>7 DEF L
    <2>2. walk[0] = s /\ \A n \in 1 .. N : walk[n] = L[walk[n - 1]]
      BY <1>1, <2>1
    <2> QED
      BY <2>2 DEF L
  <1>9. s \in Walks
    BY <1>2 DEF Good
  <1> QED
    BY <1>1, <1>4, <1>8, <1>9 DEF N, s

\* _reconcile_containers touches no other row, wherever it starts.
LEMMA ReconcileRetells ==
  ASSUME NEW it, NEW st \in [Items -> Statuses],
         NEW starts \in Seq(Items \cup {NoItem}),
         Forest(it)
  PROVE  Retold(it, st, Reconcile(it, st, starts))
  <1> DEFINE N == Rounds(starts)
             Good == [n \in 0 .. N |-> {w \in Walks : Retold(it, st, w.st)}]
  <1>1. N \in Nat
    BY ReconcileRounds
  <1>2. PICK f : /\ f[0] = [st |-> st, todo |-> starts, seen |-> {}]
                 /\ f[0] \in Walks
                 /\ \A n \in 1 .. N : f[n] = Look(it)[f[n - 1]]
                 /\ Reconcile(it, st, starts) = f[N].st
    BY ReconcileRounds, Zenon
  <1>3. f[0] \in Good[0]
    BY <1>1, <1>2 DEF Retold
  <1>4. ASSUME NEW n \in 1 .. N, f[n - 1] \in Good[n - 1]
        PROVE  f[n] \in Good[n]
    <2>1. f[n - 1] \in Walks /\ Retold(it, st, f[n - 1].st)
      BY <1>1, <1>4
    <2>2. Look(it)[f[n - 1]] \in Walks /\ Retold(it, st, Look(it)[f[n - 1]].st)
      BY <2>1, LookRetells
    <2> QED
      BY <1>2, <2>2
  <1>5. f[N] \in Good[N]
    <2> HIDE DEF Good, N
    <2>1. \A n \in 0 .. N : f[n] \in Good[n]
      BY <1>1, <1>3, <1>4, RoundsPreserve
    <2> QED
      BY <1>1, <2>1
  <1> QED
    BY <1>1, <1>2, <1>5

\* update_status: nothing happens to what is gone or being deleted; otherwise
\* the row has the new status before the containers are told.
LEMMA WrittenRetells ==
  ASSUME NEW it, NEW st \in [Items -> Statuses], NEW i \in Items, NEW new \in Statuses,
         Forest(it)
  PROVE  \/ /\ ~Present(st, i) \/ (st[i] = "deleting" /\ new # "deleting")
            /\ Written(it, st, i, new) = st
         \/ /\ Present(st, i)
            /\ st[i] = "deleting" => new = "deleting"
            /\ Retold(it, [st EXCEPT ![i] = new], Written(it, st, i, new))
  <1> DEFINE st1 == [st EXCEPT ![i] = new]
             starts == IF new = "failed" /\ it[i].kind = "directory"
                       THEN <<it[i].group>>
                       ELSE <<i, it[i].group>>
  <1>1. st1 \in [Items -> Statuses]
    OBVIOUS
  <1>2. starts \in Seq(Items \cup {NoItem})
    <2>1. it[i].group \in Items \cup {NoItem}
      BY DEF Forest
    <2>2. <<it[i].group>> \in Seq(Items \cup {NoItem})
      BY <2>1
    <2>3. <<i, it[i].group>> \in Seq(Items \cup {NoItem})
      BY <2>1
    <2> QED
      BY <2>2, <2>3
  <1>3. CASE ~Present(st, i) \/ (st[i] = "deleting" /\ new # "deleting")
    BY <1>3 DEF Written
  <1>4. CASE ~(~Present(st, i) \/ (st[i] = "deleting" /\ new # "deleting"))
    <2>1. Written(it, st, i, new) = Reconcile(it, st1, starts)
      BY <1>4 DEF Written
    <2> HIDE DEF st1, starts
    <2>2. Retold(it, st1, Written(it, st, i, new))
      BY <1>1, <1>2, <2>1, ReconcileRetells
    <2> QED
      BY <1>4, <2>2 DEF st1
  <1> QED
    BY <1>3, <1>4

\* delete_items_by_ids: the rows are gone before the containers are told.
LEMMA RemovedRetells ==
  ASSUME NEW it, NEW st \in [Items -> Statuses], NEW gone,
         NEW groups \in Seq(Items \cup {NoItem}),
         Forest(it)
  PROVE  Retold(it, [i \in Items |-> IF i \in gone THEN "absent" ELSE st[i]],
                Removed(it, st, gone, groups))
  <1>1. [i \in Items |-> IF i \in gone THEN "absent" ELSE st[i]] \in [Items -> Statuses]
    BY DEF Statuses
  <1> QED
    BY <1>1, ReconcileRetells DEF Removed

-----------------------------------------------------------------------------
(* What the containers say                                                 *)

\* A container agrees with its children: one that says completed has none
\* under way or failed, one that says processing waits for one of them.
Tells(it, st, d) ==
  it[d].kind = "directory" =>
    /\ st[d] = "completed" =>
         \A k \in Children(it, st, d) : st[k] \notin Active \cup {"failed"}
    /\ st[d] = "processing" =>
         \E k \in Children(it, st, d) : st[k] \in Active \cup {"deleting"}

AllTell(it, st) == \A d \in Items : Tells(it, st, d)

\* Where a walk may be: it looks at a container and then at its group, or at
\* one of them twice.
Chains(it) ==
  {q \in Seq(Items \cup {NoItem}) :
     /\ Len(q) <= 2
     /\ Len(q) = 2 => q[2] = q[1] \/ (q[1] \in Items /\ q[2] = it[q[1]].group)}

On(q, d) == \E k \in 1 .. Len(q) : q[k] = d

\* The walk goes up: what it has looked at is younger than all it will look at,
\* and what does not agree with its children is still to be looked at.
GoesUp(it, w) ==
  /\ w \in Walks
  /\ w.todo \in Chains(it)
  /\ \A s \in w.seen, d \in Items : On(w.todo, d) /\ d \notin w.seen => d < s
  /\ \A d \in Items : Tells(it, w.st, d) \/ (On(w.todo, d) /\ d \notin w.seen)

\* A status changes what its own row and its group say, and nothing else.
LEMMA OthersTell ==
  ASSUME NEW it, NEW st, NEW st2, NEW c \in Items, NEW d \in Items \ {c},
         Forest(it),
         d # it[c].group,
         \A k \in Items \ {c} : st2[k] = st[k],
         Tells(it, st, d)
  PROVE  Tells(it, st2, d)
  <1>1. Children(it, st2, d) = Children(it, st, d)
    BY DEF Children, Present
  <1>2. \A k \in Children(it, st, d) : st2[k] = st[k]
    BY DEF Children
  <1>3. st2[d] = st[d]
    OBVIOUS
  <1> QED
    BY <1>1, <1>2, <1>3 DEF Tells

\* The verdict agrees with the children.
LEMMA VerdictTells ==
  ASSUME NEW it, NEW st, NEW st2, NEW c \in Items,
         Forest(it),
         \A k \in Items \ {c} : st2[k] = st[k],
         st2[c] = Verdict(it, st, c)
  PROVE  Tells(it, st2, c)
  <1>1. \A k \in Items : it[k].group = c => k # c
    BY DEF Forest, Items
  <1>2. Children(it, st2, c) = Children(it, st, c)
    BY <1>1 DEF Children, Present
  <1>3. \A k \in Children(it, st, c) : st2[k] = st[k]
    BY <1>1 DEF Children
  <1>4. st2[c] = "processing" =>
          \E k \in Children(it, st, c) : st[k] \in Active
    BY DEF Verdict
  <1>5. st2[c] = "completed" =>
          \A k \in Children(it, st, c) : st[k] \notin Active \cup {"failed"}
    BY DEF Verdict
  <1> QED
    BY <1>2, <1>3, <1>4, <1>5 DEF Tells

\* The two ends of a chain.
LEMMA ChainIs ==
  ASSUME NEW it, Forest(it), NEW q \in Chains(it), q # <<>>
  PROVE  /\ Head(q) \in Items \cup {NoItem}
         /\ On(q, Head(q))
         /\ Tail(q) \in Chains(it)
         /\ Len(Tail(q)) = Len(q) - 1
         /\ \A d : On(q, d) <=> d = Head(q) \/ On(Tail(q), d)
         /\ Head(q) \in Items =>
              /\ \A d : On(Tail(q), d) => d = Head(q) \/ d = it[Head(q)].group
              /\ Append(Tail(q), it[Head(q)].group) \in Chains(it)
              /\ Len(Append(Tail(q), it[Head(q)].group)) = Len(q)
              /\ \A d : On(Append(Tail(q), it[Head(q)].group), d)
                          <=> On(Tail(q), d) \/ d = it[Head(q)].group
  <1> DEFINE Ids == Items \cup {NoItem}
  <1>1. /\ q \in Seq(Ids) /\ (Len(q) = 1 \/ Len(q) = 2)
        /\ Len(q) = 2 => q[2] = q[1] \/ (q[1] \in Items /\ q[2] = it[q[1]].group)
    <2>1. /\ q \in Seq(Ids) /\ Len(q) <= 2
          /\ Len(q) = 2 => q[2] = q[1] \/ (q[1] \in Items /\ q[2] = it[q[1]].group)
      BY DEF Chains
    <2> HIDE DEF Ids
    <2>2. Len(q) = 1 \/ Len(q) = 2
      <3>1. Len(q) \in Nat /\ Len(q) # 0
        BY <2>1
      <3>2. \A n \in Nat : n # 0 /\ n <= 2 => n = 1 \/ n = 2
        OBVIOUS
      <3> QED
        BY <2>1, <3>1, <3>2, Zenon
    <2> QED
      BY <2>1, <2>2
  <1> HIDE DEF Ids
  <1>2. /\ Head(q) = q[1] /\ Head(q) \in Ids
        /\ Tail(q) \in Seq(Ids) /\ Len(Tail(q)) = Len(q) - 1
        /\ Len(q) = 2 => Tail(q)[1] = q[2]
    BY <1>1
  <1>3. \A k \in 1 .. 2 : k = 1 \/ k = 2
    OBVIOUS
  <1>4. \A d : On(q, d) <=> d = q[1] \/ (Len(q) = 2 /\ d = q[2])
    <2>1. 1 \in 1 .. Len(q) /\ (Len(q) = 2 => 2 \in 1 .. Len(q))
      BY <1>1
    <2>2. \A k \in 1 .. Len(q) : k = 1 \/ (k = 2 /\ Len(q) = 2)
      <3>1. CASE Len(q) = 1
        BY <3>1
      <3>2. CASE Len(q) = 2
        BY <1>3, <3>2
      <3> QED
        BY <1>1, <3>1, <3>2
    <2> QED
      BY <2>1, <2>2 DEF On
  <1>5. \A d : On(Tail(q), d) <=> Len(q) = 2 /\ d = q[2]
    <2>1. Len(q) = 2 => 1 \in 1 .. Len(Tail(q))
      BY <1>1, <1>2
    <2>2. \A k \in 1 .. Len(Tail(q)) : k = 1 /\ Len(q) = 2
      BY <1>1, <1>2
    <2> QED
      BY <1>2, <2>1, <2>2 DEF On
  <1>6. Tail(q) \in Chains(it)
    BY <1>1, <1>2 DEF Chains, Ids
  <1>7. ASSUME Head(q) \in Items
        PROVE  /\ \A d : On(Tail(q), d) => d = Head(q) \/ d = it[Head(q)].group
               /\ Append(Tail(q), it[Head(q)].group) \in Chains(it)
               /\ Len(Append(Tail(q), it[Head(q)].group)) = Len(q)
               /\ \A d : On(Append(Tail(q), it[Head(q)].group), d)
                           <=> On(Tail(q), d) \/ d = it[Head(q)].group
    <2> DEFINE g == it[Head(q)].group
               t == Append(Tail(q), g)
    <2>1. g \in Ids
      BY <1>7 DEF Forest, Ids
    <2>2. \A d : On(Tail(q), d) => d = Head(q) \/ d = g
      BY <1>1, <1>2, <1>5
    <2>3. Len(q) = 2 => q[2] = Head(q) \/ q[2] = g
      BY <1>1, <1>2
    <2> HIDE DEF g
    <2>4. /\ t \in Seq(Ids) /\ Len(t) = Len(q)
          /\ t[Len(q)] = g
          /\ Len(q) = 2 => t[1] = q[2]
      BY <1>1, <1>2, <2>1
    <2> HIDE DEF t
    <2>5. \A d : On(t, d) <=> d = g \/ (Len(q) = 2 /\ d = q[2])
      <3>1. Len(q) \in 1 .. Len(t) /\ (Len(q) = 2 => 1 \in 1 .. Len(t))
        BY <1>1, <2>4
      <3>2. \A k \in 1 .. Len(t) : k = Len(q) \/ (k = 1 /\ Len(q) = 2)
        BY <1>1, <2>4
      <3> QED
        BY <2>4, <3>1, <3>2 DEF On
    <2>6. t \in Chains(it)
      <3>1. Len(t) <= 2
        BY <1>1, <2>4
      <3>2. Len(t) = 2 => t[2] = t[1] \/ (t[1] \in Items /\ t[2] = it[t[1]].group)
        BY <1>7, <2>3, <2>4 DEF g
      <3> QED
        BY <2>4, <3>1, <3>2 DEF Chains, Ids
    <2> QED
      BY <1>5, <2>2, <2>4, <2>5, <2>6 DEF g, t
  <1> QED
    BY <1>2, <1>4, <1>5, <1>6, <1>7 DEF Ids

\* A round leads to a walk.
LEMMA LookIsWalk ==
  ASSUME NEW it, NEW w \in Walks, Forest(it)
  PROVE  Look(it)[w] \in Walks
  <1>1. Retold(it, w.st, w.st)
    BY DEF Retold, Walks
  <1> QED
    BY <1>1, LookRetells

\* A round goes up.
LEMMA LookGoesUp ==
  ASSUME NEW it, NEW w, Forest(it), GoesUp(it, w)
  PROVE  GoesUp(it, Look(it)[w])
  <1> DEFINE c == Head(w.todo)
             w2 == Look(it)[w]
  <1>1. /\ w \in Walks /\ w.todo \in Chains(it)
        /\ \A s \in w.seen, d \in Items : On(w.todo, d) /\ d \notin w.seen => d < s
        /\ \A d \in Items : Tells(it, w.st, d) \/ (On(w.todo, d) /\ d \notin w.seen)
    BY DEF GoesUp
  <1>2. w2 \in Walks
    BY <1>1, LookIsWalk
  <1>3. Items \subseteq Nat /\ NoItem \notin Items /\ w.seen \subseteq Items
    BY <1>1 DEF Items, NoItem, Walks
  <1>4. CASE w.todo = <<>>
    <2>1. w2 = w
      BY <1>1, <1>4 DEF Look
    <2> HIDE DEF w2
    <2> QED
      BY <2>1 DEF w2
  <1>5. CASE w.todo # <<>> /\ (c = NoItem \/ c \in w.seen)
    <2>1. w2 = [w EXCEPT !.todo = Tail(@)]
      BY <1>1, <1>5 DEF Look
    <2>2. w2.st = w.st /\ w2.seen = w.seen /\ w2.todo = Tail(w.todo)
      BY <1>1, <2>1 DEF Walks
    <2>3. /\ w2.todo \in Chains(it)
          /\ \A d : On(w.todo, d) <=> d = c \/ On(w2.todo, d)
      BY <1>1, <1>5, <2>2, ChainIs
    <2> HIDE DEF c, w2
    <2> QED
      BY <1>1, <1>2, <1>3, <1>5, <2>2, <2>3 DEF GoesUp, w2
  <1>6. CASE w.todo # <<>> /\ c # NoItem /\ c \notin w.seen
    <2>1. /\ c \in Items /\ On(w.todo, c)
          /\ Tail(w.todo) \in Chains(it)
          /\ \A d : On(w.todo, d) <=> d = c \/ On(Tail(w.todo), d)
          /\ \A d : On(Tail(w.todo), d) => d = c \/ d = it[c].group
          /\ Append(Tail(w.todo), it[c].group) \in Chains(it)
          /\ \A d : On(Append(Tail(w.todo), it[c].group), d)
                      <=> On(Tail(w.todo), d) \/ d = it[c].group
      BY <1>1, <1>6, ChainIs
    <2>2. it[c].group < c /\ it[c].group \in Items \cup {NoItem}
      BY <2>1 DEF Forest
    <2>3. \A s \in w.seen : c < s
      BY <1>1, <1>6, <2>1
    <2>4. CASE Settled(it, w.st, c)
      <3>1. w2 = [w EXCEPT !.todo = Tail(@), !.seen = @ \cup {c}]
        BY <1>1, <1>6, <2>4 DEF Look
      <3>2. w2.st = w.st /\ w2.seen = w.seen \cup {c} /\ w2.todo = Tail(w.todo)
        BY <1>1, <3>1 DEF Walks
      <3>3. Tells(it, w.st, c)
        BY <2>1, <2>4 DEF Settled, Present, Tells, Items, NoItem
      <3> HIDE DEF c, w2
      <3>4. \A s \in w2.seen, d \in Items : On(w2.todo, d) /\ d \notin w2.seen => d < s
        BY <1>1, <2>1, <2>2, <3>2
      <3>5. \A d \in Items : Tells(it, w2.st, d) \/ (On(w2.todo, d) /\ d \notin w2.seen)
        BY <1>1, <2>1, <3>2, <3>3
      <3> QED
        BY <1>2, <2>1, <3>2, <3>4, <3>5 DEF GoesUp, w2
    <2>5. CASE ~Settled(it, w.st, c)
      <3> DEFINE st2 == IF w.st[c] = "preparing" THEN w.st
                        ELSE [w.st EXCEPT ![c] = Verdict(it, w.st, c)]
      <3>1. w2 = [st   |-> st2,
                  todo |-> Append(Tail(w.todo), it[c].group),
                  seen |-> w.seen \cup {c}]
        BY <1>1, <1>6, <2>5 DEF Look
      <3>2. /\ w2.st = st2 /\ w2.seen = w.seen \cup {c}
            /\ w2.todo = Append(Tail(w.todo), it[c].group)
        BY <3>1
      <3>3. w.st \in [Items -> Statuses]
        BY <1>1 DEF Walks
      <3> HIDE DEF c, w2
      <3>4. \A k \in Items \ {c} : st2[k] = w.st[k]
        BY <3>3
      <3>5. Tells(it, st2, c)
        <4>1. CASE w.st[c] = "preparing"
          BY <4>1 DEF Tells
        <4>2. CASE w.st[c] # "preparing"
          <5>1. st2[c] = Verdict(it, w.st, c)
            BY <2>1, <3>3, <4>2
          <5> HIDE DEF st2
          <5> QED
            BY <2>1, <3>4, <5>1, VerdictTells
        <4> QED
          BY <4>1, <4>2
      <3> HIDE DEF st2
      <3>6. \A s \in w2.seen, d \in Items : On(w2.todo, d) /\ d \notin w2.seen => d < s
        <4>1. SUFFICES ASSUME NEW s \in w2.seen, NEW d \in Items,
                              On(w2.todo, d), d \notin w2.seen
                       PROVE  d < s
          OBVIOUS
        <4>2. d = it[c].group
          BY <2>1, <3>2, <4>1
        <4>3. s = c \/ c < s
          BY <2>3, <3>2
        <4>4. c \in Nat /\ s \in Nat /\ d \in Nat
          BY <1>3, <2>1, <3>2
        <4> QED
          BY <2>2, <4>2, <4>3, <4>4
      <3>7. ASSUME NEW d \in Items
            PROVE  Tells(it, w2.st, d) \/ (On(w2.todo, d) /\ d \notin w2.seen)
        <4>1. CASE d = c
          BY <3>2, <3>5, <4>1
        <4>2. CASE d = it[c].group
          <5>1. d \notin w.seen
            BY <1>3, <2>1, <2>2, <2>3, <4>2
          <5>2. d # c
            BY <1>3, <2>1, <2>2, <4>2
          <5> QED
            BY <2>1, <3>2, <4>2, <5>1, <5>2
        <4>3. CASE d # c /\ d # it[c].group
          <5>1. Tells(it, w.st, d) => Tells(it, st2, d)
            BY <2>1, <3>4, <4>3, OthersTell
          <5> QED
            BY <1>1, <2>1, <3>2, <4>3, <5>1
        <4> QED
          BY <4>1, <4>2, <4>3
      <3> QED
        BY <1>2, <2>1, <3>2, <3>6, <3>7 DEF GoesUp, w2
    <2> QED
      BY <2>4, <2>5
  <1> QED
    BY <1>4, <1>5, <1>6

\* A walk has at most k rounds to go.
Ends(w, k) == w.todo = <<>> \/ Len(w.todo) + MaxItems <= k + Cardinality(w.seen)

LEMMA SeenAreFew ==
  ASSUME NEW S \in SUBSET Items
  PROVE  /\ Cardinality(S) \in 0 .. MaxItems
         /\ \A c \in Items \ S : Cardinality(S \cup {c}) = Cardinality(S) + 1
  <1>1. /\ IsFiniteSet(Items) /\ Cardinality(Items) = MaxItems /\ MaxItems \in Nat
    <2>1. 1 \in Int /\ MaxItems \in Int /\ MaxItems >= 1 /\ MaxItems \in Nat
      BY MaxItemsAssumption
    <2> QED
      BY <2>1, FS_Interval DEF Items
  <1>2. IsFiniteSet(S) /\ Cardinality(S) <= MaxItems
    BY <1>1, FS_Subset
  <1>3. Cardinality(S) \in Nat
    BY <1>2, FS_CardinalityType
  <1>4. \A c \in Items \ S : Cardinality(S \cup {c}) = Cardinality(S) + 1
    BY <1>2, FS_AddElement
  <1> QED
    BY <1>1, <1>2, <1>3, <1>4

LEMMA LookEnds ==
  ASSUME NEW it, NEW w, NEW k \in Nat, Forest(it), GoesUp(it, w), Ends(w, k + 1)
  PROVE  Ends(Look(it)[w], k)
  <1> DEFINE c == Head(w.todo)
             w2 == Look(it)[w]
  <1>1. w \in Walks /\ w.todo \in Chains(it) /\ w.seen \in SUBSET Items
    BY DEF GoesUp, Walks
  <1>2. CASE w.todo = <<>>
    <2>1. w2 = w
      BY <1>1, <1>2 DEF Look
    <2> QED
      BY <1>2, <2>1 DEF Ends
  <1>3. CASE w.todo # <<>>
    <2>1. Len(w.todo) + MaxItems <= k + 1 + Cardinality(w.seen)
      BY <1>3 DEF Ends
    <2>2. Cardinality(w.seen) \in Nat /\ MaxItems \in Nat
      BY <1>1, SeenAreFew, MaxItemsAssumption
    <2>3. Len(w.todo) \in Nat
      BY <1>1 DEF Walks
    <2>4. Len(Tail(w.todo)) = Len(w.todo) - 1
      BY <1>1, <1>3, ChainIs
    <2>5. c \in Items \/ c = NoItem
      BY <1>1, <1>3, ChainIs
    <2>6. CASE c = NoItem \/ c \in w.seen
      <3>1. w2 = [w EXCEPT !.todo = Tail(@)]
        BY <1>1, <1>3, <2>6 DEF Look
      <3>2. w2.seen = w.seen /\ w2.todo = Tail(w.todo)
        BY <1>1, <3>1 DEF Walks
      <3> HIDE DEF w2, c
      <3>3. Len(w2.todo) + MaxItems <= k + Cardinality(w2.seen)
        BY <2>1, <2>2, <2>3, <2>4, <3>2
      <3> QED
        BY <3>3 DEF Ends, w2
    <2>7. CASE c # NoItem /\ c \notin w.seen
      <3>1. Cardinality(w.seen \cup {c}) = Cardinality(w.seen) + 1
        BY <1>1, <2>5, <2>7, SeenAreFew
      <3>2. CASE Settled(it, w.st, c)
        <4>1. w2 = [w EXCEPT !.todo = Tail(@), !.seen = @ \cup {c}]
          BY <1>1, <1>3, <2>7, <3>2 DEF Look
        <4>2. w2.seen = w.seen \cup {c} /\ w2.todo = Tail(w.todo)
          BY <1>1, <4>1 DEF Walks
        <4> HIDE DEF w2, c
        <4>3. Len(w2.todo) + MaxItems <= k + Cardinality(w2.seen)
          BY <2>1, <2>2, <2>3, <2>4, <3>1, <4>2
        <4> QED
          BY <4>3 DEF Ends, w2
      <3>3. CASE ~Settled(it, w.st, c)
        <4> DEFINE st2 == IF w.st[c] = "preparing" THEN w.st
                          ELSE [w.st EXCEPT ![c] = Verdict(it, w.st, c)]
        <4>1. w2 = [st   |-> st2,
                    todo |-> Append(Tail(w.todo), it[c].group),
                    seen |-> w.seen \cup {c}]
          BY <1>1, <1>3, <2>7, <3>3 DEF Look
        <4> HIDE DEF st2
        <4>2. w2.seen = w.seen \cup {c} /\ w2.todo = Append(Tail(w.todo), it[c].group)
          BY <4>1
        <4>3. Len(w2.todo) = Len(w.todo)
          BY <1>1, <1>3, <2>5, <2>7, <4>2, ChainIs
        <4> HIDE DEF w2, c
        <4>4. Len(w2.todo) + MaxItems <= k + Cardinality(w2.seen)
          BY <2>1, <2>2, <2>3, <3>1, <4>2, <4>3
        <4> QED
          BY <4>4 DEF Ends, w2
      <3> QED
        BY <3>2, <3>3
    <2> QED
      BY <2>6, <2>7
  <1> QED
    BY <1>2, <1>3

\* _reconcile_containers makes all containers agree with their children, if it
\* starts at those that may not, and those are a chain.
LEMMA ReconcileTells ==
  ASSUME NEW it, NEW st \in [Items -> Statuses], NEW starts \in Chains(it),
         Forest(it),
         \A d \in Items : Tells(it, st, d) \/ On(starts, d)
  PROVE  AllTell(it, Reconcile(it, st, starts))
  <1> DEFINE N == Rounds(starts)
             Good == [n \in 0 .. N |-> {w \in Walks : GoesUp(it, w) /\ Ends(w, N - n)}]
  <1>0. starts \in Seq(Items \cup {NoItem})
    BY DEF Chains
  <1>1. N \in Nat
    BY <1>0, ReconcileRounds
  <1>2. PICK f : /\ f[0] = [st |-> st, todo |-> starts, seen |-> {}]
                 /\ f[0] \in Walks
                 /\ \A n \in 1 .. N : f[n] = Look(it)[f[n - 1]]
                 /\ Reconcile(it, st, starts) = f[N].st
    BY <1>0, ReconcileRounds, Zenon
  <1>3. f[0] \in Good[0]
    <2>1. GoesUp(it, f[0])
      BY <1>2 DEF GoesUp
    <2>2. Ends(f[0], N - 0)
      <3>1. Cardinality({}) = 0
        BY FS_EmptySet
      <3>2. Len(starts) \in Nat /\ MaxItems \in Nat
        BY <1>0, MaxItemsAssumption
      <3> QED
        BY <1>2, <3>1, <3>2 DEF Ends, Rounds
    <2> HIDE DEF N
    <2> QED
      BY <1>1, <1>2, <2>1, <2>2
  <1>4. ASSUME NEW n \in 1 .. N, f[n - 1] \in Good[n - 1]
        PROVE  f[n] \in Good[n]
    <2> HIDE DEF N
    <2>0. n - 1 \in 0 .. N /\ N - n \in Nat /\ N - (n - 1) = (N - n) + 1 /\ n \in 0 .. N
      BY <1>1
    <2>1. GoesUp(it, f[n - 1]) /\ Ends(f[n - 1], (N - n) + 1)
      BY <1>4, <2>0
    <2>2. GoesUp(it, f[n])
      BY <1>2, <2>1, LookGoesUp
    <2> DEFINE k == N - n
    <2>3. k \in Nat /\ Ends(f[n - 1], k + 1)
      BY <2>0, <2>1
    <2> HIDE DEF k
    <2>4. Ends(f[n], k)
      BY <1>2, <2>1, <2>3, LookEnds
    <2>5. f[n] \in Walks
      BY <2>2 DEF GoesUp
    <2> QED
      BY <2>0, <2>2, <2>4, <2>5 DEF k
  <1>5. f[N] \in Good[N]
    <2> HIDE DEF Good, N
    <2>1. \A n \in 0 .. N : f[n] \in Good[n]
      BY <1>1, <1>3, <1>4, RoundsPreserve
    <2> QED
      BY <1>1, <2>1
  <1> HIDE DEF N
  <1>6. GoesUp(it, f[N]) /\ Ends(f[N], N - N)
    BY <1>1, <1>5
  <1>7. \A d : ~On(f[N].todo, d)
    <2> DEFINE w == f[N]
    <2>1. w.seen \in SUBSET Items /\ w.todo \in Seq(Items \cup {NoItem})
      BY <1>6 DEF GoesUp, Walks
    <2>2. Cardinality(w.seen) \in 0 .. MaxItems /\ MaxItems \in Nat
      BY <2>1, SeenAreFew, MaxItemsAssumption
    <2>3. w.todo = <<>> \/ Len(w.todo) + MaxItems <= Cardinality(w.seen)
      BY <1>1, <1>6, <2>2 DEF Ends
    <2>4. Len(w.todo) \in Nat
      BY <2>1
    <2> HIDE DEF w
    <2>5. Len(w.todo) = 0
      BY <2>2, <2>3, <2>4
    <2> QED
      BY <2>5 DEF On, w
  <1> QED
    BY <1>2, <1>6, <1>7 DEF GoesUp, AllTell

\* update_status leaves them in agreement, whatever the row and its group said.
LEMMA WrittenTells ==
  ASSUME NEW it, NEW st \in [Items -> Statuses], NEW i \in Items,
         NEW new \in Statuses \ {"absent"},
         Forest(it),
         Present(st, i), st[i] # "deleting" \/ new = "deleting",
         \A d \in Items : d = i \/ d = it[i].group \/ Tells(it, st, d)
  PROVE  AllTell(it, Written(it, st, i, new))
  <1> DEFINE st1 == [st EXCEPT ![i] = new]
             g == it[i].group
             failing == new = "failed" /\ it[i].kind = "directory"
             starts == IF failing THEN <<g>> ELSE <<i, g>>
  <1>1. g \in Items \cup {NoItem} /\ i \in Items \cup {NoItem}
    BY DEF Forest
  <1>2. st1 \in [Items -> Statuses] /\ st1[i] = new /\ \A k \in Items \ {i} : st1[k] = st[k]
    OBVIOUS
  <1>3. Written(it, st, i, new) = Reconcile(it, st1, starts)
    BY DEF Written
  <1>4. starts \in Chains(it)
    <2> HIDE DEF g, failing
    <2>1. <<g>> \in Chains(it)
      BY <1>1 DEF Chains
    <2>2. <<i, g>> \in Chains(it)
      BY <1>1 DEF Chains, g
    <2> QED
      BY <2>1, <2>2
  <1>5. On(starts, g) /\ (On(starts, i) \/ failing)
    <2> HIDE DEF g, failing
    <2>1. On(<<g>>, g)
      BY DEF On
    <2>2. On(<<i, g>>, g) /\ On(<<i, g>>, i)
      <3>1. Len(<<i, g>>) = 2 /\ <<i, g>>[1] = i /\ <<i, g>>[2] = g
        OBVIOUS
      <3>2. 1 \in 1 .. 2 /\ 2 \in 1 .. 2
        OBVIOUS
      <3> QED
        BY <3>1, <3>2 DEF On
    <2> QED
      BY <2>1, <2>2
  <1>6. ASSUME NEW d \in Items
        PROVE  Tells(it, st1, d) \/ On(starts, d)
    <2> HIDE DEF st1, starts
    <2>1. CASE d = g
      BY <1>5, <2>1
    <2>2. CASE d = i
      <3>1. failing => Tells(it, st1, d)
        BY <1>2, <2>2 DEF Tells
      <3> QED
        BY <1>5, <2>2, <3>1
    <2>3. CASE d # i /\ d # g
      BY <1>2, <2>3, OthersTell
    <2> QED
      BY <2>1, <2>2, <2>3
  <1> HIDE DEF st1, starts
  <1>7. AllTell(it, Reconcile(it, st1, starts))
    BY <1>2, <1>4, <1>6, ReconcileTells
  <1> QED
    BY <1>3, <1>7

\* update_status keeps the agreement.
LEMMA WrittenStillTells ==
  ASSUME NEW it, NEW st \in [Items -> Statuses], NEW i \in Items,
         NEW new \in Statuses \ {"absent"},
         Forest(it), AllTell(it, st)
  PROVE  AllTell(it, Written(it, st, i, new))
  <1>1. CASE ~Present(st, i) \/ (st[i] = "deleting" /\ new # "deleting")
    <2>1. Written(it, st, i, new) = st
      BY <1>1 DEF Written
    <2> QED
      BY <2>1
  <1>2. CASE Present(st, i) /\ (st[i] # "deleting" \/ new = "deleting")
    BY <1>2, WrittenTells DEF AllTell
  <1> QED
    BY <1>1, <1>2

\* delete_items_by_ids keeps it, if all that goes lay in what goes, but for the
\* containers that are told, and those are a chain.
LEMMA RemovedTells ==
  ASSUME NEW it, NEW st \in [Items -> Statuses], NEW gone, NEW groups \in Chains(it),
         Forest(it), AllTell(it, st),
         \A i \in Items : Present(st, i) /\ i \in gone
                            => it[i].group \in gone \cup {NoItem} \/ On(groups, it[i].group)
  PROVE  AllTell(it, Removed(it, st, gone, groups))
  <1> DEFINE st1 == [i \in Items |-> IF i \in gone THEN "absent" ELSE st[i]]
  <1>1. st1 \in [Items -> Statuses]
    BY DEF Statuses
  <1>2. ASSUME NEW d \in Items
        PROVE  Tells(it, st1, d) \/ On(groups, d)
    <2>1. CASE d \in gone
      <3>1. st1[d] = "absent"
        BY <2>1
      <3> QED
        BY <3>1 DEF Tells
    <2>2. CASE d \notin gone /\ ~On(groups, d)
      <3>1. d # NoItem
        BY DEF Items, NoItem
      <3>2. \A k \in Items : it[k].group = d /\ k \in gone => ~Present(st, k)
        BY <2>2, <3>1
      <3>3. st1[d] = st[d]
        BY <2>2
      <3>4. \A k \in Items : k \notin gone => st1[k] = st[k]
        OBVIOUS
      <3>5. \A k \in Items : k \in gone => st1[k] = "absent"
        OBVIOUS
      <3> HIDE DEF st1
      <3>6. Children(it, st1, d) = Children(it, st, d)
        BY <3>2, <3>4, <3>5 DEF Children, Present
      <3>7. \A k \in Children(it, st, d) : st1[k] = st[k]
        <4> SUFFICES ASSUME NEW k \in Children(it, st, d) PROVE st1[k] = st[k]
          OBVIOUS
        <4>1. k \in Items /\ it[k].group = d /\ Present(st, k)
          BY DEF Children
        <4> QED
          BY <3>2, <3>4, <4>1
      <3> QED
        BY <3>3, <3>6, <3>7 DEF AllTell, Tells
    <2> QED
      BY <2>1, <2>2
  <1> HIDE DEF st1
  <1>3. AllTell(it, Reconcile(it, st1, groups))
    BY <1>1, <1>2, ReconcileTells
  <1> QED
    BY <1>3 DEF Removed, st1

\* set_subtree_status keeps it: what is being deleted is still waited for.
LEMMA MarkedTells ==
  ASSUME NEW it, NEW st \in [Items -> Statuses], NEW roots, AllTell(it, st)
  PROVE  AllTell(it, MarkedDeleting(it, st, roots))
  <1> DEFINE st2 == MarkedDeleting(it, st, roots)
             doomed == Subtree(it, st, roots)
  <1>1. \A k \in Items : /\ k \in doomed => st2[k] = "deleting" /\ Present(st, k)
                         /\ k \notin doomed => st2[k] = st[k]
    BY SubtreeHolds DEF MarkedDeleting
  <1> HIDE DEF st2, doomed
  <1>2. \A d \in Items : Children(it, st2, d) = Children(it, st, d)
    BY <1>1 DEF Children, Present
  <1>3. ASSUME NEW d \in Items
        PROVE  Tells(it, st2, d)
    <2>1. CASE d \in doomed
      BY <1>1, <2>1 DEF Tells
    <2>2. CASE d \notin doomed
      <3>1. Tells(it, st, d) /\ st2[d] = st[d]
        BY <1>1, <2>2 DEF AllTell
      <3>2. \A k \in Children(it, st, d) : st2[k] = st[k] \/ st2[k] = "deleting"
        BY <1>1 DEF Children
      <3>3. "deleting" \notin Active \cup {"failed"}
        BY DEF Active
      <3> QED
        BY <1>2, <3>1, <3>2, <3>3 DEF Tells
    <2> QED
      BY <2>1, <2>2
  <1> QED
    BY <1>3 DEF AllTell, st2

=============================================================================
