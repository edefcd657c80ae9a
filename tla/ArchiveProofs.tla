---------------------------- MODULE ArchiveProofs ----------------------------
(***************************************************************************)
(* Proof that the list of the archive is whole (Administration), for any   *)
(* number of tasks, any size of a piece and any number of requests under   *)
(* way: what tasks that go and tasks that come do to a list that is read   *)
(* piece by piece, counted from the latest task each time.                 *)
(***************************************************************************)
EXTENDS AdministrationProofs, FiniteSetTheorems, SequenceTheorems

-----------------------------------------------------------------------------
(* Places in a list                                                        *)

\* The place of a among the elements of a set, the highest first, and the lowest first.
FromTop(K, a) == Cardinality({b \in K : b >= a})
FromBottom(K, a) == Cardinality({b \in K : b <= a})

LEMMA UpTo ==
  ASSUME NEW n \in Nat
  PROVE  IsFiniteSet(1 .. n) /\ Cardinality(1 .. n) = n
  BY FS_Interval

LEMMA EveryPlace ==
  ASSUME NEW K, IsFiniteSet(K), NEW f \in [K -> 1 .. Cardinality(K)], \A a, b \in K : f[a] = f[b] => a = b
  PROVE  \A i \in 1 .. Cardinality(K) : \E a \in K : f[a] = i
  <1> SUFFICES ASSUME NEW i \in 1 .. Cardinality(K), \A a \in K : f[a] # i
               PROVE  FALSE
    OBVIOUS
  <1> DEFINE T == (1 .. Cardinality(K)) \ {i}
  <1>1. Cardinality(K) \in Nat
    BY FS_CardinalityType
  <1>2. IsFiniteSet(1 .. Cardinality(K)) /\ Cardinality(1 .. Cardinality(K)) = Cardinality(K)
    BY <1>1, UpTo
  <1>3. IsFiniteSet(T) /\ Cardinality(T) < Cardinality(K)
    <2>1. IsFiniteSet(T) /\ Cardinality(T) = Cardinality(K) - 1
      BY <1>2, FS_RemoveElement
    <2>2. QED
      BY <1>1, <2>1
  <1>4. f \in [K -> T]
    OBVIOUS
  <1>5. QED
    <2> HIDE DEF T
    <2>1. PICK x, y \in K : x # y /\ f[x] = f[y]
      BY <1>2, <1>3, <1>4, FS_PigeonHole
    <2>2. QED
      BY <2>1

\* Every place of a finite set of numbers is taken, by one element.
LEMMA TopPlaces ==
  ASSUME NEW K \in SUBSET Nat, IsFiniteSet(K)
  PROVE  /\ Cardinality(K) \in Nat
         /\ \A a \in K : FromTop(K, a) \in 1 .. Cardinality(K)
         /\ \A a, b \in K : FromTop(K, a) = FromTop(K, b) => a = b
         /\ \A i \in 1 .. Cardinality(K) : \E a \in K : FromTop(K, a) = i
  <1> DEFINE f == [a \in K |-> FromTop(K, a)]
             top(a) == {b \in K : b >= a}
  <1>0. \A a \in K : a \in Nat
    OBVIOUS
  <1>1. Cardinality(K) \in Nat
    BY FS_CardinalityType
  <1>2. ASSUME NEW a \in K
        PROVE  FromTop(K, a) \in 1 .. Cardinality(K)
    <2>1. IsFiniteSet(top(a)) /\ Cardinality(top(a)) <= Cardinality(K) /\ Cardinality(top(a)) \in Nat
      BY FS_Subset, FS_CardinalityType, top(a) \in SUBSET K
    <2>2. Cardinality(top(a)) # 0
      BY <2>1, FS_EmptySet, a \in top(a)
    <2>3. QED
      BY <1>1, <2>1, <2>2 DEF FromTop
  <1>3. ASSUME NEW a \in K, NEW b \in K, a < b
        PROVE  FromTop(K, a) # FromTop(K, b)
    <2>1. top(b) \in SUBSET top(a) /\ a \in top(a) /\ a \notin top(b)
      <3>1. \A c \in K : c >= b => c >= a
        BY <1>0, <1>3
      <3>2. ~(a >= b) /\ a >= a
        BY <1>0, <1>3
      <3>3. QED
        BY <3>1, <3>2
    <2>2. IsFiniteSet(top(a))
      BY FS_Subset, top(a) \in SUBSET K
    <2>3. Cardinality(top(b)) # Cardinality(top(a))
      <3> HIDE DEF top
      <3>1. QED
        BY <2>1, <2>2, FS_Subset
    <2>4. QED
      BY <2>3 DEF FromTop
  <1>4. \A a, b \in K : FromTop(K, a) = FromTop(K, b) => a = b
    BY <1>0, <1>3
  <1>5. f \in [K -> 1 .. Cardinality(K)] /\ \A a, b \in K : f[a] = f[b] => a = b
    BY <1>2, <1>4
  <1>6. \A i \in 1 .. Cardinality(K) : \E a \in K : f[a] = i
    <2> HIDE DEF f
    <2>1. QED
      BY <1>1, <1>5, EveryPlace
  <1>7. QED
    BY <1>1, <1>2, <1>4, <1>6

LEMMA BottomPlaces ==
  ASSUME NEW K \in SUBSET Nat, IsFiniteSet(K)
  PROVE  /\ Cardinality(K) \in Nat
         /\ \A a \in K : FromBottom(K, a) \in 1 .. Cardinality(K)
         /\ \A a, b \in K : FromBottom(K, a) = FromBottom(K, b) => a = b
         /\ \A i \in 1 .. Cardinality(K) : \E a \in K : FromBottom(K, a) = i
  <1> DEFINE f == [a \in K |-> FromBottom(K, a)]
             bottom(a) == {b \in K : b <= a}
  <1>0. \A a \in K : a \in Nat
    OBVIOUS
  <1>1. Cardinality(K) \in Nat
    BY FS_CardinalityType
  <1>2. ASSUME NEW a \in K
        PROVE  FromBottom(K, a) \in 1 .. Cardinality(K)
    <2>1. IsFiniteSet(bottom(a)) /\ Cardinality(bottom(a)) <= Cardinality(K) /\ Cardinality(bottom(a)) \in Nat
      BY FS_Subset, FS_CardinalityType, bottom(a) \in SUBSET K
    <2>2. Cardinality(bottom(a)) # 0
      BY <2>1, FS_EmptySet, a \in bottom(a)
    <2>3. QED
      BY <1>1, <2>1, <2>2 DEF FromBottom
  <1>3. ASSUME NEW a \in K, NEW b \in K, a < b
        PROVE  FromBottom(K, a) # FromBottom(K, b)
    <2>1. bottom(a) \in SUBSET bottom(b) /\ b \in bottom(b) /\ b \notin bottom(a)
      <3>1. \A c \in K : c <= a => c <= b
        BY <1>0, <1>3
      <3>2. ~(b <= a) /\ b <= b
        BY <1>0, <1>3
      <3>3. QED
        BY <3>1, <3>2
    <2>2. IsFiniteSet(bottom(b))
      BY FS_Subset, bottom(b) \in SUBSET K
    <2>3. Cardinality(bottom(b)) # Cardinality(bottom(a))
      BY <2>1, <2>2, FS_Subset
    <2>4. QED
      BY <2>3 DEF FromBottom
  <1>4. f \in [K -> 1 .. Cardinality(K)] /\ \A a, b \in K : f[a] = f[b] => a = b
    BY <1>0, <1>2, <1>3
  <1>5. \A i \in 1 .. Cardinality(K) : \E a \in K : f[a] = i
    <2> HIDE DEF f
    <2>1. QED
      BY <1>1, <1>4, EveryPlace
  <1>6. \A a, b \in K : FromBottom(K, a) = FromBottom(K, b) => a = b
    BY <1>4
  <1>7. QED
    BY <1>1, <1>2, <1>5, <1>6

LEMMA Rounded ==
  ASSUME NEW n \in Nat, NEW size \in Nat \ {0}
  PROVE  /\ (n + size - 1) \div size \in Nat
         /\ \A k \in Nat : k >= (n + size - 1) \div size => k * size >= n
  <1> DEFINE q == (n + size - 1) \div size
  <1>1. q \in Int /\ n + size - 1 < (q + 1) * size /\ q * size <= n + size - 1
    OBVIOUS
  <1>2. (q + 1) * size = q * size + size
    BY <1>1
  <1>3. q \in Nat
    <2>1. n + size - 1 \in Nat
      OBVIOUS
    <2>2. QED
      BY <2>1
  <1>4. ASSUME NEW k \in Nat, k >= q
        PROVE  k * size >= n
    <2>1. k * size >= q * size
      BY <1>1, <1>4
    <2>2. QED
      BY <1>1, <1>2, <2>1
  <1>5. QED
    BY <1>3, <1>4

-----------------------------------------------------------------------------
(* What a list may miss and repeat                                         *)

TaskTitles == STRING \cup Renames
ListRows == [of : Analyses, title : TaskTitles]
Told == [Analyses -> {"new", "there", "gone"}]

\* A list that was read: its rows, how many pieces they are, how many there were at
\* the last of them, and what there was at the first.
Views == [list : Seq(ListRows), page : Nat, pages : Nat, known : Told]

Standing == [a \in Analyses |-> analyses[a].there]

Remaining(T) == {a \in Analyses : T[a] = "there"}
Shown(v) == {v.list[i].of : i \in DOMAIN v.list}
Twice(v) == Len(v.list) - Cardinality(Shown(v))

\* Of what was known as there and still is, what a piece that was read should have
\* shown, and what no piece has; what is listed, and now in a piece to come.
Skipped(T, v) ==
  {a \in Remaining(T) : v.known[a] = "there" /\ FromTop(Remaining(T), a) <= v.page * PieceSize} \ Shown(v)
Lacks(T, v) == {a \in Remaining(T) : v.known[a] = "there"} \ Shown(v)
Pushed(T, v) == {a \in Remaining(T) : FromTop(Remaining(T), a) > v.page * PieceSize} \cap Shown(v)

WentSince(T, v) == {a \in Analyses : v.known[a] # "gone" /\ T[a] = "gone"}
CameSince(T, v) == {a \in Analyses : v.known[a] = "new" /\ T[a] # "new"}

KnownBefore(T, v) ==
  \A a \in Analyses : /\ v.known[a] = "there" => T[a] # "new"
                      /\ v.known[a] = "gone" => T[a] = "gone"
                      /\ a \in Shown(v) => T[a] # "new"

\* What was skipped is no more than what went, and what is or will be shown twice no
\* more than what came.
Whole(T, v) ==
  /\ v \in Views
  /\ KnownBefore(T, v)
  /\ Cardinality(Skipped(T, v)) <= Cardinality(WentSince(T, v))
  /\ v.page >= v.pages => Cardinality(Lacks(T, v)) <= Cardinality(WentSince(T, v))
  /\ Twice(v) + Cardinality(Pushed(T, v)) <= Cardinality(CameSince(T, v))

LEMMA Places ==
  ASSUME NEW T \in Told
  PROVE  /\ Remaining(T) \in SUBSET Nat /\ IsFiniteSet(Remaining(T))
         /\ Cardinality(Remaining(T)) \in Nat
         /\ \A a \in Remaining(T) : FromTop(Remaining(T), a) \in 1 .. Cardinality(Remaining(T))
         /\ \A a, b \in Remaining(T) : FromTop(Remaining(T), a) = FromTop(Remaining(T), b) => a = b
         /\ \A i \in 1 .. Cardinality(Remaining(T)) : \E a \in Remaining(T) : FromTop(Remaining(T), a) = i
  <1>1. Remaining(T) \in SUBSET Analyses /\ Analyses \subseteq Nat /\ IsFiniteSet(Analyses)
    BY ArchiveAssumption DEF Remaining
  <1>2. Remaining(T) \in SUBSET Nat /\ IsFiniteSet(Remaining(T))
    BY <1>1, FS_Subset
  <1>3. QED
    BY <1>2, TopPlaces

LEMMA ViewSizes ==
  ASSUME NEW v \in Views, NEW T \in Told
  PROVE  /\ Shown(v) \in SUBSET Analyses
         /\ \A S \in SUBSET Analyses : IsFiniteSet(S) /\ Cardinality(S) \in Nat
         /\ Len(v.list) \in Nat /\ Twice(v) \in Int
         /\ v.page * PieceSize \in Nat
  <1>1. \A S \in SUBSET Analyses : IsFiniteSet(S) /\ Cardinality(S) \in Nat
    BY ArchiveAssumption, FS_Subset, FS_CardinalityType
  <1>2. Shown(v) \in SUBSET Analyses
    <2>1. v.list \in Seq(ListRows)
      BY DEF Views
    <2>2. \A i \in DOMAIN v.list : v.list[i] \in ListRows
      BY <2>1
    <2>3. QED
      BY <2>2 DEF Shown, ListRows
  <1>3. Len(v.list) \in Nat /\ v.page \in Nat /\ PieceSize \in Nat
    BY ArchiveAssumption DEF Views
  <1>4. QED
    BY <1>1, <1>2, <1>3 DEF Twice

\* A task that goes makes the others that are earlier come one place nearer.
LEMMA GoneMoves ==
  ASSUME NEW T \in Told, NEW x \in Remaining(T)
  PROVE  LET U == [T EXCEPT ![x] = "gone"]
         IN  /\ U \in Told /\ Remaining(U) = Remaining(T) \ {x}
             /\ \A a \in Remaining(U) :
                  FromTop(Remaining(U), a) = IF x >= a THEN FromTop(Remaining(T), a) - 1 ELSE FromTop(Remaining(T), a)
  <1> DEFINE U == [T EXCEPT ![x] = "gone"]
             K == Remaining(T)
             above(a) == {b \in K : b >= a}
  <1>1. U \in Told /\ Remaining(U) = K \ {x}
    BY DEF Told, Remaining
  <1>2. ASSUME NEW a \in Remaining(U)
        PROVE  FromTop(Remaining(U), a) = IF x >= a THEN FromTop(K, a) - 1 ELSE FromTop(K, a)
    <2>1. {b \in Remaining(U) : b >= a} = above(a) \ {x}
      BY <1>1
    <2>2. IsFiniteSet(above(a)) /\ Cardinality(above(a)) \in Nat
      <3>1. above(a) \in SUBSET K /\ IsFiniteSet(K)
        BY Places
      <3>2. QED
        BY <3>1, FS_Subset, FS_CardinalityType
    <2>3. x \in above(a) <=> x >= a
      OBVIOUS
    <2>4. Cardinality(above(a) \ {x}) = IF x \in above(a) THEN Cardinality(above(a)) - 1 ELSE Cardinality(above(a))
      <3> HIDE DEF above
      <3>1. QED
        BY <2>2, FS_RemoveElement
    <2>5. FromTop(K, a) = Cardinality(above(a)) /\ FromTop(Remaining(U), a) = Cardinality(above(a) \ {x})
      BY <2>1 DEF FromTop
    <2>6. QED
      <3> HIDE DEF above, U, K
      <3>1. QED
        BY <2>2, <2>3, <2>4, <2>5
  <1>3. QED
    BY <1>1, <1>2

\* A task that is made is the latest, and moves every other by one place.
LEMMA MadeMoves ==
  ASSUME NEW T \in Told, NEW x \in Analyses, T[x] = "new", \A a \in Remaining(T) : a < x
  PROVE  LET U == [T EXCEPT ![x] = "there"]
         IN  /\ U \in Told /\ Remaining(U) = Remaining(T) \cup {x}
             /\ FromTop(Remaining(U), x) = 1
             /\ \A a \in Remaining(T) : FromTop(Remaining(U), a) = FromTop(Remaining(T), a) + 1
  <1> DEFINE U == [T EXCEPT ![x] = "there"]
             K == Remaining(T)
             above(a) == {b \in K : b >= a}
  <1>1. U \in Told /\ Remaining(U) = K \cup {x}
    BY DEF Told, Remaining
  <1>0. x \in Nat /\ K \in SUBSET Nat /\ IsFiniteSet(K)
    BY Places, ArchiveAssumption
  <1>2. ASSUME NEW a \in K
        PROVE  FromTop(Remaining(U), a) = FromTop(K, a) + 1
    <2>0. a \in Nat /\ x >= a /\ ~(a >= x)
      BY <1>0
    <2>1. {b \in Remaining(U) : b >= a} = above(a) \cup {x}
      BY <1>1, <2>0
    <2>2. IsFiniteSet(above(a)) /\ Cardinality(above(a)) \in Nat
      <3>1. above(a) \in SUBSET K
        OBVIOUS
      <3>2. QED
        BY <1>0, <3>1, FS_Subset, FS_CardinalityType
    <2>3. x \notin above(a)
      BY DEF Remaining
    <2>4. Cardinality(above(a) \cup {x}) = Cardinality(above(a)) + 1
      <3> HIDE DEF above
      <3>1. QED
        BY <2>2, <2>3, FS_AddElement
    <2>5. QED
      BY <2>1, <2>2, <2>4 DEF FromTop
  <1>3. FromTop(Remaining(U), x) = 1
    <2>1. \A b \in K : ~(b >= x)
      BY <1>0
    <2>2. x >= x
      BY <1>0
    <2>3. {b \in Remaining(U) : b >= x} = {x}
      BY <1>1, <2>1, <2>2
    <2>4. QED
      BY <2>3, FS_Singleton DEF FromTop
  <1>4. QED
    BY <1>1, <1>2, <1>3

\* A set of tasks with at most one more.
LEMMA OneMore ==
  ASSUME NEW S \in SUBSET Analyses, NEW z, NEW R \in SUBSET Analyses, R \subseteq S \cup {z}
  PROVE  Cardinality(R) <= Cardinality(S) + 1
  <1>1. IsFiniteSet(S) /\ Cardinality(S) \in Nat
    BY ArchiveAssumption, FS_Subset, FS_CardinalityType
  <1>2. IsFiniteSet(S \cup {z}) /\ Cardinality(S \cup {z}) <= Cardinality(S) + 1
    BY <1>1, FS_AddElement
  <1>3. Cardinality(R) <= Cardinality(S \cup {z}) /\ Cardinality(R) \in Nat /\ Cardinality(S \cup {z}) \in Nat
    BY <1>2, FS_Subset, FS_CardinalityType
  <1>4. QED
    BY <1>1, <1>2, <1>3

LEMMA GrowsByOne ==
  ASSUME NEW S \in SUBSET Analyses, NEW x \in Analyses \ S, NEW R \in SUBSET Analyses, S \cup {x} \subseteq R
  PROVE  Cardinality(R) >= Cardinality(S) + 1
  <1>1. IsFiniteSet(S) /\ IsFiniteSet(R)
    BY ArchiveAssumption, FS_Subset
  <1>2. Cardinality(S \cup {x}) = Cardinality(S) + 1
    BY <1>1, FS_AddElement
  <1>3. Cardinality(S \cup {x}) <= Cardinality(R)
    BY <1>1, FS_Subset
  <1>4. Cardinality(S) \in Nat /\ Cardinality(R) \in Nat
    BY <1>1, FS_CardinalityType
  <1>5. QED
    BY <1>2, <1>3, <1>4

LEMMA NotMore ==
  ASSUME NEW S \in SUBSET Analyses, NEW R \in SUBSET S
  PROVE  Cardinality(R) <= Cardinality(S) /\ Cardinality(R) \in Nat /\ Cardinality(S) \in Nat
  <1>1. IsFiniteSet(S) /\ IsFiniteSet(R) /\ Cardinality(R) <= Cardinality(S)
    BY ArchiveAssumption, FS_Subset
  <1>2. QED
    BY <1>1, FS_CardinalityType

LEMMA SetsOfTasks ==
  ASSUME NEW T \in Told, NEW v \in Views
  PROVE  /\ Skipped(T, v) \in SUBSET Analyses /\ Lacks(T, v) \in SUBSET Analyses
         /\ Pushed(T, v) \in SUBSET Analyses /\ WentSince(T, v) \in SUBSET Analyses
         /\ CameSince(T, v) \in SUBSET Analyses
  BY DEF Skipped, Lacks, Pushed, WentSince, CameSince, Remaining

\* A task that goes may let one that no piece has shown slip into the pieces before.
LEMMA GoneKeepsWhole ==
  ASSUME NEW T \in Told, NEW v \in Views, Whole(T, v), NEW x \in Remaining(T)
  PROVE  Whole([T EXCEPT ![x] = "gone"], v)
  <1> DEFINE U == [T EXCEPT ![x] = "gone"]
             place(a) == FromTop(Remaining(T), a)
             read == v.page * PieceSize
  <1>1. /\ U \in Told /\ Remaining(U) = Remaining(T) \ {x}
        /\ \A a \in Remaining(U) : FromTop(Remaining(U), a) = IF x >= a THEN place(a) - 1 ELSE place(a)
    BY GoneMoves
  <1>2. \A a \in Analyses : U[a] = IF a = x THEN "gone" ELSE T[a]
    BY DEF Told
  <1>3. x \in Analyses /\ T[x] = "there"
    BY DEF Remaining
  <1>4. \A a \in Remaining(T) : place(a) \in Nat
    BY Places
  <1>5. read \in Nat
    BY ViewSizes
  <1>6. KnownBefore(U, v)
    BY <1>2, <1>3 DEF Whole, KnownBefore
  <1>7. Cardinality(WentSince(U, v)) >= Cardinality(WentSince(T, v)) + 1
    <2>1. x \notin WentSince(T, v)
      BY <1>3 DEF WentSince
    <2>2. v.known[x] # "gone"
      BY <1>3 DEF Whole, KnownBefore
    <2>3. WentSince(T, v) \cup {x} \subseteq WentSince(U, v)
      BY <1>2, <1>3, <2>2 DEF WentSince
    <2>4. QED
      BY <1>1, <1>3, <2>1, <2>3, SetsOfTasks, GrowsByOne
  <1>8. \E z : Skipped(U, v) \subseteq Skipped(T, v) \cup {z}
    <2>1. ASSUME NEW a \in Skipped(U, v)
          PROVE  a \in Skipped(T, v) \/ (a \in Remaining(T) /\ place(a) = read + 1)
      <3>1. a \in Remaining(U) /\ a \in Remaining(T) /\ a \notin Shown(v) /\ v.known[a] = "there"
        BY <1>1 DEF Skipped
      <3>2. FromTop(Remaining(U), a) <= read
        BY DEF Skipped
      <3>3. place(a) <= read \/ place(a) = read + 1
        <4> HIDE DEF place, read, U
        <4>1. QED
          BY <1>1, <1>4, <1>5, <3>1, <3>2
      <3>4. QED
        BY <3>1, <3>3 DEF Skipped
    <2>2. \A a, b \in Remaining(T) : place(a) = read + 1 /\ place(b) = read + 1 => a = b
      BY Places
    <2>3. CASE \E z \in Remaining(T) : place(z) = read + 1
      <3>1. PICK z \in Remaining(T) : place(z) = read + 1
        BY <2>3
      <3>2. Skipped(U, v) \subseteq Skipped(T, v) \cup {z}
        <4> HIDE DEF place, read, U
        <4>1. QED
          BY <2>1, <2>2, <3>1
      <3>3. QED
        BY <3>2
    <2>4. CASE ~ \E z \in Remaining(T) : place(z) = read + 1
      <3> HIDE DEF place, read, U
      <3>1. QED
        BY <2>1, <2>4
    <2>5. QED
      BY <2>3, <2>4
  <1>9. Cardinality(Skipped(U, v)) <= Cardinality(Skipped(T, v)) + 1
    <2> HIDE DEF U
    <2>1. QED
      BY <1>1, <1>8, SetsOfTasks, OneMore
  <1>10. Cardinality(Lacks(U, v)) <= Cardinality(Lacks(T, v))
    <2>1. Lacks(U, v) \in SUBSET Lacks(T, v)
      BY <1>1 DEF Lacks
    <2>2. QED
      BY <2>1, NotMore, SetsOfTasks
  <1>11. Cardinality(Pushed(U, v)) <= Cardinality(Pushed(T, v))
    <2>1. ASSUME NEW a \in Pushed(U, v)
          PROVE  a \in Pushed(T, v)
      <3>1. a \in Remaining(U) /\ a \in Remaining(T) /\ a \in Shown(v) /\ FromTop(Remaining(U), a) > read
        BY <1>1 DEF Pushed
      <3>2. place(a) > read
        <4> HIDE DEF place, read, U
        <4>1. QED
          BY <1>1, <1>4, <1>5, <3>1
      <3>3. QED
        BY <3>1, <3>2 DEF Pushed
    <2>2. Pushed(U, v) \in SUBSET Pushed(T, v)
      BY <2>1
    <2>3. QED
      BY <2>2, NotMore, SetsOfTasks
  <1>12. CameSince(U, v) = CameSince(T, v)
    BY <1>2, <1>3 DEF CameSince
  <1>13. /\ Cardinality(Skipped(T, v)) \in Nat /\ Cardinality(Skipped(U, v)) \in Nat
         /\ Cardinality(Lacks(T, v)) \in Nat /\ Cardinality(Lacks(U, v)) \in Nat
         /\ Cardinality(Pushed(T, v)) \in Nat /\ Cardinality(Pushed(U, v)) \in Nat
         /\ Cardinality(WentSince(T, v)) \in Nat /\ Cardinality(WentSince(U, v)) \in Nat
         /\ Cardinality(CameSince(T, v)) \in Nat
         /\ Twice(v) \in Int /\ v.page \in Nat /\ v.pages \in Nat
    <2> HIDE DEF U
    <2>1. QED
      BY <1>1, SetsOfTasks, ViewSizes DEF Views
  <1>14. Whole(U, v)
    <2> HIDE DEF U
    <2>1. Cardinality(Skipped(U, v)) <= Cardinality(WentSince(U, v))
      <3>1. Cardinality(Skipped(T, v)) <= Cardinality(WentSince(T, v))
        BY DEF Whole
      <3>2. QED
        BY <3>1, <1>7, <1>9, <1>13
    <2>2. v.page >= v.pages => Cardinality(Lacks(U, v)) <= Cardinality(WentSince(U, v))
      <3>1. v.page >= v.pages => Cardinality(Lacks(T, v)) <= Cardinality(WentSince(T, v))
        BY DEF Whole
      <3>2. QED
        BY <3>1, <1>7, <1>10, <1>13
    <2>3. Twice(v) + Cardinality(Pushed(U, v)) <= Cardinality(CameSince(U, v))
      <3>1. Twice(v) + Cardinality(Pushed(T, v)) <= Cardinality(CameSince(T, v))
        BY DEF Whole
      <3>2. QED
        BY <3>1, <1>11, <1>12, <1>13
    <2>4. QED
      BY <1>6, <2>1, <2>2, <2>3 DEF Whole
  <1>15. QED
    BY <1>14

\* A task that is made may push one that is listed into the piece that is read next.
LEMMA MadeKeepsWhole ==
  ASSUME NEW T \in Told, NEW v \in Views, Whole(T, v), NEW x \in Analyses, T[x] = "new",
         \A a \in Remaining(T) : a < x
  PROVE  Whole([T EXCEPT ![x] = "there"], v)
  <1> DEFINE U == [T EXCEPT ![x] = "there"]
             place(a) == FromTop(Remaining(T), a)
             read == v.page * PieceSize
  <1>1. /\ U \in Told /\ Remaining(U) = Remaining(T) \cup {x}
        /\ \A a \in Remaining(T) : FromTop(Remaining(U), a) = place(a) + 1
    BY MadeMoves
  <1>2. \A a \in Analyses : U[a] = IF a = x THEN "there" ELSE T[a]
    BY DEF Told
  <1>3. \A a \in Remaining(T) : place(a) \in Nat
    BY Places
  <1>4. read \in Nat
    BY ViewSizes
  <1>5. v.known[x] = "new" /\ x \notin Shown(v)
    <2>1. v.known[x] \in {"new", "there", "gone"}
      BY DEF Views, Told
    <2>2. QED
      BY <2>1 DEF Whole, KnownBefore
  <1>6. KnownBefore(U, v)
    BY <1>2, <1>5 DEF Whole, KnownBefore
  <1>7. WentSince(U, v) = WentSince(T, v)
    BY <1>2 DEF WentSince
  <1>8. Cardinality(Skipped(U, v)) <= Cardinality(Skipped(T, v))
    <2>1. ASSUME NEW a \in Skipped(U, v)
          PROVE  a \in Skipped(T, v)
      <3>1. a \in Remaining(T) /\ v.known[a] = "there" /\ a \notin Shown(v) /\ FromTop(Remaining(U), a) <= read
        BY <1>1, <1>5 DEF Skipped
      <3>2. place(a) <= read
        <4> HIDE DEF place, read, U
        <4>1. QED
          BY <1>1, <1>3, <1>4, <3>1
      <3>3. QED
        BY <3>1, <3>2 DEF Skipped
    <2>2. Skipped(U, v) \in SUBSET Skipped(T, v)
      BY <2>1
    <2>3. QED
      BY <2>2, NotMore, SetsOfTasks
  <1>9. Lacks(U, v) = Lacks(T, v)
    BY <1>1, <1>5 DEF Lacks
  <1>10. \E z : Pushed(U, v) \subseteq Pushed(T, v) \cup {z}
    <2>1. ASSUME NEW a \in Pushed(U, v)
          PROVE  a \in Pushed(T, v) \/ (a \in Remaining(T) /\ place(a) = read)
      <3>1. a \in Remaining(T) /\ a \in Shown(v) /\ FromTop(Remaining(U), a) > read
        BY <1>1, <1>5 DEF Pushed
      <3>2. place(a) > read \/ place(a) = read
        <4> HIDE DEF place, read, U
        <4>1. QED
          BY <1>1, <1>3, <1>4, <3>1
      <3>3. QED
        BY <3>1, <3>2 DEF Pushed
    <2>2. \A a, b \in Remaining(T) : place(a) = read /\ place(b) = read => a = b
      BY Places
    <2>3. CASE \E z \in Remaining(T) : place(z) = read
      <3>1. PICK z \in Remaining(T) : place(z) = read
        BY <2>3
      <3>2. Pushed(U, v) \subseteq Pushed(T, v) \cup {z}
        <4> HIDE DEF place, read, U
        <4>1. QED
          BY <2>1, <2>2, <3>1
      <3>3. QED
        BY <3>2
    <2>4. CASE ~ \E z \in Remaining(T) : place(z) = read
      <3> HIDE DEF place, read, U
      <3>1. QED
        BY <2>1, <2>4
    <2>5. QED
      BY <2>3, <2>4
  <1>11. Cardinality(Pushed(U, v)) <= Cardinality(Pushed(T, v)) + 1
    <2> HIDE DEF U
    <2>1. QED
      BY <1>1, <1>10, SetsOfTasks, OneMore
  <1>12. Cardinality(CameSince(U, v)) >= Cardinality(CameSince(T, v)) + 1
    <2>1. x \notin CameSince(T, v) /\ CameSince(T, v) \cup {x} \subseteq CameSince(U, v)
      BY <1>2, <1>5 DEF CameSince
    <2>2. QED
      BY <1>1, <2>1, SetsOfTasks, GrowsByOne
  <1>13. /\ Cardinality(Skipped(T, v)) \in Nat /\ Cardinality(Skipped(U, v)) \in Nat
         /\ Cardinality(Lacks(T, v)) \in Nat /\ Cardinality(WentSince(T, v)) \in Nat
         /\ Cardinality(Pushed(T, v)) \in Nat /\ Cardinality(Pushed(U, v)) \in Nat
         /\ Cardinality(CameSince(T, v)) \in Nat /\ Cardinality(CameSince(U, v)) \in Nat
         /\ Twice(v) \in Int /\ v.page \in Nat /\ v.pages \in Nat
    <2> HIDE DEF U
    <2>1. QED
      BY <1>1, SetsOfTasks, ViewSizes DEF Views
  <1>14. Whole(U, v)
    <2> HIDE DEF U
    <2>1. Cardinality(Skipped(U, v)) <= Cardinality(WentSince(U, v))
      <3>1. Cardinality(Skipped(T, v)) <= Cardinality(WentSince(T, v))
        BY DEF Whole
      <3>2. QED
        BY <3>1, <1>7, <1>8, <1>13
    <2>2. v.page >= v.pages => Cardinality(Lacks(U, v)) <= Cardinality(WentSince(U, v))
      <3>1. v.page >= v.pages => Cardinality(Lacks(T, v)) <= Cardinality(WentSince(T, v))
        BY DEF Whole
      <3>2. QED
        BY <3>1, <1>7, <1>9, <1>13
    <2>3. Twice(v) + Cardinality(Pushed(U, v)) <= Cardinality(CameSince(U, v))
      <3>1. Twice(v) + Cardinality(Pushed(T, v)) <= Cardinality(CameSince(T, v))
        BY DEF Whole
      <3>2. QED
        BY <3>1, <1>11, <1>12, <1>13
    <2>4. QED
      BY <1>6, <2>1, <2>2, <2>3 DEF Whole
  <1>15. QED
    BY <1>14

Tasked == [there : {"new", "there", "gone"}, title : TaskTitles, flow : BOOLEAN, solutions : SUBSET STRING]

\* The tasks of one piece of the list.
InPiece(T, p) ==
  {a \in Remaining(T) : /\ FromTop(Remaining(T), a) > (p - 1) * PieceSize
                        /\ FromTop(Remaining(T), a) <= p * PieceSize}

RowsOf(rows) == {rows[i].of : i \in DOMAIN rows}

LEMMA StandingOfTasks ==
  ASSUME analyses \in [Analyses -> Tasked]
  PROVE  /\ Standing \in Told
         /\ \A a \in Analyses : Standing[a] = analyses[a].there
         /\ Remaining(Standing) = {a \in Analyses : Kept(a)}
         /\ \A a \in Analyses : Rank(a) = FromTop(Remaining(Standing), a)
  <1>1. Standing \in Told /\ \A a \in Analyses : Standing[a] = analyses[a].there
    BY DEF Standing, Told, Tasked
  <1>2. Remaining(Standing) = {a \in Analyses : Kept(a)}
    BY <1>1 DEF Remaining, Kept
  <1>3. ASSUME NEW a \in Analyses
        PROVE  Rank(a) = FromTop(Remaining(Standing), a)
    <2>1. {b \in Analyses : Kept(b) /\ b >= a} = {b \in Remaining(Standing) : b >= a}
      BY <1>2
    <2>2. QED
      BY <2>1 DEF Rank, FromTop
  <1>4. QED
    BY <1>1, <1>2, <1>3

LEMMA RowsOfPiece ==
  ASSUME analyses \in [Analyses -> Tasked], NEW p \in Nat \ {0}
  PROVE  /\ Piece(p).rows \in Seq(ListRows) /\ Piece(p).pages \in Nat /\ Piece(p).known = Standing
         /\ RowsOf(Piece(p).rows) = InPiece(Standing, p)
         /\ Len(Piece(p).rows) <= Cardinality(InPiece(Standing, p))
         /\ p >= Piece(p).pages => p * PieceSize >= Cardinality(Remaining(Standing))
  <1> DEFINE K == Remaining(Standing)
             end == IF p * PieceSize < Cardinality(K) THEN p * PieceSize ELSE Cardinality(K)
             skipped == (p - 1) * PieceSize
             rows == [i \in 1 .. end - skipped |-> [of |-> TaskAt(skipped + i),
                                                   title |-> analyses[TaskAt(skipped + i)].title]]
             R == InPiece(Standing, p)
  <1>1. /\ K = {a \in Analyses : Kept(a)} /\ Standing \in Told /\ K \subseteq Analyses
        /\ \A a \in K : Rank(a) = FromTop(K, a)
    BY StandingOfTasks
  <1>2. /\ Cardinality(K) \in Nat /\ IsFiniteSet(K)
        /\ \A a \in K : FromTop(K, a) \in 1 .. Cardinality(K)
        /\ \A i \in 1 .. Cardinality(K) : \E a \in K : FromTop(K, a) = i
        /\ \A a, b \in K : FromTop(K, a) = FromTop(K, b) => a = b
    BY <1>1, Places
  <1>3. /\ PieceSize \in Nat \ {0} /\ p * PieceSize \in Nat /\ skipped \in Nat /\ end \in Nat
        /\ p * PieceSize = skipped + PieceSize
    BY <1>2, ArchiveAssumption
  <1>4. ASSUME NEW i \in 1 .. Cardinality(K)
        PROVE  TaskAt(i) \in K /\ FromTop(K, TaskAt(i)) = i
    <2>1. \E a \in Analyses : Kept(a) /\ Rank(a) = i
      BY <1>1, <1>2
    <2>2. TaskAt(i) \in Analyses /\ Kept(TaskAt(i)) /\ Rank(TaskAt(i)) = i
      BY <2>1 DEF TaskAt
    <2>3. QED
      BY <1>1, <2>2
  <1>5. Piece(p).rows = rows
    BY <1>1 DEF Piece
  <1>6. \A i \in 1 .. end - skipped : skipped + i \in 1 .. Cardinality(K) /\ skipped + i <= p * PieceSize
    <2> HIDE DEF skipped
    <2>1. QED
      BY <1>2, <1>3
  <1>7. \A i \in 1 .. end - skipped : rows[i] \in ListRows /\ rows[i].of \in R /\ FromTop(K, rows[i].of) = skipped + i
    <2> SUFFICES ASSUME NEW i \in 1 .. end - skipped
                 PROVE  rows[i] \in ListRows /\ rows[i].of \in R /\ FromTop(K, rows[i].of) = skipped + i
      OBVIOUS
    <2>1. TaskAt(skipped + i) \in K /\ FromTop(K, TaskAt(skipped + i)) = skipped + i
      BY <1>4, <1>6
    <2>2. rows[i] = [of |-> TaskAt(skipped + i), title |-> analyses[TaskAt(skipped + i)].title]
      OBVIOUS
    <2>3. rows[i] \in ListRows
      BY <1>1, <2>1, <2>2 DEF ListRows, Tasked
    <2>4. skipped + i > skipped /\ skipped + i <= p * PieceSize
      <3> HIDE DEF skipped
      <3>1. QED
        BY <1>3, <1>6
    <2>5. QED
      BY <2>1, <2>2, <2>3, <2>4 DEF InPiece
  <1>8. DOMAIN rows = 1 .. end - skipped
    OBVIOUS
  <1>9. rows \in Seq(ListRows) /\ (Len(rows) = 0 \/ Len(rows) = end - skipped) /\ Len(rows) \in Nat
        /\ DOMAIN rows = 1 .. Len(rows)
    <2> DEFINE n == end - skipped
    <2>1. n \in Int
      BY <1>3
    <2> DEFINE m == IF n >= 0 THEN n ELSE 0
    <2>2. m \in Nat /\ (m = 0 \/ m = n) /\ 1 .. n = 1 .. m
      BY <2>1
    <2>3. rows \in [1 .. m -> ListRows]
      BY <1>7, <1>8, <2>2
    <2>4. rows \in Seq(ListRows) /\ Len(rows) = m /\ DOMAIN rows = 1 .. m
      <3> HIDE DEF rows, m
      <3>1. QED
        BY <2>2, <2>3
    <2>5. QED
      BY <2>2, <2>4
  <1>10. RowsOf(rows) = R
    <2>1. ASSUME NEW a \in R
          PROVE  \E i \in 1 .. end - skipped : rows[i].of = a
      <3>1. /\ a \in K /\ FromTop(K, a) > skipped /\ FromTop(K, a) <= p * PieceSize
            /\ FromTop(K, a) \in 1 .. Cardinality(K)
        BY <1>2 DEF InPiece
      <3>2. PICK i \in 1 .. end - skipped : skipped + i = FromTop(K, a)
        <4> HIDE DEF skipped, K
        <4>1. FromTop(K, a) - skipped \in 1 .. end - skipped
          BY <1>2, <1>3, <3>1
        <4>2. skipped + (FromTop(K, a) - skipped) = FromTop(K, a)
          BY <1>3, <3>1
        <4>3. QED
          BY <4>1, <4>2
      <3>3. FromTop(K, rows[i].of) = FromTop(K, a) /\ rows[i].of \in K
        BY <1>7, <3>2 DEF InPiece
      <3>4. QED
        BY <1>2, <3>1, <3>3
    <2> HIDE DEF rows, R, skipped, end
    <2>2. QED
      BY <1>7, <1>8, <2>1 DEF RowsOf
  <1>11. Len(rows) <= Cardinality(R)
    <2>1. IsFiniteSet(R) /\ Cardinality(R) \in Nat
      <3>1. R \in SUBSET K
        BY DEF InPiece
      <3>2. QED
        BY <1>2, <3>1, FS_Subset, FS_CardinalityType
    <2> DEFINE f == [i \in 1 .. Len(rows) |-> rows[i].of]
    <2>2. \A i, j \in 1 .. Len(rows) : f[i] = f[j] => i = j
      <3> HIDE DEF rows, skipped, end, K
      <3>1. QED
        BY <1>3, <1>7, <1>8, <1>9
    <2>3. f \in [1 .. Len(rows) -> R]
      <3> HIDE DEF rows, skipped, end, R
      <3>1. QED
        BY <1>7, <1>8, <1>9
    <2>4. IsFiniteSet(1 .. Len(rows)) /\ Cardinality(1 .. Len(rows)) = Len(rows)
      <3> HIDE DEF rows, f
      <3>1. Len(rows) \in Nat
        BY <1>9
      <3>2. QED
        BY <3>1, UpTo
    <2>5. QED
      <3> HIDE DEF f, rows, R
      <3>1. SUFFICES ASSUME Cardinality(R) < Len(rows) PROVE FALSE
        BY <1>9, <2>1
      <3>2. PICK i, j \in 1 .. Len(rows) : i # j /\ f[i] = f[j]
        BY <2>1, <2>3, <2>4, <3>1, FS_PigeonHole
      <3>3. QED
        BY <2>2, <3>2
  <1>12. Piece(p).pages \in Nat /\ (p >= Piece(p).pages => p * PieceSize >= Cardinality(K)) /\ Piece(p).known = Standing
    <2>1. /\ Piece(p).pages = IF K = {} THEN 1 ELSE (Cardinality(K) + PieceSize - 1) \div PieceSize
          /\ Piece(p).known = Standing
      BY <1>1 DEF Piece, Standing
    <2>2. CASE K = {}
      BY <1>3, <2>1, <2>2, FS_EmptySet
    <2>3. CASE K # {}
      <3> HIDE DEF K
      <3>1. Cardinality(K) # 0
        BY <1>2, <2>3, FS_EmptySet
      <3>2. Piece(p).pages = (Cardinality(K) + PieceSize - 1) \div PieceSize
        BY <2>1, <2>3
      <3>3. (Cardinality(K) + PieceSize - 1) \div PieceSize \in Nat
        BY <1>2, <1>3, Rounded
      <3>4. QED
        BY <1>2, <1>3, <2>1, <3>2, <3>3, Rounded
    <2>4. QED
      BY <2>2, <2>3
  <1>13. QED
    BY <1>5, <1>9, <1>10, <1>11, <1>12

\* The next piece after a list.
LEMMA Appended ==
  ASSUME NEW l \in Seq(ListRows), NEW r \in Seq(ListRows)
  PROVE  /\ l \o r \in Seq(ListRows) /\ Len(l \o r) = Len(l) + Len(r) /\ Len(l) \in Nat /\ Len(r) \in Nat
         /\ RowsOf(l \o r) = RowsOf(l) \cup RowsOf(r)
         /\ RowsOf(l) \in SUBSET Analyses /\ RowsOf(r) \in SUBSET Analyses
  <1>1. /\ l \o r \in Seq(ListRows) /\ Len(l \o r) = Len(l) + Len(r) /\ Len(l) \in Nat /\ Len(r) \in Nat
        /\ DOMAIN l = 1 .. Len(l) /\ DOMAIN r = 1 .. Len(r) /\ DOMAIN (l \o r) = 1 .. Len(l) + Len(r)
    OBVIOUS
  <1>2. \A i \in 1 .. Len(l) + Len(r) : (l \o r)[i] = IF i <= Len(l) THEN l[i] ELSE r[i - Len(l)]
    OBVIOUS
  <1>3. /\ \A i \in DOMAIN l : i \in DOMAIN (l \o r) /\ (l \o r)[i] = l[i]
        /\ \A i \in DOMAIN r : Len(l) + i \in DOMAIN (l \o r) /\ (l \o r)[Len(l) + i] = r[i]
        /\ \A i \in DOMAIN (l \o r) : \/ i \in DOMAIN l /\ (l \o r)[i] = l[i]
                                      \/ i - Len(l) \in DOMAIN r /\ (l \o r)[i] = r[i - Len(l)]
    BY <1>1, <1>2
  <1>4. RowsOf(l \o r) = RowsOf(l) \cup RowsOf(r)
    <2> DEFINE s == l \o r
    <2>1. RowsOf(s) \subseteq RowsOf(l) \cup RowsOf(r)
      <3> HIDE DEF s
      <3>1. \A i \in DOMAIN s : (\E j \in DOMAIN l : s[i] = l[j]) \/ (\E j \in DOMAIN r : s[i] = r[j])
        BY <1>3 DEF s
      <3>2. QED
        BY <3>1 DEF RowsOf
    <2>2. RowsOf(l) \cup RowsOf(r) \subseteq RowsOf(s)
      <3> HIDE DEF s
      <3>1. /\ \A j \in DOMAIN l : \E i \in DOMAIN s : s[i] = l[j]
            /\ \A j \in DOMAIN r : \E i \in DOMAIN s : s[i] = r[j]
        BY <1>3 DEF s
      <3>2. QED
        BY <3>1 DEF RowsOf
    <2>3. QED
      BY <2>1, <2>2
  <1>5. \A s \in Seq(ListRows) : RowsOf(s) \in SUBSET Analyses
    <2>1. \A s \in Seq(ListRows) : \A i \in DOMAIN s : s[i] \in ListRows
      OBVIOUS
    <2>2. QED
      BY <2>1 DEF RowsOf, ListRows
  <1>6. QED
    BY <1>1, <1>4, <1>5

\* A piece counts from the latest task; what of it is listed had been pushed into it.
LEMMA PieceKeepsWhole ==
  ASSUME analyses \in [Analyses -> Tasked], NEW v \in Views, Whole(Standing, v)
  PROVE  Whole(Standing, [list |-> v.list \o Piece(v.page + 1).rows, page |-> v.page + 1,
                          pages |-> Piece(v.page + 1).pages, known |-> v.known])
  <1> DEFINE p == v.page + 1
             T == Standing
             rows == Piece(p).rows
             R == InPiece(T, p)
             w == [list |-> v.list \o rows, page |-> p, pages |-> Piece(p).pages, known |-> v.known]
             place(a) == FromTop(Remaining(T), a)
  <1>0. T \in Told /\ p \in Nat \ {0} /\ v.list \in Seq(ListRows) /\ v.page \in Nat /\ p - 1 = v.page
    BY StandingOfTasks DEF Views
  <1>1. /\ rows \in Seq(ListRows) /\ Piece(p).pages \in Nat /\ RowsOf(rows) = R /\ Len(rows) <= Cardinality(R)
        /\ p >= Piece(p).pages => p * PieceSize >= Cardinality(Remaining(T))
    BY <1>0, RowsOfPiece
  <1>2. /\ w \in Views /\ Shown(w) = Shown(v) \cup R /\ Len(w.list) = Len(v.list) + Len(rows)
        /\ Shown(v) \in SUBSET Analyses /\ Len(v.list) \in Nat /\ Len(rows) \in Nat
    <2>1. /\ v.list \o rows \in Seq(ListRows) /\ RowsOf(v.list \o rows) = RowsOf(v.list) \cup R
          /\ Len(v.list \o rows) = Len(v.list) + Len(rows) /\ Len(v.list) \in Nat /\ Len(rows) \in Nat
          /\ RowsOf(v.list) \in SUBSET Analyses
      <3> HIDE DEF rows
      <3>1. QED
        BY <1>0, <1>1, Appended
    <2>2. \A u : Shown(u) = RowsOf(u.list)
      BY DEF Shown, RowsOf
    <2>3. w \in Views
      <3> HIDE DEF rows
      <3>1. QED
        BY <1>0, <1>1, <2>1 DEF Views
    <2>4. QED
      <3> HIDE DEF rows
      <3>1. QED
        BY <2>1, <2>2, <2>3
  <1>3. w.page = p /\ w.pages = Piece(p).pages /\ w.known = v.known
    OBVIOUS
  <1>4. R \in SUBSET Remaining(T) /\ Remaining(T) \in SUBSET Analyses
    BY DEF InPiece, Remaining
  <1>5. /\ \A a \in Remaining(T) : place(a) \in Nat /\ place(a) <= Cardinality(Remaining(T))
        /\ Cardinality(Remaining(T)) \in Nat
    BY <1>0, Places
  <1>6. /\ v.page * PieceSize \in Nat /\ p * PieceSize \in Nat /\ PieceSize \in Nat
        /\ p * PieceSize = v.page * PieceSize + PieceSize
    BY <1>0, ArchiveAssumption
  <1>7. \A a \in Remaining(T) : a \in R <=> place(a) > v.page * PieceSize /\ place(a) <= p * PieceSize
    BY <1>0 DEF InPiece
  <1> HIDE DEF w, rows, R, place, p
  <1>8. KnownBefore(T, w)
    <2>1. \A a \in R : T[a] = "there"
      BY <1>4 DEF Remaining
    <2>2. QED
      BY <1>2, <1>3, <2>1 DEF Whole, KnownBefore
  <1>9. WentSince(T, w) = WentSince(T, v) /\ CameSince(T, w) = CameSince(T, v)
    BY <1>3 DEF WentSince, CameSince
  <1>10. Skipped(T, w) \in SUBSET Skipped(T, v)
    <2>1. ASSUME NEW a \in Skipped(T, w)
          PROVE  a \in Skipped(T, v)
      <3>1. a \in Remaining(T) /\ v.known[a] = "there" /\ a \notin Shown(v) /\ a \notin R /\ place(a) <= p * PieceSize
        BY <1>2, <1>3 DEF Skipped, place
      <3>2. place(a) <= v.page * PieceSize
        BY <1>5, <1>6, <1>7, <3>1
      <3>3. QED
        BY <3>1, <3>2 DEF Skipped, place
    <2>2. QED
      BY <2>1
  <1>11. w.page >= w.pages => Lacks(T, w) \in SUBSET Skipped(T, w)
    <2>1. ASSUME w.page >= w.pages, NEW a \in Lacks(T, w)
          PROVE  a \in Skipped(T, w)
      <3>1. a \in Remaining(T) /\ w.known[a] = "there" /\ a \notin Shown(w)
        BY <2>1 DEF Lacks
      <3>2. place(a) <= p * PieceSize
        BY <1>1, <1>3, <1>5, <1>6, <2>1, <3>1
      <3>3. QED
        BY <1>3, <3>1, <3>2 DEF Skipped, place
    <2>2. QED
      BY <2>1
  <1>12. Twice(w) + Cardinality(Pushed(T, w)) <= Twice(v) + Cardinality(Pushed(T, v))
    <2> DEFINE both == Shown(v) \cap R
    <2>1. Pushed(T, w) \cup both \subseteq Pushed(T, v)
      <3>1. ASSUME NEW a \in Pushed(T, w)
            PROVE  a \in Pushed(T, v)
        <4>1. a \in Remaining(T) /\ place(a) > p * PieceSize /\ a \in Shown(v) \cup R
          BY <1>2, <1>3 DEF Pushed, place
        <4>2. place(a) > v.page * PieceSize /\ a \notin R
          BY <1>5, <1>6, <1>7, <4>1
        <4>3. QED
          BY <4>1, <4>2 DEF Pushed, place
      <3>2. both \subseteq Pushed(T, v)
        BY <1>4, <1>7 DEF Pushed, place
      <3>3. QED
        BY <3>1, <3>2
    <2>2. Pushed(T, w) \cap both = {}
      <3>1. ASSUME NEW a \in Pushed(T, w), a \in R
            PROVE  FALSE
        <4>1. a \in Remaining(T) /\ place(a) > p * PieceSize
          BY <1>3 DEF Pushed, place
        <4>2. QED
          BY <1>5, <1>6, <1>7, <3>1, <4>1
      <3>2. QED
        BY <3>1
    <2>3. /\ \A S \in SUBSET Analyses : IsFiniteSet(S) /\ Cardinality(S) \in Nat
          /\ both \in SUBSET Analyses /\ Pushed(T, w) \in SUBSET Analyses /\ Pushed(T, v) \in SUBSET Analyses
          /\ R \in SUBSET Analyses
      BY <1>0, <1>2, <1>4, ViewSizes, SetsOfTasks
    <2>4. Cardinality(Pushed(T, w)) + Cardinality(both) <= Cardinality(Pushed(T, v))
      <3> HIDE DEF both
      <3>1. Cardinality(Pushed(T, w) \cup both) = Cardinality(Pushed(T, w)) + Cardinality(both)
        <4>1. Cardinality(Pushed(T, w) \cup both)
                = Cardinality(Pushed(T, w)) + Cardinality(both) - Cardinality(Pushed(T, w) \cap both)
          BY <2>3, FS_Union
        <4>2. Cardinality(Pushed(T, w) \cap both) = 0
          BY <2>2, FS_EmptySet
        <4>3. QED
          BY <2>3, <4>1, <4>2
      <3>2. Cardinality(Pushed(T, w) \cup both) <= Cardinality(Pushed(T, v))
        BY <2>1, <2>3, NotMore
      <3>3. QED
        BY <3>1, <3>2
    <2>5. Cardinality(Shown(w)) = Cardinality(Shown(v)) + Cardinality(R) - Cardinality(both)
      BY <1>2, <2>3, FS_Union
    <2>6. QED
      <3> HIDE DEF both
      <3>1. /\ Cardinality(R) \in Nat /\ Cardinality(both) \in Nat /\ Cardinality(Shown(v)) \in Nat
            /\ Cardinality(Pushed(T, w)) \in Nat /\ Cardinality(Pushed(T, v)) \in Nat
        BY <1>2, <2>3
      <3>2. QED
        BY <1>1, <1>2, <2>4, <2>5, <3>1 DEF Twice
  <1>13. Whole(T, w)
    <2>1. /\ Cardinality(Skipped(T, w)) <= Cardinality(Skipped(T, v)) /\ Cardinality(Skipped(T, v)) \in Nat
          /\ Cardinality(Skipped(T, w)) \in Nat
      BY <1>0, <1>10, NotMore, SetsOfTasks
    <2>2. w.page >= w.pages =>
            Cardinality(Lacks(T, w)) <= Cardinality(Skipped(T, w)) /\ Cardinality(Lacks(T, w)) \in Nat
      BY <1>0, <1>2, <1>11, NotMore, SetsOfTasks
    <2>3. /\ Cardinality(WentSince(T, v)) \in Nat /\ Cardinality(CameSince(T, v)) \in Nat
          /\ Cardinality(Pushed(T, v)) \in Nat /\ Cardinality(Pushed(T, w)) \in Nat
          /\ Twice(v) \in Int /\ Twice(w) \in Int
      BY <1>0, <1>2, ViewSizes, SetsOfTasks
    <2>4. Cardinality(Skipped(T, v)) <= Cardinality(WentSince(T, v))
      BY DEF Whole
    <2>5. Twice(v) + Cardinality(Pushed(T, v)) <= Cardinality(CameSince(T, v))
      BY DEF Whole
    <2>6. Cardinality(Skipped(T, w)) <= Cardinality(WentSince(T, w))
      BY <1>9, <2>1, <2>3, <2>4
    <2>7. w.page >= w.pages => Cardinality(Lacks(T, w)) <= Cardinality(WentSince(T, w))
      BY <1>9, <2>1, <2>2, <2>3, <2>6
    <2>8. Twice(w) + Cardinality(Pushed(T, w)) <= Cardinality(CameSince(T, w))
      BY <1>9, <1>12, <2>3, <2>5
    <2>9. QED
      BY <1>2, <1>8, <2>6, <2>7, <2>8 DEF Whole
  <1>14. QED
    BY <1>13 DEF w, rows, p

\* Nothing is missed when rows of a task that is gone are taken out of a list, or
\* others take the place of rows of the same tasks.
LEMMA FewerKeepWhole ==
  ASSUME NEW T \in Told, NEW v \in Views, Whole(T, v), NEW w \in Views,
         w.page = v.page, w.pages = v.pages, w.known = v.known,
         Shown(w) \in SUBSET Shown(v), \A a \in Shown(v) : a \in Shown(w) \/ T[a] = "gone",
         Twice(w) <= Twice(v)
  PROVE  Whole(T, w)
  <1>1. KnownBefore(T, w)
    BY DEF Whole, KnownBefore
  <1>2. /\ WentSince(T, w) = WentSince(T, v) /\ CameSince(T, w) = CameSince(T, v)
        /\ Skipped(T, w) = Skipped(T, v) /\ Lacks(T, w) = Lacks(T, v)
    BY DEF WentSince, CameSince, Skipped, Lacks, Remaining
  <1>3. Pushed(T, w) \in SUBSET Pushed(T, v)
    BY DEF Pushed
  <1>4. /\ Cardinality(Pushed(T, w)) <= Cardinality(Pushed(T, v))
        /\ Cardinality(Pushed(T, w)) \in Nat /\ Cardinality(Pushed(T, v)) \in Nat
        /\ Cardinality(CameSince(T, v)) \in Nat /\ Twice(v) \in Int /\ Twice(w) \in Int
    BY <1>3, NotMore, SetsOfTasks, ViewSizes
  <1>5. Twice(w) + Cardinality(Pushed(T, w)) <= Cardinality(CameSince(T, w))
    <2>1. Twice(v) + Cardinality(Pushed(T, v)) <= Cardinality(CameSince(T, v))
      BY DEF Whole
    <2>2. QED
      BY <1>2, <1>4, <2>1
  <1>6. QED
    BY <1>1, <1>2, <1>5 DEF Whole

\* A list without the rows of a task.
LEMMA WithoutRows ==
  ASSUME NEW l \in Seq(ListRows), NEW x
  PROVE  /\ WithoutTask(l, x) \in Seq(ListRows)
         /\ RowsOf(WithoutTask(l, x)) = RowsOf(l) \ {x}
         /\ Len(WithoutTask(l, x)) <= Len(l)
         /\ x \in RowsOf(l) => Len(WithoutTask(l, x)) <= Len(l) - 1
  <1> DEFINE rest == {i \in DOMAIN l : l[i].of # x}
             place(n) == CHOOSE i \in rest : FromBottom(rest, i) = n
             w == [n \in 1 .. Cardinality(rest) |-> l[place(n)]]
  <1>1. WithoutTask(l, x) = w
    BY DEF WithoutTask, FromBottom
  <1>2. Len(l) \in Nat /\ DOMAIN l = 1 .. Len(l) /\ \A i \in DOMAIN l : l[i] \in ListRows
    OBVIOUS
  <1>3. rest \in SUBSET DOMAIN l
    OBVIOUS
  <1>4. IsFiniteSet(DOMAIN l) /\ Cardinality(DOMAIN l) = Len(l)
    BY <1>2, UpTo
  <1>5. IsFiniteSet(rest) /\ Cardinality(rest) <= Len(l) /\ rest \in SUBSET Nat
    <2> HIDE DEF rest
    <2>1. QED
      BY <1>2, <1>3, <1>4, FS_Subset
  <1>6. /\ Cardinality(rest) \in Nat
        /\ \A i \in rest : FromBottom(rest, i) \in 1 .. Cardinality(rest)
        /\ \A i, j \in rest : FromBottom(rest, i) = FromBottom(rest, j) => i = j
        /\ \A n \in 1 .. Cardinality(rest) : \E i \in rest : FromBottom(rest, i) = n
    <2> HIDE DEF rest
    <2>1. QED
      BY <1>5, BottomPlaces
  <1>7. \A n \in 1 .. Cardinality(rest) : place(n) \in rest /\ FromBottom(rest, place(n)) = n
    <2> HIDE DEF rest
    <2>1. QED
      BY <1>6
  <1>8. w \in Seq(ListRows) /\ Len(w) = Cardinality(rest) /\ DOMAIN w = 1 .. Cardinality(rest)
    <2>1. w \in [1 .. Cardinality(rest) -> ListRows]
      <3> HIDE DEF rest, place
      <3>1. QED
        BY <1>2, <1>3, <1>7
    <2> HIDE DEF w
    <2>2. QED
      BY <1>6, <2>1
  <1>9. RowsOf(w) \subseteq RowsOf(l) \ {x}
    <2>1. \A n \in DOMAIN w : w[n] = l[place(n)] /\ place(n) \in DOMAIN l /\ l[place(n)].of # x
      BY <1>7, <1>8
    <2> HIDE DEF w, place
    <2>2. QED
      BY <2>1 DEF RowsOf
  <1>10. RowsOf(l) \ {x} \subseteq RowsOf(w)
    <2> SUFFICES ASSUME NEW i \in DOMAIN l, l[i].of # x
                 PROVE  \E n \in DOMAIN w : w[n] = l[i]
      <3> HIDE DEF w
      <3>1. QED
        BY DEF RowsOf
    <2>1. i \in rest
      OBVIOUS
    <2> DEFINE n == FromBottom(rest, i)
    <2>2. n \in 1 .. Cardinality(rest)
      <3> HIDE DEF rest
      <3>1. QED
        BY <1>6, <2>1
    <2>3. place(n) = i
      <3> HIDE DEF rest
      <3>1. QED
        BY <1>6, <1>7, <2>1, <2>2
    <2>4. n \in DOMAIN w /\ w[n] = l[i]
      <3> HIDE DEF rest, place, n
      <3>1. QED
        BY <1>8, <2>2, <2>3
    <2>5. QED
      BY <2>4
  <1>11. x \in RowsOf(l) => Cardinality(rest) <= Len(l) - 1
    <2> SUFFICES ASSUME NEW i \in DOMAIN l, l[i].of = x
                 PROVE  Cardinality(rest) <= Len(l) - 1
      BY DEF RowsOf
    <2>1. rest \in SUBSET ((1 .. Len(l)) \ {i}) /\ i \in 1 .. Len(l)
      BY <1>2
    <2> HIDE DEF rest
    <2>2. IsFiniteSet(1 .. Len(l)) /\ Cardinality(1 .. Len(l)) = Len(l)
      BY <1>2, UpTo
    <2>3. IsFiniteSet((1 .. Len(l)) \ {i}) /\ Cardinality((1 .. Len(l)) \ {i}) = Len(l) - 1
      BY <2>1, <2>2, FS_RemoveElement
    <2>4. Cardinality(rest) <= Cardinality((1 .. Len(l)) \ {i})
      BY <2>1, <2>3, FS_Subset
    <2>5. QED
      BY <2>3, <2>4
  <1>12. QED
    <2> HIDE DEF w, rest
    <2>1. QED
      BY <1>1, <1>5, <1>8, <1>9, <1>10, <1>11

LEMMA RenamedRows ==
  ASSUME NEW l \in Seq(ListRows), NEW x, NEW title \in TaskTitles
  PROVE  LET r == [i \in DOMAIN l |-> IF l[i].of = x THEN [of |-> x, title |-> title] ELSE l[i]]
         IN  r \in Seq(ListRows) /\ RowsOf(r) = RowsOf(l) /\ Len(r) = Len(l)
  <1> DEFINE r == [i \in DOMAIN l |-> IF l[i].of = x THEN [of |-> x, title |-> title] ELSE l[i]]
  <1>1. Len(l) \in Nat /\ DOMAIN l = 1 .. Len(l) /\ \A i \in DOMAIN l : l[i] \in ListRows
    OBVIOUS
  <1>2. \A i \in DOMAIN l : r[i] \in ListRows /\ r[i].of = l[i].of
    <2> SUFFICES ASSUME NEW i \in DOMAIN l PROVE r[i] \in ListRows /\ r[i].of = l[i].of
      OBVIOUS
    <2>1. r[i] = IF l[i].of = x THEN [of |-> x, title |-> title] ELSE l[i]
      OBVIOUS
    <2> HIDE DEF r
    <2>2. QED
      BY <1>1, <2>1 DEF ListRows
  <1>3. r \in [1 .. Len(l) -> ListRows] /\ DOMAIN r = DOMAIN l
    BY <1>1, <1>2
  <1> HIDE DEF r
  <1>4. r \in Seq(ListRows) /\ Len(r) = Len(l)
    BY <1>1, <1>3
  <1>5. RowsOf(r) = RowsOf(l)
    BY <1>2, <1>3 DEF RowsOf
  <1>6. QED
    BY <1>4, <1>5 DEF r

\* Rows that are read already, or come as the next piece, follow those that change.
LEMMA ChangedKeepWhole ==
  ASSUME NEW T \in Told, NEW v \in Views, Whole(T, v), NEW l \in Seq(ListRows), NEW r \in Seq(ListRows),
         v.list = l \o r, NEW k \in Seq(ListRows), NEW w \in Views,
         w.list = k \o r, w.page = v.page, w.pages = v.pages, w.known = v.known,
         \/ RowsOf(k) = RowsOf(l) /\ Len(k) = Len(l)
         \/ \E x \in Analyses : T[x] = "gone" /\ k = WithoutTask(l, x)
  PROVE  Whole(T, w)
  <1>1. w.page = v.page /\ w.pages = v.pages /\ w.known = v.known /\ w.list = k \o r
    OBVIOUS
  <1>2. /\ Shown(v) = RowsOf(l) \cup RowsOf(r) /\ Len(v.list) = Len(l) + Len(r)
        /\ Shown(w) = RowsOf(k) \cup RowsOf(r) /\ Len(w.list) = Len(k) + Len(r)
        /\ Len(l) \in Nat /\ Len(r) \in Nat /\ Len(k) \in Nat
        /\ RowsOf(l) \in SUBSET Analyses /\ RowsOf(r) \in SUBSET Analyses /\ RowsOf(k) \in SUBSET Analyses
    <2>1. \A u : Shown(u) = RowsOf(u.list)
      BY DEF Shown, RowsOf
    <2>2. QED
      BY <1>1, <2>1, Appended
  <1>3. CASE RowsOf(k) = RowsOf(l) /\ Len(k) = Len(l)
    <2>1. Shown(w) = Shown(v) /\ Twice(w) = Twice(v) /\ Twice(v) \in Int
      BY <1>2, <1>3, ViewSizes DEF Twice
    <2>2. Shown(w) \in SUBSET Shown(v) /\ \A a \in Shown(v) : a \in Shown(w) \/ T[a] = "gone"
      BY <2>1
    <2>3. \A i, j \in Int : i = j => i <= j
      OBVIOUS
    <2>4. Twice(w) <= Twice(v)
      BY <2>1, <2>3
    <2>5. QED
      BY <1>1, <2>2, <2>4, FewerKeepWhole
  <1>4. ASSUME NEW x \in Analyses, T[x] = "gone", k = WithoutTask(l, x)
        PROVE  Whole(T, w)
    <2>1. RowsOf(k) = RowsOf(l) \ {x} /\ Len(k) <= Len(l) /\ (x \in RowsOf(l) => Len(k) <= Len(l) - 1)
      BY <1>4, WithoutRows
    <2>2. Shown(w) \in SUBSET Shown(v) /\ \A a \in Shown(v) : a \in Shown(w) \/ T[a] = "gone"
      BY <1>2, <1>4, <2>1
    <2>3. Shown(v) \in SUBSET Analyses /\ Shown(w) \in SUBSET Analyses
      BY <1>2
    <2>4. Cardinality(Shown(v)) \in Nat /\ Cardinality(Shown(w)) \in Nat
      BY <2>3, NotMore
    <2>5. Twice(w) <= Twice(v)
      <3>1. CASE x \in RowsOf(l)
        <4>1. Shown(v) \subseteq Shown(w) \cup {x}
          BY <1>2, <2>1
        <4>2. Cardinality(Shown(v)) <= Cardinality(Shown(w)) + 1
          BY <2>3, <4>1, OneMore
        <4>3. QED
          BY <1>2, <2>1, <2>4, <3>1, <4>2 DEF Twice
      <3>2. CASE x \notin RowsOf(l)
        <4>1. Shown(v) = Shown(w)
          BY <1>2, <2>1, <3>2
        <4>2. Len(w.list) <= Len(v.list) /\ Len(w.list) \in Nat /\ Len(v.list) \in Nat
          BY <1>2, <2>1
        <4>3. QED
          BY <2>4, <4>1, <4>2 DEF Twice
      <3>3. QED
        BY <3>1, <3>2
    <2>6. QED
      BY <1>1, <2>2, <2>5, FewerKeepWhole
  <1>5. QED
    BY <1>3, <1>4

-----------------------------------------------------------------------------
(* The requests of the list of the archive                                 *)

OfList(m) == m.by = "archive" /\ m.here
OfPiece(m) == OfList(m) /\ m.kind = "piece"

OnePiece == \A m, o \in net : OfPiece(m) /\ OfPiece(o) => m = o

ListKinds == {"piece", "rename", "drop"}
ListAsks == \A m \in net : OfList(m) => m.kind \in ListKinds

\* Of the list's requests, msgs holds some that are under way, as they are or refused.
Carried(msgs) ==
  /\ \A o \in msgs : OfList(o) =>
       \E m \in net : OfList(m) /\ SameQuestion(o, m) /\ o.answer \in {m.answer, Refused}
  /\ \A o, p \in msgs : OfPiece(o) /\ OfPiece(p) => o = p

LEMMA CarriedSome ==
  ASSUME NEW S, Carried(S), NEW R, \A o \in R : o \in S \/ ~OfList(o)
  PROVE  Carried(R)
  BY DEF Carried, OfPiece

LEMMA CarriedNet ==
  ASSUME RequestsAreRecords, OnePiece, NEW R, \A o \in R : o \in net \/ ~OfList(o)
  PROVE  Carried(R)
  <1>1. Carried(net)
    BY DEF RequestsAreRecords, OnePiece, Carried, SameQuestion
  <1>2. QED
    BY <1>1, CarriedSome

LEMMA CarriedAnd ==
  ASSUME NEW S, Carried(S), NEW by, by # "archive", NEW kind, NEW of, NEW with
  PROVE  Carried(And(S, by, kind, of, with))
  <1>1. \A o \in And(S, by, kind, of, with) : o \in S \/ ~OfList(o)
    BY AndFresh DEF Fresh, OfList
  <1>2. QED
    BY <1>1, CarriedSome

LEMMA CarriedWithout ==
  ASSUME NEW S, Carried(S), \A m \in S : DOMAIN m = Fields, NEW by
  PROVE  Carried(Without(by, S))
  <1> DEFINE e(m) == [m EXCEPT !.here = @ /\ m.by \notin by]
  <1>0. Without(by, S) = {e(m) : m \in S}
    BY DEF Without
  <1>1. \A m \in S : /\ DOMAIN e(m) = Fields /\ e(m).by = m.by /\ e(m).kind = m.kind /\ e(m).of = m.of
                     /\ e(m).with = m.with /\ e(m).answer = m.answer /\ (e(m).here => m.here)
    BY DEF Fields
  <1> HIDE DEF e
  <1>2. ASSUME NEW o \in Without(by, S), OfList(o)
        PROVE  \E m \in S : OfList(m) /\ o = e(m)
    BY <1>0, <1>1, <1>2 DEF OfList
  <1>3. ASSUME NEW o \in Without(by, S), OfList(o)
        PROVE  \E m \in net : OfList(m) /\ SameQuestion(o, m) /\ o.answer \in {m.answer, Refused}
    <2>1. PICK p \in S : OfList(p) /\ o = e(p)
      BY <1>2, <1>3
    <2>2. PICK m \in net : OfList(m) /\ SameQuestion(p, m) /\ p.answer \in {m.answer, Refused}
      BY <2>1 DEF Carried
    <2>3. SameQuestion(o, m) /\ o.answer = p.answer
      BY <1>1, <2>1, <2>2 DEF SameQuestion
    <2>4. QED
      BY <2>2, <2>3
  <1>4. ASSUME NEW o \in Without(by, S), NEW p \in Without(by, S), OfPiece(o), OfPiece(p)
        PROVE  o = p
    <2>1. PICK m \in S : OfList(m) /\ o = e(m)
      BY <1>2, <1>4 DEF OfPiece
    <2>2. PICK q \in S : OfList(q) /\ p = e(q)
      BY <1>2, <1>4 DEF OfPiece
    <2>3. OfPiece(m) /\ OfPiece(q)
      BY <1>1, <1>4, <2>1, <2>2 DEF OfPiece
    <2>4. m = q
      BY <2>3 DEF Carried
    <2>5. QED
      BY <2>1, <2>2, <2>4
  <1>5. QED
    BY <1>3, <1>4 DEF Carried

\* Whatever is answered to another, and also when the answer is lost.
LEMMA CarriedDone ==
  ASSUME RequestsAreRecords, OnePiece, NEW m \in net, NEW answer, Done(m, answer), ~OfList(m) \/ answer = Refused
  PROVE  Carried(net')
  <1> DEFINE told == [m EXCEPT !.answer = answer]
  <1>1. SameQuestion(told, m) /\ told.answer = answer /\ (OfList(told) <=> OfList(m)) /\ (OfPiece(told) <=> OfPiece(m))
    BY DEF RequestsAreRecords, SameQuestion, Fields, OfList, OfPiece
  <1>2. net' = (net \ {m}) \cup {told}
    BY DEF Done
  <1>3. \A o \in net : SameQuestion(o, o)
    BY DEF RequestsAreRecords, SameQuestion
  <1> HIDE DEF told
  <1>4. QED
    BY <1>1, <1>2, <1>3 DEF Carried, OnePiece, OfPiece

LEMMA CarriedCrash ==
  ASSUME RequestsAreRecords, OnePiece, Crash
  PROVE  Carried(net')
  <1> DEFINE told(m) == [m EXCEPT !.answer = IF Answered(m) THEN @ ELSE Refused]
  <1>1. \A m \in net : /\ SameQuestion(told(m), m) /\ told(m).answer \in {m.answer, Refused}
                       /\ (OfList(told(m)) <=> OfList(m)) /\ (OfPiece(told(m)) <=> OfPiece(m))
    BY DEF RequestsAreRecords, SameQuestion, Fields, OfList, OfPiece
  <1>2. net' = {told(m) : m \in net}
    BY DEF Crash
  <1> HIDE DEF told
  <1>3. QED
    BY <1>1, <1>2 DEF Carried, OnePiece

-----------------------------------------------------------------------------
(* The other pages leave them alone                                        *)

LEMMA ServicesCarry ==
  ASSUME RequestsAreRecords, OnePiece, ServicesUser
  PROVE  Carried(net')
  <1> USE DEF CatalogStep, SectionStep
  <1>0. Carried(net)
    BY CarriedNet
  <1>1. ASSUME NEW S, Carried(S)
        PROVE  /\ Carried(ReadsCatalog(S)) /\ \A c \in Capabilities : Carried(ReadsSection(c, S))
    <2>1. \A c \in Capabilities : c # "archive"
      BY DEF Capabilities
    <2>2. QED
      BY <1>1, <2>1, CarriedAnd DEF ReadsCatalog, ReadsSection
  <1>2. CASE OpenCatalog
    BY <1>0, <1>1, <1>2 DEF OpenCatalog
  <1>3. CASE LeaveCatalog
    <2> DEFINE f(m) == [m EXCEPT !.by = IF @ = "form" THEN "catalog" ELSE @]
    <2>1. \A m \in net : /\ DOMAIN f(m) = Fields /\ SameQuestion(f(m), m) /\ f(m).answer = m.answer
                         /\ (OfList(f(m)) <=> OfList(m)) /\ (OfPiece(f(m)) <=> OfPiece(m))
      BY DEF RequestsAreRecords, SameQuestion, Fields, OfList, OfPiece
    <2>2. OfCatalog(net) = {f(m) : m \in net}
      BY DEF OfCatalog
    <2> HIDE DEF f
    <2>3. Carried(OfCatalog(net)) /\ \A o \in OfCatalog(net) : DOMAIN o = Fields
      BY <2>1, <2>2 DEF Carried, OnePiece
    <2>4. QED
      BY <1>3, <2>3, CarriedWithout DEF LeaveCatalog
  <1>4. CASE OpenAddForm \/ CloseForm
    BY <1>0, <1>4, CarriedWithout DEF OpenAddForm, CloseForm, RequestsAreRecords
  <1>5. CASE DetectModels
    BY <1>0, <1>5, CarriedAnd DEF DetectModels
  <1>6. CASE SaveForm
    BY <1>0, <1>6, CarriedAnd DEF SaveForm
  <1>7. CASE OpenSections
    BY <1>0, <1>1, <1>7 DEF OpenSections, Capabilities
  <1>8. CASE LeaveSections
    BY <1>0, <1>8, CarriedWithout DEF LeaveSections, RequestsAreRecords
  <1>9. ASSUME NEW p \in Providers, CheckProvider(p) \/ DeleteProvider(p)
        PROVE  Carried(net')
    BY <1>0, <1>9, CarriedAnd DEF CheckProvider, DeleteProvider
  <1>10. ASSUME NEW p \in Providers, OpenEditForm(p) \/ \E protocol \in Protocols : FillForm(p, protocol)
         PROVE  Carried(net')
    BY <1>0, <1>10 DEF OpenEditForm, FillForm
  <1>11. ASSUME NEW c \in Capabilities, NEW p \in Providers, AddService(c, p)
         PROVE  Carried(net')
    BY <1>0, <1>11, CarriedAnd DEF AddService, Capabilities
  <1>12. ASSUME NEW c \in Capabilities, NEW i \in 1 .. Cardinality(Providers),
                RemoveService(c, i) \/ ToggleService(c, i) \/ DragStart(c, i) \/ Drop(c, i)
         PROVE  Carried(net')
    BY <1>0, <1>12, CarriedAnd DEF RemoveService, ToggleService, DragStart, Drop, Capabilities
  <1>13. ASSUME NEW c \in Capabilities, DragEnd(c)
         PROVE  Carried(net')
    BY <1>0, <1>13 DEF DragEnd
  <1>14. QED
    BY <1>2, <1>3, <1>4, <1>5, <1>6, <1>7, <1>8, <1>9, <1>10, <1>11, <1>12, <1>13 DEF ServicesUser

LEMMA ServicesAnswersCarry ==
  ASSUME RequestsAreRecords, OnePiece, QueuesAreNamed, NEW m \in net, DeliverServices(m)
  PROVE  Carried(net')
  <1> USE DEF CatalogStep, SectionStep
  <1>1. ASSUME NEW S, Carried(S)
        PROVE  /\ Carried(ReadsCatalog(S)) /\ \A c \in Capabilities : Carried(ReadsSection(c, S))
    <2>1. \A c \in Capabilities : c # "archive"
      BY DEF Capabilities
    <2>2. QED
      BY <1>1, <2>1, CarriedAnd DEF ReadsCatalog, ReadsSection
  <1>2. \A S \in SUBSET net : Carried(S) /\ \A o \in S : DOMAIN o = Fields
    BY CarriedNet DEF RequestsAreRecords
  <1>3. CASE CatalogAnswered(m)
    BY <1>1, <1>2, <1>3 DEF CatalogAnswered
  <1>4. CASE FormAnswered(m)
    <2>1. net' = net \ {m} \/ net' = ReadsCatalog(Without({"form"}, net \ {m}))
      BY <1>4 DEF FormAnswered
    <2>2. Carried(Without({"form"}, net \ {m}))
      BY <1>2, CarriedWithout
    <2>3. QED
      BY <1>1, <1>2, <2>1, <2>2
  <1>5. CASE QueueAnswered(m)
    BY <1>1, <1>2, <1>5 DEF QueueAnswered, Loads, QueuesAreNamed, QueueKinds
  <1>6. CASE LoadAnswered(m)
    BY <1>2, <1>6 DEF LoadAnswered
  <1>7. QED
    BY <1>3, <1>4, <1>5, <1>6 DEF DeliverServices

LEMMA VideosCarry ==
  ASSUME RequestsAreRecords, OnePiece,
         VideosUser \/ PollRound \/ (\E t \in Tasks : RemoteEnds(t) \/ Ages(t) \/ Query(t) \/ QueryFails(t))
         \/ \E m \in net : DeliverVideos(m)
  PROVE  Carried(net')
  <1> USE DEF VideoStep, ReadsTasks
  <1>0. Carried(net)
    BY CarriedNet
  <1>1. CASE OpenVideo
    <2>1. Carried(And(net, "video page", "options", None, None))
      BY <1>0, CarriedAnd
    <2>2. QED
      BY <1>1, <2>1, CarriedAnd DEF OpenVideo
  <1>2. CASE LeaveVideo
    BY <1>0, <1>2, CarriedWithout DEF LeaveVideo, RequestsAreRecords
  <1>3. CASE Generate \/ PollVideo
    <2>1. CASE Generate
      BY <1>0, <2>1, CarriedAnd DEF Generate
    <2>2. CASE PollVideo
      BY <1>0, <2>2, CarriedAnd DEF PollVideo
    <2>3. QED
      BY <1>3, <2>1, <2>2
  <1>4. ASSUME NEW t \in Tasks, SelectTask(t)
        PROVE  Carried(net')
    BY <1>0, <1>4 DEF SelectTask
  <1>5. CASE PollRound \/ \E t \in Tasks : RemoteEnds(t) \/ Ages(t) \/ Query(t) \/ QueryFails(t)
    BY <1>0, <1>5 DEF PollRound, RemoteEnds, Ages, Query, QueryFails
  <1>6. ASSUME NEW m \in net, DeliverVideos(m)
        PROVE  Carried(net')
    <2>1. net' = net \ {m} \/ net' = And(net \ {m}, "video form", "tasks", None, None)
      BY <1>6 DEF DeliverVideos
    <2>2. Carried(net \ {m})
      BY CarriedNet
    <2>3. QED
      BY <2>1, <2>2, CarriedAnd
  <1>7. QED
    BY <1>1, <1>2, <1>3, <1>4, <1>5, <1>6 DEF VideosUser

LEMMA PatentsCarry ==
  ASSUME RequestsAreRecords, OnePiece, PatentsUser
  PROVE  Carried(net')
  <1> USE DEF DeskStep, ViewStep
  <1>0. Carried(net)
    BY CarriedNet
  <1>1. /\ \A k : Carried(ReadsDesk(k, net))
        /\ \A kind, of, title, number : Carried(Changes(kind, of, title, number))
    BY <1>0, CarriedAnd DEF ReadsDesk, Changes
  <1>2. ASSUME NEW k, NEW n, ReadsView(k, n)
        PROVE  Carried(net')
    <2>1. net' = And(net, "view", "patents", 0, [query |-> k.typed, page |-> n])
      BY <1>2 DEF ReadsView
    <2>2. QED
      BY <1>0, <2>1, CarriedAnd
  <1>3. CASE OpenDesk
    BY <1>1, <1>3 DEF OpenDesk
  <1>4. CASE LeaveDesk \/ LeaveView
    BY <1>0, <1>4, CarriedWithout DEF LeaveDesk, LeaveView, RequestsAreRecords
  <1>5. CASE OpenCreate \/ CloseDesk \/ ToastEnds \/ CloseDetail
    BY <1>0, <1>5 DEF OpenCreate, CloseDesk, ToastEnds, CloseDetail
  <1>6. CASE SaveDesk
    BY <1>1, <1>6 DEF SaveDesk
  <1>7. CASE OpenView \/ Search \/ Retry
    BY <1>2, <1>7 DEF OpenView, Search, Retry
  <1>8. ASSUME NEW q \in Queries, SearchDesk(q) \/ Type(q)
        PROVE  Carried(net')
    BY <1>0, <1>1, <1>8 DEF SearchDesk, Type, Shows
  <1>9. ASSUME NEW title \in Titles, FillDesk(title)
        PROVE  Carried(net')
    BY <1>0, <1>9 DEF FillDesk
  <1>10. ASSUME NEW number \in Numbers \cup {None}, Upload(number)
         PROVE  Carried(net')
    BY <1>1, <1>10 DEF Upload
  <1>11. ASSUME NEW i \in 1 .. PageSize, OpenEdit(i) \/ MarkDelete(i) \/ ConfirmDelete(i) \/ Select(i)
         PROVE  Carried(net')
    BY <1>0, <1>1, <1>11 DEF OpenEdit, MarkDelete, ConfirmDelete, Select
  <1>12. ASSUME NEW n \in 1 .. Cardinality(Patents), TurnDesk(n) \/ TurnView(n)
         PROVE  Carried(net')
    BY <1>0, <1>1, <1>2, <1>12 DEF TurnDesk, TurnView, Shows
  <1>13. QED
    BY <1>3, <1>4, <1>5, <1>6, <1>7, <1>8, <1>9, <1>10, <1>11, <1>12 DEF PatentsUser

LEMMA PatentsAnswersCarry ==
  ASSUME RequestsAreRecords, OnePiece, NEW m \in net, DeliverPatents(m)
  PROVE  Carried(net')
  <1>0. Carried(net \ {m})
    BY CarriedNet
  <1>1. \/ net' = net \ {m}
        \/ net' = And(net \ {m}, "desk", "patents", 0, [query |-> m.with.query, page |-> m.with.page])
    BY DEF DeliverPatents, DeskAnswered, ViewAnswered, DeskStep, ViewStep
  <1>2. QED
    BY <1>0, <1>1, CarriedAnd

LEMMA UsersCarry ==
  ASSUME RequestsAreRecords, OnePiece, PeopleUser
  PROVE  Carried(net')
  <1> USE DEF PeopleStep, ReadsAccounts
  <1>0. Carried(net)
    BY CarriedNet
  <1>1. CASE OpenPeople
    BY <1>0, <1>1, CarriedAnd DEF OpenPeople
  <1>2. CASE LeavePeople
    BY <1>0, <1>2, CarriedWithout DEF LeavePeople, RequestsAreRecords
  <1>3. CASE ToggleSelectAll \/ ClearSelection \/ CancelDeed \/ CloseDialog
    BY <1>0, <1>3 DEF ToggleSelectAll, ClearSelection, CancelDeed, CloseDialog
  <1>4. CASE ConfirmDeed
    <2>1. PICK with : net' = net \cup {Request("people", people.deed.kind, u, with, net) : u \in people.deed.of}
      BY <1>4 DEF ConfirmDeed
    <2>2. \A u : ~OfList(Request("people", people.deed.kind, u, with, net))
      BY RequestFresh DEF Fresh, OfList
    <2>3. \A o \in net' : o \in net \/ ~OfList(o)
      BY <2>1, <2>2
    <2>4. QED
      BY <2>3, CarriedNet
  <1>5. CASE SaveEdit \/ SendNotice
    BY <1>0, <1>5, CarriedAnd DEF SaveEdit, SendNotice
  <1>6. ASSUME NEW kind, NEW of, NEW active, NEW batch, Asks(kind, of, active, batch)
        PROVE  Carried(net')
    BY <1>0, <1>6 DEF Asks
  <1>7. ASSUME NEW active, NEW super, FillEdit(active, super)
        PROVE  Carried(net')
    BY <1>0, <1>7 DEF FillEdit
  <1>8. ASSUME NEW u, NEW kind, ToggleSelect(u) \/ OpenDialog(kind, u)
        PROVE  Carried(net')
    BY <1>0, <1>8 DEF ToggleSelect, OpenDialog
  <1>9. QED
    BY <1>1, <1>2, <1>3, <1>4, <1>5, <1>6, <1>7, <1>8 DEF PeopleUser, AskBatch, AskOne

LEMMA UsersAnswersCarry ==
  ASSUME RequestsAreRecords, OnePiece, NEW m \in net, DeliverUsers(m)
  PROVE  Carried(net')
  <1> USE DEF PeopleStep
  <1>0. \A S \in SUBSET net : Carried(S) /\ Carried(ReadsAccounts(S))
    <2>1. \A S \in SUBSET net : Carried(S)
      BY CarriedNet
    <2>2. QED
      BY <2>1, CarriedAnd DEF ReadsAccounts
  <1>1. CASE net' = (net \ Same(m)) \cup {[p EXCEPT !.here = FALSE] : p \in Same(m) \ {m}}
    <2>1. \A p \in Same(m) : ~OfList([p EXCEPT !.here = FALSE])
      BY DEF Same, OfList, RequestsAreRecords, Fields
    <2>2. \A o \in net' : o \in net \/ ~OfList(o)
      BY <1>1, <2>1
    <2>3. QED
      BY <2>2, CarriedNet
  <1>2. \/ net' = (net \ Same(m)) \cup {[p EXCEPT !.here = FALSE] : p \in Same(m) \ {m}}
        \/ net' = net \ {m} \/ net' = ReadsAccounts(net \ {m}) \/ net' = ReadsAccounts(net \ Same(m))
    BY DEF DeliverUsers, DeedAnswered, DialogAnswered
  <1>3. QED
    BY <1>0, <1>1, <1>2

LEMMA ServersCarry ==
  ASSUME RequestsAreRecords, OnePiece, ListAsks, OnlyFilesAreParsed, NEW m \in net,
         ServesServices(m) \/ ServesVideos(m) \/ ServesPatents(m) \/ ServesUsers(m)
  PROVE  Carried(net')
  <1>1. \E answer : Done(m, answer) /\ m.kind \in ServiceKinds \cup VideoKinds \cup PatentKinds \cup UserKinds
    <2>1. CASE ServesServices(m)
      BY <2>1 DEF ServesServices, ServesCatalog, ServesQueue, ServiceKinds
    <2>2. CASE ServesVideos(m)
      BY <2>2 DEF ServesVideos, StartsTask, EndsStart, VideoKinds
    <2>3. CASE ServesPatents(m)
      BY <2>3 DEF ServesPatents, EndsUpload, OnlyFilesAreParsed, PatentKinds, Parsing
    <2>4. CASE ServesUsers(m)
      BY <2>4 DEF ServesUsers, UserKinds, Stranger, Deeds
    <2>5. QED
      BY <2>1, <2>2, <2>3, <2>4
  <1>2. ~OfList(m)
    BY <1>1 DEF ListAsks, ListKinds, ServiceKinds, VideoKinds, PatentKinds, UserKinds
  <1>3. QED
    BY <1>1, <1>2, CarriedDone


LEMMA OthersCarry ==
  ASSUME RequestsOK, OnePiece, ListAsks, [Next]_vars,
         ~OnArchive(ArchiveUser), ~OnArchive(Appears), \A m \in net : ~OnArchive(ServesArchive(m) \/ DeliverArchive(m))
  PROVE  Carried(net') /\ UNCHANGED archiveVars
  <1>0. RequestsAreRecords /\ QueuesAreNamed /\ OnlyFilesAreParsed
    BY DEF RequestsOK, RequestOK, RequestsAreRecords, QueuesAreNamed, OnlyFilesAreParsed
  <1>1. CASE Users
    <2>1. UNCHANGED archiveVars /\ (ServicesUser \/ VideosUser \/ PatentsUser \/ PeopleUser)
      BY <1>1 DEF Users, OnServices, OnVideos, OnPatents, OnUsers
    <2>2. QED
      BY <1>0, <2>1, ServicesCarry, VideosCarry, PatentsCarry, UsersCarry
  <1>2. CASE OnVideos(VideosServer)
    <2>1. UNCHANGED archiveVars /\ VideosServer
      BY <1>2 DEF OnVideos
    <2>2. QED
      BY <1>0, <2>1, VideosCarry, CarriedCrash DEF VideosServer
  <1>3. ASSUME NEW m \in net, Serve(m)
        PROVE  Carried(net') /\ UNCHANGED archiveVars
    <2>1. /\ UNCHANGED archiveVars
          /\ ServesServices(m) \/ ServesVideos(m) \/ ServesPatents(m) \/ ServesUsers(m)
      BY <1>3 DEF Serve, OnServices, OnVideos, OnPatents, OnUsers, OnArchive
    <2>2. QED
      BY <1>0, <2>1, ServersCarry
  <1>4. ASSUME NEW m \in net, Deliver(m)
        PROVE  Carried(net') /\ UNCHANGED archiveVars
    <2>1. /\ UNCHANGED archiveVars
          /\ DeliverServices(m) \/ DeliverVideos(m) \/ DeliverPatents(m) \/ DeliverUsers(m)
      BY <1>4 DEF Deliver, OnServices, OnVideos, OnPatents, OnUsers, OnArchive
    <2>2. QED
      BY <1>0, <2>1, ServicesAnswersCarry, VideosCarry, PatentsAnswersCarry, UsersAnswersCarry
  <1>5. ASSUME NEW m \in net, Lose(m), UNCHANGED archiveVars
        PROVE  Carried(net') /\ UNCHANGED archiveVars
    BY <1>0, <1>5, CarriedDone DEF Lose
  <1>6. CASE UNCHANGED vars
    BY <1>0, <1>6, CarriedNet DEF vars
  <1>7. QED
    BY <1>1, <1>2, <1>3, <1>4, <1>5, <1>6 DEF Next

-----------------------------------------------------------------------------
(* The list of the archive and its requests                                *)

Archives ==
  [open : BOOLEAN, list : Seq(ListRows), page : Nat, pages : Nat, loading : BOOLEAN, more : BOOLEAN,
   editing : Nat, asking : Nat, known : Told]

InOrder == \A a, b \in Analyses : analyses[a].there = "new" /\ analyses[b].there # "new" => b < a

TasksOK == analyses \in [Analyses -> Tasked] /\ InOrder

\* The list as it is, and as it will be with the piece that a request brings.
NowOf(k) == [list |-> k.list, page |-> k.page, pages |-> k.pages, known |-> k.known]

WithPiece(k, m) ==
  IF k.loading
  THEN [list |-> m.answer.data.rows, page |-> 1, pages |-> m.answer.data.pages, known |-> m.answer.data.known]
  ELSE [list |-> k.list \o m.answer.data.rows, page |-> m.of, pages |-> m.answer.data.pages, known |-> k.known]

\* Nothing was read, or nothing could be.
Unread(k) == Len(k.list) = 0 /\ k.page = 1 /\ \A a \in Analyses : k.known[a] = "gone"

ListFits(T, k) ==
  /\ k \in Archives
  /\ k.asking # NoAnalysis => k.open
  /\ k.loading => Unread(k) /\ ~k.more
  /\ (Unread(k) /\ ~k.more) \/ Whole(T, NowOf(k))

\* A piece is asked for when one is waited for, and is the next one; what was
\* answered keeps the list whole; what was deleted is gone.
PieceFits(T, k, m) ==
  /\ k.loading \/ k.more
  /\ m.of = IF k.loading THEN 1 ELSE k.page + 1
  /\ Ok(m) => m.answer.data.rows \in Seq(ListRows) /\ Whole(T, WithPiece(k, m))

AskFits(T, k, m) ==
  /\ k.open /\ m.kind \in ListKinds
  /\ m.kind = "piece" => PieceFits(T, k, m)
  /\ m.kind = "rename" /\ Ok(m) => m.answer.data \in TaskTitles
  /\ m.kind = "drop" /\ Ok(m) => m.of \in Analyses /\ T[m.of] = "gone"

ArchiveOK ==
  /\ TasksOK
  /\ ListFits(Standing, archive)
  /\ \A m \in net : OfList(m) => AskFits(Standing, archive, m)
  /\ OnePiece

LEMMA AskStays ==
  ASSUME NEW T, NEW k, NEW m, AskFits(T, k, m), NEW o, SameQuestion(o, m), o.answer \in {m.answer, Refused}
  PROVE  AskFits(T, k, o)
  <1>1. o.kind = m.kind /\ o.of = m.of
    BY DEF SameQuestion
  <1>2. CASE o.answer = m.answer
    <2>1. Ok(o) <=> Ok(m)
      BY <1>2 DEF Ok
    <2>2. WithPiece(k, o) = WithPiece(k, m)
      BY <1>1, <1>2 DEF WithPiece
    <2>3. QED
      BY <1>1, <1>2, <2>1, <2>2 DEF AskFits, PieceFits
  <1>3. CASE o.answer = Refused
    BY <1>1, <1>3 DEF AskFits, PieceFits, Ok, Refused
  <1>4. QED
    BY <1>2, <1>3

\* Requests that go on, or are lost, while nothing of the archive changes.
LEMMA CarriedKeeps ==
  ASSUME ArchiveOK, Carried(net'), analyses' = analyses, archive' = archive
  PROVE  ArchiveOK'
  <1>1. TasksOK' /\ ListFits(Standing, archive)'
    BY DEF ArchiveOK, TasksOK, InOrder, Standing
  <1>2. ASSUME NEW o \in net', OfList(o)
        PROVE  AskFits(Standing, archive, o)
    <2>1. PICK m \in net : OfList(m) /\ SameQuestion(o, m) /\ o.answer \in {m.answer, Refused}
      BY <1>2 DEF Carried
    <2>2. AskFits(Standing, archive, m)
      BY <2>1 DEF ArchiveOK
    <2>3. QED
      BY <2>1, <2>2, AskStays
  <1>3. Standing' = Standing
    BY DEF Standing
  <1>4. OnePiece'
    BY DEF Carried, OnePiece, OfPiece, OfList
  <1>5. \A o \in net' : OfList(o) => AskFits(Standing', archive', o)
    BY <1>2, <1>3
  <1>6. QED
    BY <1>1, <1>4, <1>5 DEF ArchiveOK, OfList, AskFits, PieceFits, WithPiece, Ok, ListFits

\* What keeps every list whole keeps this one whole.
LEMMA TasksChange ==
  ASSUME NEW T \in Told, NEW U \in Told, \A v \in Views : Whole(T, v) => Whole(U, v),
         \A a \in Analyses : T[a] = "gone" => U[a] = "gone", NEW k
  PROVE  /\ ListFits(T, k) => ListFits(U, k)
         /\ \A m : AskFits(T, k, m) => AskFits(U, k, m)
  <1>1. \A v : Whole(T, v) => Whole(U, v)
    BY DEF Whole
  <1>2. ListFits(T, k) => ListFits(U, k)
    BY <1>1 DEF ListFits
  <1>3. ASSUME NEW m, AskFits(T, k, m)
        PROVE  AskFits(U, k, m)
    BY <1>1, <1>3 DEF AskFits, PieceFits
  <1>4. QED
    BY <1>2, <1>3

-----------------------------------------------------------------------------
(* The server keeps the list whole                                         *)

LEMMA AnswerKeeps ==
  ASSUME RequestsAreRecords, ArchiveOK, NEW m \in net, NEW answer, Done(m, answer), archive' = archive, TasksOK',
         \A v \in Views : Whole(Standing, v) => Whole(Standing', v),
         \A a \in Analyses : Standing[a] = "gone" => Standing'[a] = "gone",
         OfList(m) => AskFits(Standing', archive, [m EXCEPT !.answer = answer])
  PROVE  ArchiveOK'
  <1> DEFINE told == [m EXCEPT !.answer = answer]
  <1>1. (OfList(told) <=> OfList(m)) /\ (OfPiece(told) <=> OfPiece(m))
    BY DEF RequestsAreRecords, Fields, OfList, OfPiece
  <1>2. net' = (net \ {m}) \cup {told}
    BY DEF Done
  <1>3. Standing \in Told /\ Standing' \in Told
    BY DEF ArchiveOK, TasksOK, Standing, Told, Tasked
  <1>4. ListFits(Standing', archive) /\ \A o \in net : OfList(o) => AskFits(Standing', archive, o)
    BY <1>3, TasksChange DEF ArchiveOK
  <1> HIDE DEF told
  <1>5. \A o \in net' : OfList(o) => AskFits(Standing', archive, o)
    BY <1>1, <1>2, <1>4 DEF told
  <1>6. OnePiece'
    <2>1. \A o, p \in net' : OfPiece(o) /\ OfPiece(p) => o = p
      BY <1>1, <1>2 DEF ArchiveOK, OnePiece
    <2>2. QED
      BY <2>1 DEF OnePiece, OfPiece, OfList
  <1>7. QED
    BY <1>4, <1>5, <1>6 DEF ArchiveOK, OfList, AskFits, PieceFits, WithPiece, Ok, ListFits

\* A list that is read from now on.
LEMMA BeginsWhole ==
  ASSUME NEW T \in Told
  PROVE  Whole(T, [list |-> <<>>, page |-> 0, pages |-> 1, known |-> T])
  <1> DEFINE v == [list |-> <<>>, page |-> 0, pages |-> 1, known |-> T]
  <1>1. v \in Views
    BY DEF Views
  <1>2. v.list = <<>> /\ v.page = 0 /\ v.pages = 1 /\ v.known = T
    OBVIOUS
  <1> HIDE DEF v
  <1>3. Shown(v) = {} /\ Len(v.list) = 0
    BY <1>2 DEF Shown
  <1>4. KnownBefore(T, v)
    BY <1>2, <1>3 DEF KnownBefore
  <1>5. PieceSize \in Nat /\ 0 * PieceSize = 0
    BY ArchiveAssumption
  <1>6. /\ \A a \in Remaining(T) : FromTop(Remaining(T), a) \in 1 .. Cardinality(Remaining(T))
        /\ Cardinality(Remaining(T)) \in Nat
    BY Places
  <1>7. Skipped(T, v) = {} /\ Pushed(T, v) = {}
    BY <1>2, <1>3, <1>5, <1>6 DEF Skipped, Pushed
  <1>8. Cardinality(WentSince(T, v)) \in Nat /\ Cardinality(CameSince(T, v)) \in Nat
    BY <1>1, SetsOfTasks, ViewSizes
  <1>9. Cardinality({}) = 0
    BY FS_EmptySet
  <1>10. Twice(v) = 0 /\ ~(v.page >= v.pages)
    BY <1>2, <1>3, <1>9 DEF Twice
  <1>11. Whole(T, v)
    BY <1>1, <1>4, <1>7, <1>8, <1>9, <1>10 DEF Whole
  <1>12. QED
    BY <1>11 DEF v

LEMMA PieceServed ==
  ASSUME ArchiveOK, NEW m \in net, OfPiece(m), NEW o, SameQuestion(o, m), o.answer = Success(Piece(m.of))
  PROVE  AskFits(Standing, archive, o)
  <1> DEFINE p == m.of
             fresh == [list |-> <<>>, page |-> 0, pages |-> 1, known |-> Standing]
  <1>1. /\ AskFits(Standing, archive, m) /\ ListFits(Standing, archive) /\ analyses \in [Analyses -> Tasked]
        /\ o.kind = "piece" /\ o.of = p /\ m.kind = "piece"
    BY DEF ArchiveOK, TasksOK, OfPiece, SameQuestion
  <1>2. archive.open /\ (archive.loading \/ archive.more) /\ p = IF archive.loading THEN 1 ELSE archive.page + 1
    BY <1>1 DEF AskFits, PieceFits
  <1>3. archive.page \in Nat /\ p \in Nat \ {0} /\ Standing \in Told
    BY <1>1, <1>2, StandingOfTasks DEF ListFits, Archives
  <1>4. o.answer.data = Piece(p) /\ Piece(p).rows \in Seq(ListRows) /\ Piece(p).known = Standing
    BY <1>1, <1>3, RowsOfPiece DEF Success
  <1>5. Whole(Standing, WithPiece(archive, o))
    <2>1. CASE archive.loading
      <3>1. Whole(Standing, fresh) /\ fresh \in Views
        BY <1>3, BeginsWhole DEF Views
      <3>2. fresh.list \o Piece(1).rows = Piece(1).rows
        <4> HIDE DEF fresh
        <4>1. p = 1 /\ fresh.list = <<>>
          BY <1>2, <2>1 DEF fresh
        <4>2. QED
          BY <1>4, <4>1
      <3>3. Whole(Standing, [list |-> fresh.list \o Piece(fresh.page + 1).rows, page |-> fresh.page + 1,
                             pages |-> Piece(fresh.page + 1).pages, known |-> fresh.known])
        <4> HIDE DEF fresh
        <4>1. QED
          BY <1>1, <3>1, PieceKeepsWhole
      <3>4. fresh.page + 1 = 1 /\ fresh.known = Standing /\ p = 1
        BY <1>2, <2>1
      <3>5. WithPiece(archive, o) = [list |-> Piece(1).rows, page |-> 1, pages |-> Piece(1).pages, known |-> Standing]
        BY <1>4, <2>1, <3>4 DEF WithPiece
      <3> HIDE DEF fresh
      <3>6. QED
        BY <3>2, <3>3, <3>4, <3>5
    <2>2. CASE ~archive.loading
      <3> DEFINE v == NowOf(archive)
      <3>1. Whole(Standing, v) /\ v \in Views /\ p = v.page + 1
        BY <1>1, <1>2, <2>2 DEF ListFits, Whole, NowOf
      <3>2. v.list = archive.list /\ v.known = archive.known
        BY DEF NowOf
      <3>3. WithPiece(archive, o) = [list |-> v.list \o Piece(v.page + 1).rows, page |-> v.page + 1,
                                     pages |-> Piece(v.page + 1).pages, known |-> v.known]
        <4> HIDE DEF v
        <4>1. QED
          BY <1>1, <1>4, <2>2, <3>1, <3>2 DEF WithPiece
      <3> HIDE DEF v
      <3>4. QED
        BY <1>1, <3>1, <3>3, PieceKeepsWhole
    <2>3. QED
      BY <2>1, <2>2
  <1>6. QED
    BY <1>1, <1>2, <1>4, <1>5 DEF AskFits, PieceFits

LEMMA ServerKeeps ==
  ASSUME RequestsOK, ArchiveOK, NEW m \in net, ServesArchive(m)
  PROVE  ArchiveOK'
  <1>0. RequestsAreRecords /\ (m.kind = "rename" => m.with \in Renames) /\ archive' = archive
    BY DEF RequestsOK, RequestOK, RequestsAreRecords, ServesArchive
  <1>1. \A answer : LET o == [m EXCEPT !.answer = answer]
                    IN SameQuestion(o, m) /\ o.answer = answer /\ (OfList(o) <=> OfList(m))
    BY <1>0 DEF RequestsAreRecords, SameQuestion, Fields, OfList
  <1>2. OfList(m) => AskFits(Standing, archive, m)
    BY DEF ArchiveOK
  <1>3. /\ analyses \in [Analyses -> Tasked] /\ Standing \in Told
        /\ \A a \in Analyses : Standing[a] = analyses[a].there
    BY StandingOfTasks DEF ArchiveOK, TasksOK
  <1>4. ASSUME UNCHANGED analyses, NEW answer, Done(m, answer),
               \/ m.kind = "piece" /\ answer = Success(Piece(m.of))
               \/ m.kind \in {"solutions", "flow", "risk"} \/ answer = Refused
        PROVE  ArchiveOK'
    <2>1. OfList(m) => AskFits(Standing, archive, [m EXCEPT !.answer = answer])
      <3>1. CASE m.kind = "piece" /\ answer = Success(Piece(m.of))
        BY <1>1, <3>1, PieceServed DEF OfPiece
      <3>2. CASE m.kind \in {"solutions", "flow", "risk"}
        BY <1>2, <3>2 DEF AskFits, ListKinds
      <3>3. CASE answer = Refused
        BY <1>1, <1>2, <3>3, AskStays
      <3>4. QED
        BY <1>4, <3>1, <3>2, <3>3
    <2>2. Standing' = Standing /\ TasksOK'
      BY <1>4 DEF ArchiveOK, TasksOK, InOrder, Standing
    <2>3. QED
      BY <1>0, <1>4, <2>1, <2>2, AnswerKeeps
  <1>5. CASE /\ m.kind = "rename" /\ Kept(m.of) /\ analyses' = [analyses EXCEPT ![m.of].title = m.with]
             /\ Done(m, Success(m.with))
    <2>1. m.of \in Analyses /\ m.with \in TaskTitles
      BY <1>0, <1>5 DEF Kept, TaskTitles
    <2>2. analyses' \in [Analyses -> Tasked] /\ \A a \in Analyses : analyses'[a].there = analyses[a].there
      BY <1>3, <1>5, <2>1 DEF Tasked
    <2>3. Standing' = Standing /\ TasksOK'
      BY <2>2 DEF ArchiveOK, TasksOK, InOrder, Standing
    <2>4. OfList(m) => AskFits(Standing, archive, [m EXCEPT !.answer = Success(m.with)])
      BY <1>1, <1>2, <1>5, <2>1 DEF AskFits, Success, SameQuestion
    <2>5. QED
      BY <1>0, <1>5, <2>3, <2>4, AnswerKeeps
  <1>6. CASE /\ m.kind = "drop" /\ Kept(m.of) /\ analyses' = [analyses EXCEPT ![m.of].there = "gone"]
             /\ Done(m, Success("deleted"))
    <2>1. m.of \in Analyses /\ Standing[m.of] = "there"
      BY <1>3, <1>6 DEF Kept
    <2>2. /\ analyses' \in [Analyses -> Tasked]
          /\ \A a \in Analyses : analyses'[a].there = IF a = m.of THEN "gone" ELSE analyses[a].there
      BY <1>3, <1>6, <2>1 DEF Tasked
    <2>3. Standing' = [Standing EXCEPT ![m.of] = "gone"]
      BY <1>3, <2>1, <2>2 DEF Standing
    <2>4. TasksOK'
      BY <1>3, <2>1, <2>2 DEF ArchiveOK, TasksOK, InOrder
    <2>5. m.of \in Remaining(Standing)
      BY <2>1 DEF Remaining
    <2>6. \A v \in Views : Whole(Standing, v) => Whole(Standing', v)
      BY <1>3, <2>3, <2>5, GoneKeepsWhole
    <2>7. Standing'[m.of] = "gone" /\ \A a \in Analyses : Standing[a] = "gone" => Standing'[a] = "gone"
      BY <1>3, <2>1, <2>3 DEF Told
    <2>8. OfList(m) => AskFits(Standing', archive, [m EXCEPT !.answer = Success("deleted")])
      BY <1>1, <1>2, <1>6, <2>1, <2>7 DEF AskFits, SameQuestion
    <2>9. QED
      BY <1>0, <1>6, <2>4, <2>6, <2>7, <2>8, AnswerKeeps
  <1>7. \/ /\ UNCHANGED analyses
           /\ \E answer : /\ Done(m, answer)
                          /\ \/ m.kind = "piece" /\ answer = Success(Piece(m.of))
                             \/ m.kind \in {"solutions", "flow", "risk"} \/ answer = Refused
        \/ /\ m.kind = "rename" /\ Kept(m.of) /\ analyses' = [analyses EXCEPT ![m.of].title = m.with]
           /\ Done(m, Success(m.with))
        \/ /\ m.kind = "drop" /\ Kept(m.of) /\ analyses' = [analyses EXCEPT ![m.of].there = "gone"]
           /\ Done(m, Success("deleted"))
    BY DEF ServesArchive
  <1>8. QED
    BY <1>4, <1>5, <1>6, <1>7

LEMMA AppearsKeeps ==
  ASSUME ArchiveOK, Appears
  PROVE  ArchiveOK'
  <1>1. PICK x \in Analyses : /\ analyses[x].there = "new" /\ \A b \in Analyses : b < x => analyses[b].there # "new"
                              /\ analyses' = [analyses EXCEPT ![x].there = "there"]
    BY DEF Appears
  <1>2. archive' = archive /\ net' = net
    BY DEF Appears
  <1>3. /\ analyses \in [Analyses -> Tasked] /\ Standing \in Told
        /\ \A a \in Analyses : Standing[a] = analyses[a].there
    BY StandingOfTasks DEF ArchiveOK, TasksOK
  <1>4. /\ analyses' \in [Analyses -> Tasked]
        /\ \A a \in Analyses : analyses'[a].there = IF a = x THEN "there" ELSE analyses[a].there
    BY <1>1, <1>3 DEF Tasked
  <1>5. Standing' = [Standing EXCEPT ![x] = "there"] /\ Standing' \in Told
    BY <1>3, <1>4 DEF Standing, Told
  <1>6. Analyses \subseteq Nat
    BY ArchiveAssumption
  <1>7. TasksOK'
    <2>1. \A a, b \in Analyses : analyses'[a].there = "new" /\ analyses'[b].there # "new" => b < a
      BY <1>1, <1>4, <1>6 DEF ArchiveOK, TasksOK, InOrder
    <2>2. QED
      BY <1>4, <2>1 DEF TasksOK, InOrder
  <1>8. \A a \in Remaining(Standing) : a < x
    BY <1>1, <1>3 DEF Remaining, ArchiveOK, TasksOK, InOrder
  <1>9. \A v \in Views : Whole(Standing, v) => Whole(Standing', v)
    BY <1>1, <1>3, <1>5, <1>8, MadeKeepsWhole
  <1>10. \A a \in Analyses : Standing[a] = "gone" => Standing'[a] = "gone"
    BY <1>1, <1>3, <1>5 DEF Told
  <1>11. ListFits(Standing', archive) /\ \A o \in net : OfList(o) => AskFits(Standing', archive, o)
    BY <1>3, <1>5, <1>9, <1>10, TasksChange DEF ArchiveOK
  <1>12. QED
    BY <1>2, <1>7, <1>11 DEF ArchiveOK, OfList, AskFits, PieceFits, WithPiece, Ok, ListFits, OnePiece, OfPiece

-----------------------------------------------------------------------------
(* The page keeps the list whole                                           *)

LEMMA PageKeeps ==
  ASSUME ArchiveOK, analyses' = analyses, ListFits(Standing, archive'),
         \A o \in net' : OfList(o) => AskFits(Standing, archive', o),
         \A o, p \in net' : OfPiece(o) /\ OfPiece(p) => o = p
  PROVE  ArchiveOK'
  <1>1. Standing' = Standing /\ TasksOK'
    BY DEF ArchiveOK, TasksOK, InOrder, Standing
  <1>2. OnePiece'
    BY DEF OnePiece, OfPiece, OfList
  <1>3. QED
    BY <1>1, <1>2 DEF ArchiveOK, OfList, AskFits, PieceFits, WithPiece, Ok, ListFits

\* What the list is judged by does not change with a row that is edited or asked about.
LEMMA SameList ==
  ASSUME NEW T, NEW k \in Archives, NEW l \in Archives, ListFits(T, k),
         NowOf(l) = NowOf(k), l.open = k.open, l.loading = k.loading, l.more = k.more,
         l.asking # NoAnalysis => l.open
  PROVE  ListFits(T, l) /\ \A m : AskFits(T, k, m) => AskFits(T, l, m)
  <1>1. l.list = k.list /\ l.page = k.page /\ l.pages = k.pages /\ l.known = k.known
    BY DEF NowOf
  <1>2. (Unread(l) <=> Unread(k)) /\ \A m : WithPiece(l, m) = WithPiece(k, m)
    BY <1>1 DEF Unread, WithPiece
  <1>3. QED
    BY <1>1, <1>2 DEF ListFits, AskFits, PieceFits

LEMMA NothingListed ==
  /\ ClosedArchive \in Archives /\ Unread(ClosedArchive) /\ ~ClosedArchive.loading /\ ~ClosedArchive.more
  /\ LET k == [ClosedArchive EXCEPT !.open = TRUE, !.loading = TRUE]
     IN k \in Archives /\ Unread(k) /\ k.loading /\ ~k.more /\ k.open
  /\ ClosedArchive.asking = NoAnalysis
  <1>1. [a \in Analyses |-> "gone"] \in Told /\ NoAnalysis \in Nat /\ <<>> \in Seq(ListRows) /\ Len(<<>>) = 0
    BY DEF Told, NoAnalysis
  <1>2. QED
    BY <1>1 DEF ClosedArchive, Archives, Unread

LEMMA OpenArchiveKeeps ==
  ASSUME RequestsAreRecords, ArchiveOK, OpenArchive
  PROVE  ArchiveOK'
  <1> DEFINE k == [ClosedArchive EXCEPT !.open = TRUE, !.loading = TRUE]
             asked == Request("archive", "piece", 1, None, net)
  <1>1. archive' = k /\ net' = net \cup {asked} /\ analyses' = analyses /\ ~archive.open
    BY DEF OpenArchive, ArchiveStep, ReadsPiece, And
  <1>2. Fresh(asked, "archive", "piece", 1, None)
    BY RequestFresh
  <1>3. k \in Archives /\ Unread(k) /\ k.loading /\ ~k.more /\ k.open
    BY NothingListed
  <1> HIDE DEF k, asked
  <1>4. \A o \in net : ~OfList(o)
    BY <1>1 DEF ArchiveOK, AskFits
  <1>5. AskFits(Standing, k, asked) /\ ListFits(Standing, k)
    BY <1>2, <1>3 DEF Fresh, AskFits, PieceFits, ListFits, ListKinds, Ok, Waiting
  <1>6. \A o \in net' : OfList(o) => o = asked
    BY <1>1, <1>4
  <1>7. \A o, p \in net' : OfPiece(o) /\ OfPiece(p) => o = p
    BY <1>6 DEF OfPiece
  <1>8. QED
    BY <1>1, <1>5, <1>6, <1>7, PageKeeps

LEMMA LeaveArchiveKeeps ==
  ASSUME RequestsAreRecords, ArchiveOK, LeaveArchive
  PROVE  ArchiveOK'
  <1>1. archive' = ClosedArchive /\ net' = Without({"archive", "detail"}, net) /\ analyses' = analyses
    BY DEF LeaveArchive, ArchiveStep
  <1>2. \A o \in net' : ~OfList(o)
    BY <1>1 DEF Without, OfList, RequestsAreRecords, Fields
  <1>3. ListFits(Standing, ClosedArchive)
    BY NothingListed DEF ListFits
  <1>4. QED
    BY <1>1, <1>2, <1>3, PageKeeps DEF OfPiece

LEMMA LoadMoreKeeps ==
  ASSUME RequestsAreRecords, ArchiveOK, LoadMore
  PROVE  ArchiveOK'
  <1> DEFINE k == [archive EXCEPT !.more = TRUE]
             asked == Request("archive", "piece", archive.page + 1, None, net)
  <1>1. /\ archive' = k /\ net' = net \cup {asked} /\ analyses' = analyses
        /\ archive.open /\ ~archive.loading /\ ~archive.more /\ archive.list # <<>>
    BY DEF LoadMore, ListShown, ArchiveStep, ReadsPiece, And
  <1>2. Fresh(asked, "archive", "piece", archive.page + 1, None)
    BY RequestFresh
  <1>3. archive \in Archives /\ archive.list \in Seq(ListRows)
    BY DEF ArchiveOK, ListFits, Archives
  <1>4. ~Unread(archive)
    BY <1>1, <1>3, EmptySeq DEF Unread
  <1>5. Whole(Standing, NowOf(archive))
    BY <1>4 DEF ArchiveOK, ListFits
  <1>6. /\ k \in Archives /\ NowOf(k) = NowOf(archive) /\ k.more /\ k.open /\ ~k.loading /\ k.page = archive.page
        /\ \A m : WithPiece(k, m) = WithPiece(archive, m)
    BY <1>1, <1>3 DEF Archives, NowOf, WithPiece
  <1> HIDE DEF k, asked
  <1>7. ListFits(Standing, k)
    BY <1>5, <1>6 DEF ListFits
  <1>8. AskFits(Standing, k, asked)
    BY <1>2, <1>6 DEF Fresh, AskFits, PieceFits, ListKinds, Ok, Waiting
  <1>9. \A o \in net : OfList(o) => AskFits(Standing, k, o) /\ o.kind # "piece"
    BY <1>1, <1>6 DEF ArchiveOK, AskFits, PieceFits
  <1>10. \A o \in net' : OfList(o) => AskFits(Standing, k, o)
    BY <1>1, <1>8, <1>9
  <1>11. \A o \in net' : OfPiece(o) => o = asked
    BY <1>1, <1>9 DEF OfPiece
  <1>12. QED
    BY <1>1, <1>7, <1>10, <1>11, PageKeeps

\* Requests to rename and to delete, and rows that are edited or asked about.
LEMMA RowAsideKeeps ==
  ASSUME RequestsAreRecords, ArchiveOK, NEW k \in Archives, archive' = k, analyses' = analyses,
         NowOf(k) = NowOf(archive), k.open = archive.open, k.loading = archive.loading, k.more = archive.more,
         k.asking # NoAnalysis => k.open,
         \/ net' = net
         \/ k.open /\ \E kind \in {"rename", "drop"} : \E of, with : net' = And(net, "archive", kind, of, with)
  PROVE  ArchiveOK'
  <1>1. ListFits(Standing, k) /\ \A m : AskFits(Standing, archive, m) => AskFits(Standing, k, m)
    BY SameList DEF ArchiveOK, ListFits
  <1>2. \A o \in net : OfList(o) => AskFits(Standing, k, o)
    BY <1>1 DEF ArchiveOK
  <1>3. \A o \in net' : OfList(o) => AskFits(Standing, k, o) /\ (o \in net \/ o.kind # "piece")
    <2>1. ASSUME NEW kind \in {"rename", "drop"}, NEW of, NEW with, NEW o \in And(net, "archive", kind, of, with),
                 k.open, OfList(o)
          PROVE  AskFits(Standing, k, o) /\ (o \in net \/ o.kind # "piece")
      <3>1. CASE o \in net
        BY <1>2, <2>1, <3>1
      <3>2. CASE Fresh(o, "archive", kind, of, with)
        BY <2>1, <3>2 DEF Fresh, AskFits, ListKinds, Ok, Waiting
      <3>3. QED
        BY <2>1, <3>1, <3>2, AndFresh
    <2>2. QED
      BY <1>2, <2>1
  <1>4. \A o, p \in net' : OfPiece(o) /\ OfPiece(p) => o = p
    BY <1>3 DEF ArchiveOK, OnePiece, OfPiece
  <1>5. QED
    BY <1>1, <1>3, <1>4, PageKeeps

LEMMA ArchiveUserKeeps ==
  ASSUME RequestsAreRecords, ArchiveOK, ArchiveUser
  PROVE  ArchiveOK'
  <1> USE DEF ArchiveStep
  <1>0. archive \in Archives /\ Analyses \subseteq Nat /\ NoAnalysis \in Nat
    BY ArchiveAssumption DEF ArchiveOK, ListFits, NoAnalysis
  <1>1. \A a \in Nat : /\ [archive EXCEPT !.editing = a] \in Archives /\ [archive EXCEPT !.asking = a] \in Archives
                       /\ NowOf([archive EXCEPT !.editing = a]) = NowOf(archive)
                       /\ NowOf([archive EXCEPT !.asking = a]) = NowOf(archive)
                       /\ [archive EXCEPT !.editing = a].open = archive.open
                       /\ [archive EXCEPT !.asking = a].open = archive.open
                       /\ [archive EXCEPT !.editing = a].loading = archive.loading
                       /\ [archive EXCEPT !.asking = a].loading = archive.loading
                       /\ [archive EXCEPT !.editing = a].more = archive.more
                       /\ [archive EXCEPT !.asking = a].more = archive.more
    BY <1>0 DEF Archives, NowOf
  <1>2. archive.asking # NoAnalysis => archive.open
    BY DEF ArchiveOK, ListFits
  <1>3. CASE OpenArchive \/ LeaveArchive \/ LoadMore
    BY <1>3, OpenArchiveKeeps, LeaveArchiveKeeps, LoadMoreKeeps
  <1>4. CASE CancelEdit
    <2>1. [archive EXCEPT !.editing = NoAnalysis].open
      BY <1>0, <1>1, <1>4 DEF CancelEdit, ListShown
    <2>2. QED
      BY <1>0, <1>1, <1>4, <2>1, RowAsideKeeps DEF CancelEdit
  <1>5. ASSUME NEW a \in Analyses, StartEdit(a) \/ AskDrop(a)
        PROVE  ArchiveOK'
    <2>1. a \in Nat /\ archive.open
      BY <1>0, <1>5 DEF StartEdit, AskDrop, ListShown
    <2>2. [archive EXCEPT !.editing = a].open /\ [archive EXCEPT !.asking = a].open
      BY <1>1, <2>1
    <2>3. QED
      BY <1>0, <1>1, <1>5, <2>1, <2>2, RowAsideKeeps DEF StartEdit, AskDrop
  <1>6. CASE AnswerDrop
    <2>1. archive.open
      BY <1>6 DEF AnswerDrop, ArchiveOK, ListFits
    <2>2. [archive EXCEPT !.asking = NoAnalysis].asking = NoAnalysis
      BY <1>0 DEF Archives
    <2> DEFINE k == [archive EXCEPT !.asking = NoAnalysis]
    <2>3. /\ archive' = k /\ analyses' = analyses
          /\ net' = net \/ net' = And(net, "archive", "drop", archive.asking, None)
      BY <1>6 DEF AnswerDrop
    <2>4. /\ k \in Archives /\ NowOf(k) = NowOf(archive) /\ k.open = archive.open /\ k.open
          /\ k.loading = archive.loading /\ k.more = archive.more /\ k.asking = NoAnalysis
      BY <1>0, <1>1, <2>1, <2>2
    <2> HIDE DEF k
    <2>5. QED
      BY <2>3, <2>4, RowAsideKeeps
  <1>7. ASSUME NEW title \in Renames, SaveTitle(title)
        PROVE  ArchiveOK'
    BY <1>0, <1>2, <1>7, RowAsideKeeps DEF SaveTitle, ListShown
  <1>8. ASSUME NEW a \in Analyses, OpenTask(a)
        PROVE  ArchiveOK'
    <2>1. Carried(net)
      BY CarriedNet DEF ArchiveOK
    <2>2. Carried(And(net, "detail", "solutions", a, None))
      BY <2>1, CarriedAnd
    <2>3. Carried(And(And(net, "detail", "solutions", a, None), "detail", "flow", a, None))
      BY <2>2, CarriedAnd
    <2>4. Carried(net')
      BY <1>8, <2>3, CarriedAnd DEF OpenTask
    <2>5. QED
      BY <1>8, <2>4, CarriedKeeps DEF OpenTask
  <1>9. CASE BackToList
    <2>1. Carried(net')
      BY <1>9, CarriedNet, CarriedWithout DEF BackToList, ArchiveOK, RequestsAreRecords
    <2>2. QED
      BY <1>9, <2>1, CarriedKeeps DEF BackToList
  <1>10. QED
    BY <1>3, <1>4, <1>5, <1>6, <1>7, <1>8, <1>9 DEF ArchiveUser

\* Rows that get another title, and rows that are taken out of the list.
LEMMA ChangedFits ==
  ASSUME NEW T \in Told, NEW k \in Archives, NEW l \in Archives, ListFits(T, k),
         l.page = k.page, l.pages = k.pages, l.known = k.known, l.open = k.open,
         l.loading = k.loading, l.more = k.more, l.asking = k.asking,
         \/ RowsOf(l.list) = RowsOf(k.list) /\ Len(l.list) = Len(k.list)
         \/ \E x \in Analyses : T[x] = "gone" /\ l.list = WithoutTask(k.list, x)
  PROVE  ListFits(T, l) /\ \A m : AskFits(T, k, m) => AskFits(T, l, m)
  <1>1. k.list \in Seq(ListRows) /\ l.list \in Seq(ListRows) /\ <<>> \in Seq(ListRows)
    BY DEF Archives
  <1>2. Unread(k) => Unread(l)
    <2>1. Len(l.list) <= Len(k.list) /\ Len(l.list) \in Nat /\ Len(k.list) \in Nat
      <3>1. Len(l.list) \in Nat /\ Len(k.list) \in Nat
        BY <1>1
      <3>2. QED
        BY <1>1, <3>1, WithoutRows
    <2>2. QED
      BY <2>1 DEF Unread
  <1>3. ASSUME NEW v \in Views, NEW w \in Views, NEW r \in Seq(ListRows), Whole(T, v),
               v.list = k.list \o r, w.list = l.list \o r, w.page = v.page, w.pages = v.pages, w.known = v.known
        PROVE  Whole(T, w)
    BY <1>1, <1>3, ChangedKeepWhole
  <1>4. Whole(T, NowOf(k)) => Whole(T, NowOf(l))
    <2> SUFFICES ASSUME Whole(T, NowOf(k)) PROVE Whole(T, NowOf(l))
      OBVIOUS
    <2>1. k.list \o <<>> = k.list /\ l.list \o <<>> = l.list
      BY <1>1
    <2>2. NowOf(k) \in Views /\ NowOf(l) \in Views
      BY DEF NowOf, Views, Archives
    <2>3. /\ NowOf(k).list = k.list \o <<>>
          /\ NowOf(l).list = l.list \o <<>>
          /\ NowOf(l).page = NowOf(k).page /\ NowOf(l).pages = NowOf(k).pages /\ NowOf(l).known = NowOf(k).known
      BY <2>1 DEF NowOf
    <2>4. QED
      BY <1>1, <1>3, <2>2, <2>3
  <1>5. ASSUME NEW m, m.answer.data.rows \in Seq(ListRows), Whole(T, WithPiece(k, m))
        PROVE  Whole(T, WithPiece(l, m))
    <2>1. CASE k.loading
      BY <1>5, <2>1 DEF WithPiece
    <2>2. CASE ~k.loading
      <3> DEFINE rows == m.answer.data.rows
      <3>1. WithPiece(k, m) \in Views /\ WithPiece(k, m).list = k.list \o rows
        BY <1>5, <2>2 DEF Whole, WithPiece
      <3>2. /\ WithPiece(l, m).list = l.list \o rows /\ WithPiece(l, m).page = WithPiece(k, m).page
            /\ WithPiece(l, m).pages = WithPiece(k, m).pages /\ WithPiece(l, m).known = WithPiece(k, m).known
        BY <2>2 DEF WithPiece
      <3>3. l.list \o rows \in Seq(ListRows)
        <4> HIDE DEF rows
        <4>1. rows \in Seq(ListRows)
          BY <1>5 DEF rows
        <4>2. QED
          BY <1>1, <4>1
      <3>4. WithPiece(l, m) \in Views
        <4>1. WithPiece(l, m) = [list |-> l.list \o rows, page |-> m.of, pages |-> m.answer.data.pages,
                                 known |-> k.known]
          BY <2>2 DEF WithPiece
        <4>2. m.of \in Nat /\ m.answer.data.pages \in Nat /\ k.known \in Told
          BY <2>2, <3>1 DEF WithPiece, Views
        <4> HIDE DEF rows
        <4>3. QED
          BY <3>3, <4>1, <4>2 DEF Views
      <3>5. QED
        BY <1>3, <1>5, <3>1, <3>2, <3>4
    <2>3. QED
      BY <2>1, <2>2
  <1>6. ListFits(T, l)
    BY <1>2, <1>4 DEF ListFits
  <1>7. QED
    BY <1>5, <1>6 DEF AskFits, PieceFits

\* The only piece that was asked for is taken from the network.
LEMMA PieceTaken ==
  ASSUME ArchiveOK, NEW m \in net, OfPiece(m), NEW k, k.open = archive.open
  PROVE  \A o \in net \ {m} : OfList(o) => AskFits(Standing, k, o) /\ ~OfPiece(o)
  <1>1. \A o \in net \ {m} : OfList(o) => AskFits(Standing, archive, o) /\ o.kind # "piece"
    BY DEF ArchiveOK, OnePiece, OfPiece
  <1>2. QED
    BY <1>1 DEF AskFits, OfPiece

LEMMA PieceReadKeeps ==
  ASSUME RequestsAreRecords, ArchiveOK, NEW m \in net, OfList(m), PieceRead(m)
  PROVE  ArchiveOK'
  <1>1. OfPiece(m) /\ net' = net \ {m} /\ analyses' = analyses /\ m.kind = "piece"
    BY DEF PieceRead, ArchiveStep, OfPiece
  <1>2. /\ archive \in Archives /\ ListFits(Standing, archive) /\ PieceFits(Standing, archive, m)
        /\ archive.asking # NoAnalysis => archive.open
    BY <1>1 DEF ArchiveOK, ListFits, AskFits
  <1>3. ListFits(Standing, archive') /\ archive'.open = archive.open
    <2>1. CASE ~Ok(m)
      <3> DEFINE k == [archive EXCEPT !.loading = FALSE, !.more = FALSE]
      <3>1. archive' = k
        BY <2>1 DEF PieceRead, ArchiveStep
      <3>2. /\ k \in Archives /\ ~k.loading /\ ~k.more /\ k.open = archive.open /\ k.asking = archive.asking
            /\ (Unread(k) <=> Unread(archive)) /\ NowOf(k) = NowOf(archive)
        BY <1>2 DEF Archives, Unread, NowOf
      <3> HIDE DEF k
      <3>3. QED
        BY <1>2, <3>1, <3>2 DEF ListFits
    <2>2. CASE Ok(m) /\ archive.loading
      <3> DEFINE k == [archive EXCEPT !.loading = FALSE, !.list = m.answer.data.rows,
                                      !.pages = m.answer.data.pages, !.known = m.answer.data.known]
                 w == WithPiece(archive, m)
      <3>1. archive' = k
        BY <2>2 DEF PieceRead, ArchiveStep
      <3>2. Whole(Standing, w) /\ w \in Views /\ archive.page = 1 /\ ~archive.more
        BY <1>2, <2>2 DEF PieceFits, Whole, ListFits, Unread
      <3>3. /\ w.list = m.answer.data.rows /\ w.page = 1 /\ w.pages = m.answer.data.pages
            /\ w.known = m.answer.data.known
        BY <2>2 DEF WithPiece
      <3>4. /\ m.answer.data.rows \in Seq(ListRows) /\ m.answer.data.pages \in Nat /\ m.answer.data.known \in Told
        <4> HIDE DEF w
        <4>1. QED
          BY <3>2, <3>3 DEF Views
      <3>5. /\ k \in Archives /\ ~k.loading /\ ~k.more /\ k.open = archive.open /\ k.asking = archive.asking
            /\ NowOf(k) = w
        BY <1>2, <2>2, <3>2, <3>4 DEF Archives, NowOf, WithPiece
      <3> HIDE DEF k, w
      <3>6. QED
        BY <1>2, <3>1, <3>2, <3>5 DEF ListFits
    <2>3. CASE Ok(m) /\ ~archive.loading
      <3> DEFINE k == [archive EXCEPT !.more = FALSE, !.list = archive.list \o m.answer.data.rows, !.page = m.of,
                                      !.pages = m.answer.data.pages]
                 w == WithPiece(archive, m)
      <3>1. archive' = k
        BY <2>3 DEF PieceRead, ArchiveStep
      <3>2. Whole(Standing, w) /\ w \in Views
        BY <1>2, <2>3 DEF PieceFits, Whole
      <3>3. /\ w.list = archive.list \o m.answer.data.rows /\ w.page = m.of /\ w.pages = m.answer.data.pages
        BY <2>3 DEF WithPiece
      <3>4. /\ archive.list \o m.answer.data.rows \in Seq(ListRows) /\ m.of \in Nat /\ m.answer.data.pages \in Nat
        <4> HIDE DEF w
        <4>1. QED
          BY <3>2, <3>3 DEF Views
      <3>5. /\ k \in Archives /\ ~k.loading /\ ~k.more /\ k.open = archive.open /\ k.asking = archive.asking
            /\ NowOf(k) = w
        BY <1>2, <2>3, <3>4 DEF Archives, NowOf, WithPiece
      <3> HIDE DEF k, w
      <3>6. QED
        BY <1>2, <3>1, <3>2, <3>5 DEF ListFits
    <2>4. QED
      BY <2>1, <2>2, <2>3
  <1>4. \A o \in net' : OfList(o) => AskFits(Standing, archive', o) /\ ~OfPiece(o)
    BY <1>1, <1>3, PieceTaken
  <1>5. QED
    BY <1>1, <1>3, <1>4, PageKeeps DEF OfPiece

LEMMA RowsChangedKeep ==
  ASSUME RequestsAreRecords, ArchiveOK, NEW m \in net, OfList(m), Renamed(m) \/ TaskDropped(m)
  PROVE  ArchiveOK'
  <1>1. net' = net \ {m} /\ analyses' = analyses
    BY DEF Renamed, TaskDropped, ArchiveStep
  <1>2. /\ archive \in Archives /\ archive.list \in Seq(ListRows) /\ ListFits(Standing, archive)
        /\ AskFits(Standing, archive, m) /\ Standing \in Told /\ NoAnalysis \in Nat
    BY StandingOfTasks DEF ArchiveOK, TasksOK, ListFits, Archives, NoAnalysis
  <1>3. PICK l \in Seq(ListRows), e \in Nat :
          /\ archive' = [archive EXCEPT !.editing = e, !.list = l]
          /\ \/ RowsOf(l) = RowsOf(archive.list) /\ Len(l) = Len(archive.list)
             \/ \E x \in Analyses : Standing[x] = "gone" /\ l = WithoutTask(archive.list, x)
    <2>1. archive = [archive EXCEPT !.editing = archive.editing] /\ archive.editing \in Nat
      BY <1>2 DEF Archives
    <2>2. CASE Renamed(m)
      <3> DEFINE title == m.answer.data
                 l == [i \in DOMAIN archive.list |-> IF archive.list[i].of = m.of THEN [of |-> m.of, title |-> title]
                                                     ELSE archive.list[i]]
      <3>1. CASE Ok(m)
        <4>1. title \in TaskTitles
          BY <1>2, <2>2, <3>1 DEF AskFits, Renamed
        <4>2. l \in Seq(ListRows) /\ RowsOf(l) = RowsOf(archive.list) /\ Len(l) = Len(archive.list)
          <5> HIDE DEF title
          <5>1. QED
            BY <1>2, <4>1, RenamedRows
        <4>3. archive' = [archive EXCEPT !.editing = NoAnalysis, !.list = l]
          BY <2>2, <3>1 DEF Renamed, ArchiveStep
        <4> HIDE DEF l
        <4>4. QED
          BY <1>2, <4>2, <4>3
      <3>2. CASE ~Ok(m)
        <4>1. archive' = [archive EXCEPT !.editing = NoAnalysis, !.list = archive.list]
          BY <2>2, <3>2 DEF Renamed, ArchiveStep
        <4>2. QED
          BY <1>2, <4>1
      <3>3. QED
        BY <3>1, <3>2
    <2>3. CASE TaskDropped(m)
      <3>1. CASE Ok(m)
        <4>1. m.of \in Analyses /\ Standing[m.of] = "gone"
          BY <1>2, <2>3, <3>1 DEF AskFits, TaskDropped
        <4>2. archive' = [archive EXCEPT !.list = WithoutTask(archive.list, m.of)]
          BY <2>3, <3>1 DEF TaskDropped, ArchiveStep
        <4>3. archive' = [archive EXCEPT !.editing = archive.editing, !.list = WithoutTask(archive.list, m.of)]
          BY <1>2, <4>2 DEF Archives
        <4>4. WithoutTask(archive.list, m.of) \in Seq(ListRows)
          BY <1>2, WithoutRows
        <4>5. QED
          BY <2>1, <4>1, <4>3, <4>4
      <3>2. CASE ~Ok(m)
        <4>1. archive' = [archive EXCEPT !.list = archive.list]
          BY <2>3, <3>2 DEF TaskDropped, ArchiveStep
        <4>2. archive' = [archive EXCEPT !.editing = archive.editing, !.list = archive.list]
          BY <1>2, <4>1 DEF Archives
        <4>3. QED
          BY <1>2, <2>1, <4>2
      <3>3. QED
        BY <3>1, <3>2
    <2>4. QED
      BY <2>2, <2>3
  <1> DEFINE k == [archive EXCEPT !.editing = e, !.list = l]
  <1>4. /\ k \in Archives /\ k.list = l /\ k.page = archive.page /\ k.pages = archive.pages /\ k.known = archive.known
        /\ k.open = archive.open /\ k.loading = archive.loading /\ k.more = archive.more /\ k.asking = archive.asking
    BY <1>2 DEF Archives
  <1>5. archive' = k
    BY <1>3
  <1> HIDE DEF k
  <1>6. ListFits(Standing, k) /\ \A o : AskFits(Standing, archive, o) => AskFits(Standing, k, o)
    BY <1>2, <1>3, <1>4, ChangedFits
  <1>7. \A o \in net' : OfList(o) => AskFits(Standing, k, o)
    BY <1>1, <1>6 DEF ArchiveOK
  <1>8. \A o, p \in net' : OfPiece(o) /\ OfPiece(p) => o = p
    BY <1>1 DEF ArchiveOK, OnePiece
  <1>9. QED
    BY <1>1, <1>5, <1>6, <1>7, <1>8, PageKeeps

LEMMA ArchiveAnswerKeeps ==
  ASSUME RequestsAreRecords, ArchiveOK, NEW m \in net, DeliverArchive(m)
  PROVE  ArchiveOK'
  <1>1. CASE OfList(m) /\ (PieceRead(m) \/ Renamed(m) \/ TaskDropped(m))
    BY <1>1, PieceReadKeeps, RowsChangedKeep
  <1>2. CASE (~m.here /\ ArchiveStep(archive, detail, net \ {m})) \/ RisksRead(m) \/ LatestRead(m)
    <2>1. archive' = archive /\ analyses' = analyses /\ \A o \in net' : o \in net
      BY <1>2 DEF ArchiveStep, RisksRead, LatestRead
    <2>2. QED
      BY <2>1, CarriedNet, CarriedKeeps DEF ArchiveOK
  <1>3. CASE TaskRead(m)
    <2>1. archive' = archive /\ analyses' = analyses
      BY <1>3 DEF TaskRead, ArchiveStep
    <2>2. ASSUME NEW o \in net'
          PROVE  o \in net \/ ~OfList(o)
      BY <1>3, RequestFresh DEF TaskRead, ArchiveStep, Fresh, OfList
    <2>3. QED
      BY <2>1, <2>2, CarriedNet, CarriedKeeps DEF ArchiveOK
  <1>4. QED
    BY <1>1, <1>2, <1>3 DEF DeliverArchive, OfList

-----------------------------------------------------------------------------
(* The archive is whole                                                    *)

LEMMA ArchiveAtFirst ==
  ASSUME Init
  PROVE  ArchiveOK
  <1>1. PICK s \in Scenarios : ArchiveInit(s) /\ net = {}
    BY DEF Init
  <1>2. TasksOK
    BY <1>1, ArchiveAssumption DEF ArchiveInit, TasksOK, InOrder, Tasked, TaskTitles
  <1>3. archive = ClosedArchive
    BY <1>1 DEF ArchiveInit
  <1>4. ListFits(Standing, archive)
    BY <1>3, NothingListed DEF ListFits
  <1>5. QED
    BY <1>1, <1>2, <1>4 DEF ArchiveOK, OnePiece

LEMMA ArchiveStays ==
  ASSUME RequestsOK, ArchiveOK, [Next]_vars
  PROVE  ArchiveOK'
  <1>1. RequestsAreRecords
    BY DEF RequestsOK, RequestOK, RequestsAreRecords
  <1>2. CASE ArchiveUser
    BY <1>1, <1>2, ArchiveUserKeeps
  <1>3. CASE Appears
    BY <1>3, AppearsKeeps
  <1>4. ASSUME NEW m \in net, ServesArchive(m) \/ DeliverArchive(m)
        PROVE  ArchiveOK'
    BY <1>1, <1>4, ServerKeeps, ArchiveAnswerKeeps
  <1>5. CASE /\ ~OnArchive(ArchiveUser) /\ ~OnArchive(Appears)
             /\ \A m \in net : ~OnArchive(ServesArchive(m) \/ DeliverArchive(m))
    <2>1. ListAsks /\ OnePiece
      BY DEF ArchiveOK, ListAsks, AskFits
    <2>2. Carried(net') /\ UNCHANGED archiveVars
      BY <1>5, <2>1, OthersCarry
    <2>3. QED
      BY <2>2, CarriedKeeps DEF archiveVars
  <1>6. QED
    BY <1>2, <1>3, <1>4, <1>5 DEF OnArchive

\* A list that was read to its end misses no more of what there was at first than
\* went since, and shows no more of it twice than came since: a task that goes lets
\* at most one slip into the pieces that were read, and a task that is made pushes
\* at most one into the piece that is read next, whatever is renamed and deleted
\* meanwhile, in this window or another.
THEOREM ListsAreWhole == Spec => []ArchiveIsWhole
  <1>1. Init => Consistent /\ ArchiveOK
    BY ConsistentAtFirst, ArchiveAtFirst
  <1>2. Consistent /\ ArchiveOK /\ [Next]_vars => (Consistent /\ ArchiveOK)'
    BY ConsistentStays, ArchiveStays DEF Consistent
  <1>3. ArchiveOK => ArchiveIsWhole
    <2> SUFFICES ASSUME ArchiveOK, ~archive.loading, ~archive.more, archive.page >= archive.pages
                 PROVE  /\ Cardinality(Missed) <= Cardinality(Went)
                        /\ Len(archive.list) - Cardinality(ListedAnalyses) <= Cardinality(Came)
      BY DEF ArchiveIsWhole
    <2> DEFINE T == Standing
               v == NowOf(archive)
    <2>1. /\ T \in Told /\ archive \in Archives /\ (Unread(archive) \/ Whole(T, v))
          /\ \A a \in Analyses : T[a] = analyses[a].there
      BY StandingOfTasks DEF ArchiveOK, TasksOK, ListFits
    <2>2. /\ v \in Views /\ v.list = archive.list /\ v.page = archive.page /\ v.pages = archive.pages
          /\ v.known = archive.known
      BY <2>1 DEF NowOf, Views, Archives
    <2> HIDE DEF v, T
    <2>3. Shown(v) = ListedAnalyses /\ Went = WentSince(T, v) /\ Came = CameSince(T, v) /\ Missed = Lacks(T, v)
      BY <2>1, <2>2 DEF Shown, ListedAnalyses, Went, WentSince, Came, CameSince, Missed, Lacks, Remaining, Kept
    <2>4. /\ Cardinality(WentSince(T, v)) \in Nat /\ Cardinality(CameSince(T, v)) \in Nat
          /\ Cardinality(Pushed(T, v)) \in Nat /\ Twice(v) \in Int
          /\ Cardinality(Shown(v)) \in Nat /\ Len(v.list) \in Nat
      BY <2>1, <2>2, SetsOfTasks, ViewSizes
    <2>5. CASE Whole(T, v)
      BY <2>2, <2>3, <2>4, <2>5 DEF Whole, Twice
    <2>6. CASE Unread(archive)
      <3>1. Lacks(T, v) = {}
        BY <2>2, <2>6 DEF Unread, Lacks, Remaining
      <3>2. QED
        BY <2>2, <2>3, <2>4, <2>6, <3>1, FS_EmptySet DEF Unread
    <2>7. QED
      BY <2>1, <2>5, <2>6
  <1>4. QED
    BY <1>1, <1>2, <1>3, PTL DEF Spec
=============================================================================
