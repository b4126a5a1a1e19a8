---------------------------- MODULE DataTableProofs ----------------------------
(***************************************************************************)
(* For any rows, filters, searches, page sizes and orders, and any number of   *)
(* events: a table that is not loading shows the rows of its query, what is     *)
(* marked is shown, the order of the rows is determined, and its pages are all   *)
(* of them.                                                                    *)
(***************************************************************************)
EXTENDS DataTable, FunctionTheorems, FiniteSetTheorems, SequenceTheorems, TLAPS

\* What is asked for is what the table shows in its header, and what has been
\* shown was asked for; only the reload of an action may be about something else.
Current ==
  /\ loading /\ ~outdated => request.q = query
  /\ ~loading /\ ~error /\ ~outdated => shownFor = query

Inv == Current /\ SelectionIsShown

-----------------------------------------------------------------------------

\* A table that goes to another query asks for it, or shows that there is nothing.
LEMMA GoByInv ==
  ASSUME Inv, NEW q, NEW others, GoBy(q, others)
  PROVE  Inv'
<1>1. CASE q.filter \in Closed
  <2>1. ~loading' /\ shownFor' = query'
    BY <1>1 DEF GoBy, Load
  <2>2. selected' = {}
    BY <1>1 DEF GoBy, Load, MarksOnNewRows, NoMarks
  <2> QED
    BY <2>1, <2>2 DEF Inv, Current, SelectionIsShown
<1>2. CASE q.filter \notin Closed
  <2>1. loading' /\ request'.q = query'
    BY <1>2 DEF GoBy, Load, Asked
  <2>2. rows' = rows /\ selected' = selected
    BY <1>2 DEF GoBy, Load
  <2> QED
    BY <2>1, <2>2 DEF Inv, Current, SelectionIsShown
<1> QED
  BY <1>1, <1>2

\* The reload of an action is for the query of the table, or is known not to be.
LEMMA ReloadCurrent ==
  ASSUME NEW q, Reload(q), query' = query
  PROVE  Current'
<1>1. loading' /\ request'.q = Closing(q)
  BY DEF Reload, Asked
<1>2. outdated' <=> Closing(q) # query
  BY DEF Reload
<1> QED
  BY <1>1, <1>2 DEF Current

\* Nothing that Inv is about changes.
LEMMA SameInv ==
  ASSUME Inv,
         UNCHANGED <<query, loading, error, outdated, shownFor, rows, selected>>,
         loading => request'.q = request.q
  PROVE  Inv'
BY DEF Inv, Current, SelectionIsShown

LEMMA InitInv == Init => Inv
BY DEF Init, Asked, Inv, Current, SelectionIsShown

LEMMA StepInv == Inv /\ [Next]_vars => Inv'
<1> SUFFICES ASSUME Inv, [Next]_vars PROVE Inv'
  OBVIOUS
<1>1. CASE UNCHANGED vars
  BY <1>1, SameInv DEF vars
<1>2. ASSUME NEW n \in 1 .. Cardinality(Ids), TurnPage(n) PROVE Inv'
  BY <1>2, GoByInv DEF TurnPage, GoTo
<1>3. CASE ToggleSort
  BY <1>3, GoByInv DEF ToggleSort, GoTo
<1>4. CASE SearchSettles
  BY <1>4, GoByInv DEF SearchSettles, GoTo
<1>5. ASSUME NEW n \in PageSizes, SetPageSize(n) PROVE Inv'
  BY <1>5, GoByInv DEF SetPageSize, GoTo
<1>6. ASSUME NEW f \in Filters, SetFilter(f) PROVE Inv'
  BY <1>6, GoByInv DEF SetFilter
<1>7. ASSUME NEW s \in Searches, Type(s) PROVE Inv'
  BY <1>7, SameInv DEF Type
<1>8. CASE ServerReads
  BY <1>8, SameInv DEF ServerReads
<1>9. CASE Answer
  <2>1. ~loading' /\ shownFor' = request.q /\ query' = query /\ outdated' = outdated
    BY <1>9 DEF Answer, Show
  <2>2. loading /\ selected' = {}
    BY <1>9 DEF Answer, Show, MarksOnNewRows, NoMarks
  <2> QED
    BY <2>1, <2>2 DEF Inv, Current, SelectionIsShown
<1>10. CASE LoadFails
  <2>1. ~loading' /\ error' /\ rows' = rows /\ selected' = selected
    BY <1>10 DEF LoadFails
  <2> QED
    BY <2>1 DEF Inv, Current, SelectionIsShown
<1>11. ASSUME NEW q \in older, OlderAnswers(q) \/ OlderFails(q) PROVE Inv'
  BY <1>11, SameInv DEF OlderAnswers, OlderAnswer, Dropped, OlderFails
<1>12. ASSUME NEW r \in Ids, Mark(r) PROVE Inv'
  <2>1. /\ r \in ToSet(rows) /\ selected' \subseteq selected \cup {r}
        /\ UNCHANGED <<query, loading, request, error, outdated, shownFor, rows>>
    BY <1>12 DEF Mark
  <2> QED
    BY <2>1 DEF Inv, Current, SelectionIsShown
<1>13. CASE MarkAll
  <2>1. /\ selected' \subseteq ToSet(rows)
        /\ UNCHANGED <<query, loading, request, error, outdated, shownFor, rows>>
    BY <1>13 DEF MarkAll
  <2> QED
    BY <2>1 DEF Inv, Current, SelectionIsShown
<1>14. ASSUME NEW r \in Ids, DeleteOne(r) \/ RetryOne(r) \/ Create(r) PROVE Inv'
  BY <1>14, SameInv DEF DeleteOne, RetryOne, Create, Call
<1>15. CASE DeleteSelected \/ RetrySelected
  BY <1>15, SameInv DEF DeleteSelected, RetrySelected, Call
<1>16. CASE ServerActs
  BY <1>16, SameInv DEF ServerActs, RowsChange
<1>17. CASE ActionAnswers
  <2>1. Reload(action.q) /\ query' = query /\ rows' = rows /\ selected' \subseteq selected
    BY <1>17 DEF ActionAnswers
  <2> QED
    BY <2>1, ReloadCurrent DEF Inv, SelectionIsShown
<1>18. CASE Created
  <2>1. rows' = rows /\ selected' = selected
    BY <1>18 DEF Created
  <2>2. CASE query.page = 1
    <3>1. Reload(action.q) /\ query' = query
      BY <1>18, <2>2 DEF Created
    <3> QED
      BY <2>1, <3>1, ReloadCurrent DEF Inv, SelectionIsShown
  <2>3. CASE query.page # 1
    <3>1. loading' /\ request'.q = query'
      BY <1>18, <2>3 DEF Created, Asked
    <3> QED
      BY <2>1, <3>1 DEF Inv, Current, SelectionIsShown
  <2> QED
    BY <2>2, <2>3
<1>19. CASE ActionFails
  BY <1>19, SameInv DEF ActionFails
<1>20. CASE OthersChange
  BY <1>20, SameInv DEF OthersChange, RowsChange
<1> QED
  BY <1>1, <1>2, <1>3, <1>4, <1>5, <1>6, <1>7, <1>8, <1>9, <1>10, <1>11, <1>12, <1>13,
     <1>14, <1>15, <1>16, <1>17, <1>18, <1>19, <1>20 DEF Next

\* A table that is not loading shows the rows of the query it shows, but for errors
\* and the reload of an action that was overtaken.
THEOREM RowsAreOfTheQuery == Spec => []RowsMatchQuery
<1>1. Inv => RowsMatchQuery
  BY DEF Inv, Current, RowsMatchQuery
<1> QED
  BY <1>1, InitInv, StepInv, PTL DEF Spec

\* Whatever is marked is on the screen.
THEOREM MarkedIsShown == Spec => []SelectionIsShown
<1>1. Inv => SelectionIsShown
  BY DEF Inv
<1> QED
  BY <1>1, InitInv, StepInv, PTL DEF Spec

-----------------------------------------------------------------------------
(* Orders and pages. A row is on the page of its rank. *)

\* How many of S come before x, x included.
Rank(x, S, dir) == Cardinality({y \in S : Before(y, x, dir)}) + 1

On(rank, page, size) == (page - 1) * size < rank /\ rank <= page * size

\* Every row has a page: a rank among n rows is on one of the Pages(n, size).
LEMMA EachRankOnAPage ==
  ASSUME NEW n \in Nat, NEW size \in Nat \ {0}, NEW rank \in 1 .. n
  PROVE  \E p \in 1 .. Pages(n, size) : On(rank, p, size)
<1> DEFINE d == (rank - 1) \div size
           e == (n + size - 1) \div size
<1>1. d \in Nat /\ d * size <= rank - 1 /\ rank - 1 < (d + 1) * size
  OBVIOUS
<1>2. e \in Nat /\ n + size - 1 < (e + 1) * size
  OBVIOUS
<1>3. (d + 1) * size = d * size + size /\ (e + 1) * size = e * size + size
  BY <1>1, <1>2
<1>4. Pages(n, size) = e
  BY DEF Pages
<1> HIDE DEF d, e
<1>5. On(rank, d + 1, size)
  BY <1>1, <1>3 DEF On
<1>6. d * size < e * size
  <2>1. d * size \in Nat /\ e * size \in Nat
    BY <1>1, <1>2
  <2> QED
    BY <2>1, <1>1, <1>2, <1>3
<1>7. d < e
  BY <1>6, <1>1, <1>2
<1> QED
  BY <1>1, <1>2, <1>4, <1>5, <1>7

\* buildOrderBy is a strict total order on the rows.
LEMMA BeforeIsStrict ==
  ASSUME NEW dir, NEW x \in Ids, NEW y \in Ids
  PROVE  /\ ~(Before(x, y, dir) /\ Before(y, x, dir))
         /\ ~Before(x, x, dir)
<1>1. x \in Nat /\ y \in Nat /\ Value[x] \in Nat /\ Value[y] \in Nat
  BY TableAssumption
<1> QED
  BY <1>1 DEF Before, ByValueThenId

\* The ranks of S are the numbers from 1 to their number.
LEMMA RankInRange ==
  ASSUME NEW S \in SUBSET Ids, NEW dir, NEW x \in S
  PROVE  Rank(x, S, dir) \in 1 .. Cardinality(S)
<1> DEFINE L == {y \in S : Before(y, x, dir)}
<1>1. IsFiniteSet(S)
  BY FS_Subset, TableAssumption
<1>2. L \in SUBSET (S \ {x})
  BY BeforeIsStrict
<1>3. /\ IsFiniteSet(S \ {x}) /\ Cardinality(S \ {x}) = Cardinality(S) - 1
      /\ Cardinality(S) \in Nat
  BY <1>1, FS_RemoveElement, FS_CardinalityType
<1>4. IsFiniteSet(L) /\ Cardinality(L) <= Cardinality(S \ {x})
  <2> HIDE DEF L
  <2> QED
    BY <1>2, <1>3, FS_Subset
<1>5. Cardinality(L) \in Nat
  <2> HIDE DEF L
  <2> QED
    BY <1>4, FS_CardinalityType
<1> HIDE DEF L
<1>6. Rank(x, S, dir) = Cardinality(L) + 1
  BY DEF Rank, L
<1> QED
  BY <1>3, <1>4, <1>5, <1>6

\* A sorted sequence of the rows S has each at its rank.
LEMMA OrderIsRank ==
  ASSUME NEW S \in SUBSET Ids, NEW dir, NEW order \in Orders(S, dir)
  PROVE  /\ order \in [1 .. Cardinality(S) -> S]
         /\ \A i \in 1 .. Cardinality(S) : Rank(order[i], S, dir) = i
         /\ \A x \in S : \E i \in 1 .. Cardinality(S) : order[i] = x
<1> DEFINE N == Cardinality(S)
<1>1. IsFiniteSet(S) /\ N \in Nat
  BY FS_Subset, FS_CardinalityType, TableAssumption
<1>2. /\ order \in [1 .. N -> S]
      /\ \A i, j \in 1 .. N : i # j => order[i] # order[j]
      /\ \A i, j \in 1 .. N : i < j => Before(order[i], order[j], dir)
  BY DEF Orders, SetToSeqs
<1>3. order \in Injection(1 .. N, S)
  BY <1>2 DEF Injection, IsInjective
<1>4. IsFiniteSet(1 .. N) /\ Cardinality(1 .. N) = N
  <2> HIDE DEF N
  <2> QED
    BY <1>1, FS_Interval
<1>5. order \in Surjection(1 .. N, S)
  BY <1>1, <1>3, <1>4, FS_Injection
<1>6. \A x \in S : \E i \in 1 .. N : order[i] = x
  BY <1>5 DEF Surjection
<1>7. ASSUME NEW i \in 1 .. N
      PROVE  Rank(order[i], S, dir) = i
  <2> DEFINE L == {y \in S : Before(y, order[i], dir)}
             f == [j \in 1 .. (i - 1) |-> order[j]]
  <2> HIDE DEF N
  <2>1. ASSUME NEW j \in 1 .. N
        PROVE  Before(order[j], order[i], dir) <=> j < i
    <3>1. order[i] \in Ids /\ order[j] \in Ids
      BY <1>2
    <3>2. CASE j < i
      BY <3>2, <1>2
    <3>3. CASE j = i
      BY <3>3, <3>1, BeforeIsStrict, <1>1
    <3>4. CASE i < j
      <4>1. Before(order[i], order[j], dir)
        BY <3>4, <1>2
      <4>2. ~Before(order[j], order[i], dir)
        BY <4>1, <3>1, BeforeIsStrict
      <4> QED
        BY <4>2, <3>4, <1>1
    <3> QED
      BY <3>2, <3>3, <3>4, <1>1
  <2>2. f \in [1 .. (i - 1) -> L]
    BY <2>1, <1>2, <1>1
  <2>3. \A a, b \in 1 .. (i - 1) : f[a] = f[b] => a = b
    BY <1>2, <1>1
  <2>4. ASSUME NEW y \in L
        PROVE  \E j \in 1 .. (i - 1) : f[j] = y
    <3>0. y \in S /\ Before(y, order[i], dir)
      OBVIOUS
    <3>1. PICK j \in 1 .. N : order[j] = y
      BY <3>0, <1>6
    <3>2. j < i
      BY <3>0, <3>1, <2>1
    <3>3. j \in 1 .. (i - 1)
      BY <3>2, <1>1
    <3> QED
      BY <3>1, <3>3
  <2>5. f \in Bijection(1 .. (i - 1), L)
    <3> HIDE DEF f, L
    <3> QED
      BY <2>2, <2>3, <2>4 DEF Bijection, Injection, IsInjective, Surjection
  <2>6. IsFiniteSet(1 .. (i - 1)) /\ Cardinality(1 .. (i - 1)) = i - 1
    BY <1>1, FS_Interval
  <2>7. Cardinality(L) = i - 1
    <3> HIDE DEF f, L
    <3> QED
      BY <2>5, <2>6, FS_Bijection DEF ExistsBijection
  <2> QED
    BY <2>7, <1>1 DEF Rank
<1> QED
  BY <1>2, <1>6, <1>7

\* Rows that differ have different ranks, the one before the other the smaller.
LEMMA RankFollowsBefore ==
  ASSUME NEW S \in SUBSET Ids, NEW dir, NEW x \in S, NEW y \in S, Before(x, y, dir)
  PROVE  Rank(x, S, dir) < Rank(y, S, dir)
<1> DEFINE L(z) == {w \in S : Before(w, z, dir)}
<1>1. L(x) \cup {x} \subseteq L(y)
  <2>1. ASSUME NEW w \in S, Before(w, x, dir)
        PROVE  Before(w, y, dir)
    <3>1. /\ w \in Nat /\ Value[w] \in Nat /\ x \in Nat /\ Value[x] \in Nat
          /\ y \in Nat /\ Value[y] \in Nat
      BY TableAssumption
    <3> QED
      BY <2>1, <3>1 DEF Before, ByValueThenId
  <2> QED
    BY <2>1
<1>2. x \notin L(x)
  BY BeforeIsStrict
<1>3. IsFiniteSet(S)
  BY FS_Subset, TableAssumption
<1>4. L(x) \in SUBSET S /\ L(y) \in SUBSET S
  OBVIOUS
<1> HIDE DEF L
<1>5. IsFiniteSet(L(x)) /\ IsFiniteSet(L(y))
  BY <1>3, <1>4, FS_Subset
<1>6. /\ IsFiniteSet(L(x) \cup {x})
      /\ Cardinality(L(x) \cup {x}) = Cardinality(L(x)) + 1
  BY <1>2, <1>5, FS_AddElement
<1>7. Cardinality(L(x)) + 1 <= Cardinality(L(y))
  BY <1>1, <1>5, <1>6, FS_Subset
<1>8. Cardinality(L(x)) \in Nat /\ Cardinality(L(y)) \in Nat
  BY <1>5, FS_CardinalityType
<1> QED
  BY <1>7, <1>8 DEF Rank, L

\* A listing never depends on how the database happens to scan: there is exactly
\* one order of the rows that buildOrderBy allows, whatever values they share.
THEOREM OneOrder ==
  ASSUME NEW S \in SUBSET Ids, NEW dir
  PROVE  \E order \in Orders(S, dir) : \A other \in Orders(S, dir) : other = order
<1> DEFINE N == Cardinality(S)
           rank == [x \in S |-> Rank(x, S, dir)]
           order == [i \in 1 .. N |-> CHOOSE x \in S : rank[x] = i]
<1>1. IsFiniteSet(S) /\ N \in Nat
  BY FS_Subset, FS_CardinalityType, TableAssumption
<1> HIDE DEF N
<1>2. rank \in [S -> 1 .. N]
  BY RankInRange DEF N
<1>3. \A x, y \in S : rank[x] < rank[y] => Before(x, y, dir)
  <2> SUFFICES ASSUME NEW x \in S, NEW y \in S, rank[x] < rank[y], ~Before(x, y, dir)
               PROVE  FALSE
    OBVIOUS
  <2>1. rank[x] \in Nat /\ rank[y] \in Nat
    BY <1>2, <1>1
  <2>2. ~Before(y, x, dir)
    <3>1. CASE Before(y, x, dir)
      <4>1. rank[y] < rank[x]
        BY <3>1, RankFollowsBefore
      <4> QED
        BY <4>1, <2>1
    <3> QED
      BY <3>1
  <2>3. x \in Nat /\ y \in Nat /\ Value[x] \in Nat /\ Value[y] \in Nat
    BY TableAssumption
  <2>4. x = y
    BY <2>2, <2>3 DEF Before, ByValueThenId
  <2> QED
    BY <2>1, <2>4
<1>4. \A x, y \in S : rank[x] = rank[y] => x = y
  <2> SUFFICES ASSUME NEW x \in S, NEW y \in S, rank[x] = rank[y], x # y
               PROVE  FALSE
    OBVIOUS
  <2>1. x \in Nat /\ y \in Nat /\ Value[x] \in Nat /\ Value[y] \in Nat
    BY TableAssumption
  <2>2. Before(x, y, dir) \/ Before(y, x, dir)
    BY <2>1 DEF Before, ByValueThenId
  <2>3. rank[x] < rank[y] \/ rank[y] < rank[x]
    BY <2>2, RankFollowsBefore
  <2>4. rank[x] \in Nat /\ rank[y] \in Nat
    BY <1>2, <1>1
  <2> QED
    BY <2>3, <2>4
<1> HIDE DEF rank
<1>5. rank \in Injection(S, 1 .. N)
  BY <1>2, <1>4 DEF Injection, IsInjective
<1>6. IsFiniteSet(1 .. N) /\ Cardinality(1 .. N) = Cardinality(S)
  BY <1>1, FS_Interval DEF N
<1>7. rank \in Surjection(S, 1 .. N)
  BY <1>5, <1>6, FS_Injection
<1>8. \A i \in 1 .. N : \E x \in S : rank[x] = i
  BY <1>7 DEF Surjection
<1>9. \A i \in 1 .. N : order[i] \in S /\ rank[order[i]] = i
  BY <1>8
<1>10. order \in [1 .. N -> S] /\ DOMAIN order = 1 .. N
  BY <1>9
<1> HIDE DEF order
<1>11. order \in Orders(S, dir)
  <2>1. \A i, j \in 1 .. N : i # j => order[i] # order[j]
    BY <1>9
  <2>2. order \in SetToSeqs(S)
    BY <1>10, <2>1 DEF SetToSeqs, N
  <2>3. \A i, j \in 1 .. N : i < j => Before(order[i], order[j], dir)
    BY <1>3, <1>9
  <2> QED
    BY <1>10, <2>2, <2>3 DEF Orders
<1>12. ASSUME NEW other \in Orders(S, dir) PROVE other = order
  <2>1. other \in [1 .. N -> S] /\ \A i \in 1 .. N : Rank(other[i], S, dir) = i
    BY OrderIsRank DEF N
  <2>2. \A i \in 1 .. N : rank[other[i]] = i
    BY <2>1 DEF rank
  <2>3. ASSUME NEW i \in 1 .. N PROVE other[i] = order[i]
    BY <1>4, <1>9, <2>1, <2>2
  <2>4. other = [i \in 1 .. N |-> other[i]] /\ order = [i \in 1 .. N |-> order[i]]
    BY <1>10, <2>1
  <2>5. [i \in 1 .. N |-> other[i]] = [i \in 1 .. N |-> order[i]]
    BY <2>3
  <2> QED
    BY <2>4, <2>5, Zenon
<1> QED
  BY <1>11, <1>12

OnPage(q) ==
  {x \in Matching(q) : On(Rank(x, Matching(q), q.dir), q.page, q.size)}

\* What the server reads for a query are the rows whose ranks are on its page.
LEMMA PageHasItsRanks ==
  ASSUME db \subseteq Ids, NEW q, q.page \in Nat \ {0}, q.size \in Nat \ {0},
         NEW order \in Orders(Matching(q), q.dir)
  PROVE  ToSet(Page(order, q)) = OnPage(q)
<1> DEFINE S == Matching(q)
           N == Cardinality(S)
           m == (q.page - 1) * q.size + 1
           u == q.page * q.size
           n == IF u < N THEN u ELSE N
           s == SubSeq(order, m, n)
<1>1. S \in SUBSET Ids
  BY DEF Matching
<1>2. IsFiniteSet(S) /\ N \in Nat
  BY <1>1, FS_Subset, FS_CardinalityType, TableAssumption
<1>3. /\ order \in [1 .. N -> S]
      /\ \A i \in 1 .. N : Rank(order[i], S, q.dir) = i
      /\ \A x \in S : \E i \in 1 .. N : order[i] = x
  BY <1>1, OrderIsRank
<1>4. m \in Nat \ {0} /\ u \in Nat
  OBVIOUS
<1> HIDE DEF S, N, m, u
<1>5. Len(order) = N
  BY <1>2, <1>3
<1>6. n \in Nat /\ n <= N /\ n <= u
  BY <1>2, <1>4
<1>7. Page(order, q) = s
  BY <1>5 DEF Page, m, u
<1> HIDE DEF n
<1>8. /\ DOMAIN s = 1 .. (n - m + 1)
      /\ \A i \in 1 .. (n - m + 1) : s[i] = order[m + i - 1]
  <2>1. \A i \in m .. n : order[i] \in S
    BY <1>2, <1>3, <1>4, <1>6
  <2>2. /\ s \in Seq(S) /\ Len(s) = IF m <= n THEN n - m + 1 ELSE 0
        /\ \A i \in 1 .. n - m + 1 : s[i] = order[m + i - 1]
    BY <2>1, <1>4, <1>6, SubSeqProperties
  <2>3. 1 .. Len(s) = 1 .. (n - m + 1)
    BY <2>2, <1>4, <1>6
  <2> QED
    BY <2>2, <2>3
<1> HIDE DEF s
<1>9. ToSet(s) = {order[i] : i \in m .. n}
  <2>1. ASSUME NEW i \in m .. n
        PROVE  \E j \in 1 .. (n - m + 1) : s[j] = order[i]
    <3>1. i - m + 1 \in 1 .. (n - m + 1) /\ m + (i - m + 1) - 1 = i
      BY <1>4, <1>6
    <3> QED
      BY <3>1, <1>8
  <2>2. ASSUME NEW j \in 1 .. (n - m + 1)
        PROVE  \E i \in m .. n : s[j] = order[i]
    <3>1. m + j - 1 \in m .. n
      BY <1>4, <1>6
    <3>2. s[j] = order[m + j - 1]
      BY <1>8
    <3> QED
      BY <3>1, <3>2
  <2>3. ToSet(s) = {s[j] : j \in 1 .. (n - m + 1)}
    BY <1>8 DEF ToSet
  <2> QED
    BY <2>1, <2>2, <2>3
<1>10. ASSUME NEW i \in 1 .. N
       PROVE  i \in m .. n <=> On(i, q.page, q.size)
  <2>1. On(i, q.page, q.size) <=> m - 1 < i /\ i <= u
    BY <1>4 DEF On, m, u
  <2> QED
    BY <2>1, <1>2, <1>4, <1>6 DEF n
<1>11. OnPage(q) = {x \in S : On(Rank(x, S, q.dir), q.page, q.size)}
  BY DEF OnPage, S
<1>12. \A i \in m .. n : i \in 1 .. N
  BY <1>2, <1>4, <1>6
<1> QED
  BY <1>3, <1>7, <1>9, <1>10, <1>11, <1>12

-----------------------------------------------------------------------------
(* Turning through the pages. *)

Query == [page : Nat \ {0}, size : Nat \ {0}, dir : {"asc", "desc"},
          filter : Filters, search : Searches]

\* Those of the rows there are whose rank is on one of some pages.
OnPages(q, pages) ==
  {x \in Matching(q) : \E p \in pages : On(Rank(x, Matching(q), q.dir), p, q.size)}

\* The query is one; the rows that have been read and are all still so are those
\* of the page the table is at; the walk has shown the rows of its pages.
QueryOK == query \in Query /\ input \in Searches /\ db \subseteq Ids
ReadOK ==
  loading /\ request.q = query /\ request.read # None /\ request.fresh
    => ToSet(request.read) = OnPage(query)
WalkOK == walk.rows = OnPages(query, walk.pages)

CallOK ==
  action # None => /\ {"kind", "ids"} \subseteq DOMAIN action
                   /\ action.kind = "create" => action.ids \subseteq Ids

WalkInv == QueryOK /\ ReadOK /\ WalkOK

\* The same query but for its page has the same rows on the same pages.
LEMMA SameOrderSamePages ==
  ASSUME NEW p \in Query, NEW q \in Query, SameOrder(p, q), NEW pages
  PROVE  OnPages(p, pages) = OnPages(q, pages)
<1>1. /\ [p EXCEPT !.page = 1] = [q EXCEPT !.page = 1]
      /\ p = [page |-> p.page, size |-> p.size, dir |-> p.dir, filter |-> p.filter, search |-> p.search]
      /\ q = [page |-> q.page, size |-> q.size, dir |-> q.dir, filter |-> q.filter, search |-> q.search]
  BY DEF SameOrder, Query
<1>2. p.size = q.size /\ p.dir = q.dir /\ p.filter = q.filter /\ p.search = q.search
  BY <1>1
<1>3. Matching(p) = Matching(q)
  BY <1>2 DEF Matching
<1> QED
  BY <1>2, <1>3 DEF OnPages

\* A table that goes to another query.
LEMMA GoByWalk ==
  ASSUME WalkInv, NEW q \in Query, NEW others, GoBy(q, others), input' \in Searches
  PROVE  WalkInv'
<1>1. query' = q /\ db' = db
  BY DEF GoBy
<1>2. QueryOK'
  BY <1>1 DEF WalkInv, QueryOK
<1>3. ReadOK'
  BY DEF ReadOK, GoBy, Load, Asked
<1>4. WalkOK'
  <2>1. CASE SameOrder(query, q)
    <3>1. walk' = walk
      BY <2>1 DEF GoBy
    <3>2. OnPages(query, walk.pages) = OnPages(q, walk.pages)
      BY <2>1, SameOrderSamePages DEF WalkInv, QueryOK
    <3>3. OnPages(query, walk.pages)' = OnPages(q, walk.pages)
      BY <1>1, <3>1 DEF OnPages, Matching
    <3> QED
      BY <3>1, <3>2, <3>3 DEF WalkInv, WalkOK
  <2>2. CASE ~SameOrder(query, q)
    <3>1. walk'.pages = {} /\ walk'.rows = {}
      BY <2>2 DEF GoBy, Nothing
    <3> QED
      BY <3>1 DEF WalkOK, OnPages
  <2> QED
    BY <2>1, <2>2
<1> QED
  BY <1>2, <1>3, <1>4 DEF WalkInv

\* Another load for the query, or no load.
LEMMA AskedAgain ==
  ASSUME WalkInv, UNCHANGED <<db, query, input, walk>>,
         loading' => request'.read = None \/ (request' = request /\ loading)
  PROVE  WalkInv'
<1>1. QueryOK'
  BY DEF WalkInv, QueryOK
<1>2. ReadOK'
  <2>1. OnPage(query)' = OnPage(query)
    BY DEF OnPage, Matching
  <2>2. CASE loading' /\ request' = request /\ loading
    BY <2>1, <2>2 DEF WalkInv, ReadOK
  <2>3. CASE ~loading' \/ request'.read = None
    BY <2>3 DEF ReadOK
  <2> QED
    BY <2>2, <2>3
<1>3. WalkOK'
  BY DEF WalkInv, WalkOK, OnPages, Matching
<1> QED
  BY <1>1, <1>2, <1>3 DEF WalkInv

\* Nothing read or shown before the rows change counts.
LEMMA ChangeWalk ==
  ASSUME WalkInv, NEW present, RowsChange(present), present \subseteq Ids,
         UNCHANGED <<query, input>>
  PROVE  WalkInv'
<1>1. QueryOK'
  BY DEF WalkInv, QueryOK, RowsChange
<1>2. ReadOK'
  BY DEF RowsChange, ReadOK
<1>3. WalkOK'
  BY DEF RowsChange, Nothing, WalkOK, OnPages
<1> QED
  BY <1>1, <1>2, <1>3 DEF WalkInv

LEMMA WalkInit == Init => WalkInv /\ CallOK
<1> SUFFICES ASSUME Init PROVE WalkInv /\ CallOK
  OBVIOUS
<1>1. query \in Query
  BY TableAssumption DEF Init, Query
<1>2. QueryOK
  BY <1>1, TableAssumption DEF Init, QueryOK
<1>3. ReadOK
  BY DEF Init, Asked, ReadOK
<1>4. walk.rows = {} /\ walk.pages = {}
  BY DEF Init, Nothing
<1>5. WalkOK
  BY <1>4 DEF WalkOK, OnPages
<1> QED
  BY <1>2, <1>3, <1>5 DEF WalkInv, CallOK, Init

\* What an action creates is one of the rows there can be.
LEMMA CallStep == CallOK /\ [Next]_vars => CallOK'
<1> SUFFICES ASSUME CallOK, [Next]_vars PROVE CallOK'
  OBVIOUS
<1>1. CASE UNCHANGED action
  BY <1>1 DEF CallOK
<1>2. ASSUME action' = None PROVE CallOK'
  BY <1>2 DEF CallOK
<1>3. ASSUME NEW kind, NEW ids, Call(kind, ids), kind = "create" => ids \subseteq Ids
      PROVE  CallOK'
  <2>1. action' = [kind |-> kind, ids |-> ids, done |-> FALSE, q |-> query]
    BY <1>3 DEF Call
  <2> QED
    BY <2>1, <1>3 DEF CallOK
<1>4. CASE ServerActs
  <2>1. action # None /\ action' = [action EXCEPT !.done = TRUE]
    BY <1>4 DEF ServerActs
  <2> QED
    BY <2>1 DEF CallOK
<1>5. ASSUME NEW r \in Ids, DeleteOne(r) \/ RetryOne(r) \/ Create(r) PROVE CallOK'
  BY <1>5, <1>3 DEF DeleteOne, RetryOne, Create
<1>6. CASE DeleteSelected \/ RetrySelected
  BY <1>6, <1>3 DEF DeleteSelected, RetrySelected
<1>7. CASE ActionAnswers \/ Created \/ ActionFails
  BY <1>7, <1>2 DEF ActionAnswers, Created, ActionFails
<1>8. CASE \/ \E n \in 1 .. Cardinality(Ids) : TurnPage(n)
           \/ ToggleSort \/ SearchSettles
           \/ \E n \in PageSizes : SetPageSize(n)
           \/ \E f \in Filters : SetFilter(f)
  BY <1>8, <1>1 DEF TurnPage, ToggleSort, SearchSettles, SetPageSize, SetFilter, GoTo, GoBy
<1>9. CASE \/ \E s \in Searches : Type(s)
           \/ ServerReads \/ Answer \/ LoadFails
           \/ \E q \in older : OlderAnswers(q) \/ OlderFails(q)
           \/ \E r \in Ids : Mark(r)
           \/ MarkAll \/ OthersChange
  BY <1>9, <1>1 DEF Type, ServerReads, Answer, LoadFails, OlderAnswers, OlderFails, Mark,
     MarkAll, OthersChange
<1>10. CASE UNCHANGED vars
  BY <1>10, <1>1 DEF vars
<1> QED
  BY <1>4, <1>5, <1>6, <1>7, <1>8, <1>9, <1>10 DEF Next

LEMMA WalkStep == WalkInv /\ CallOK /\ [Next]_vars => WalkInv'
<1> SUFFICES ASSUME WalkInv, CallOK, [Next]_vars PROVE WalkInv'
  OBVIOUS
<1>0. query \in Query /\ input \in Searches /\ db \subseteq Ids
  BY DEF WalkInv, QueryOK
<1>1. CASE UNCHANGED vars
  BY <1>1, AskedAgain DEF vars
<1>2. ASSUME NEW n \in 1 .. Cardinality(Ids), TurnPage(n) PROVE WalkInv'
  <2>1. [query EXCEPT !.page = n] \in Query
    BY <1>0 DEF Query
  <2> QED
    BY <1>0, <1>2, <2>1, GoByWalk DEF TurnPage, GoTo
<1>3. ASSUME NEW q \in Query PROVE FirstPage(q) \in Query
  BY <1>3 DEF FirstPage, Query
<1>4. CASE ToggleSort
  <2>1. [query EXCEPT !.dir = IF query.dir = "asc" THEN "desc" ELSE "asc"] \in Query
    BY <1>0 DEF Query
  <2> QED
    BY <1>0, <1>3, <1>4, <2>1, GoByWalk DEF ToggleSort, GoTo
<1>5. CASE SearchSettles
  <2>1. [query EXCEPT !.search = input] \in Query
    BY <1>0 DEF Query
  <2> QED
    BY <1>0, <1>3, <1>5, <2>1, GoByWalk DEF SearchSettles, GoTo
<1>6. ASSUME NEW n \in PageSizes, SetPageSize(n) PROVE WalkInv'
  <2>1. [query EXCEPT !.size = n] \in Query
    BY <1>0, TableAssumption DEF Query
  <2> QED
    BY <1>0, <1>3, <1>6, <2>1, GoByWalk DEF SetPageSize, GoTo
<1>7. ASSUME NEW f \in Filters, SetFilter(f) PROVE WalkInv'
  <2>1. [query EXCEPT !.filter = f] \in Query
    BY <1>0 DEF Query
  <2> QED
    BY <1>0, <1>3, <1>7, <2>1, GoByWalk DEF SetFilter
<1>8. ASSUME NEW s \in Searches, Type(s) PROVE WalkInv'
  <2>1. UNCHANGED <<db, query, loading, request, walk>> /\ input' = s
    BY <1>8 DEF Type
  <2>2. QueryOK'
    BY <2>1, <1>0 DEF QueryOK
  <2>3. ReadOK' /\ WalkOK'
    BY <2>1 DEF WalkInv, ReadOK, WalkOK, OnPage, OnPages, Matching
  <2> QED
    BY <2>2, <2>3 DEF WalkInv
<1>9. CASE ServerReads
  <2>1. UNCHANGED <<db, query, input, loading, walk>>
    BY <1>9 DEF ServerReads
  <2>2. PICK order \in Orders(Matching(request.q), request.q.dir) :
          request' = [q |-> request.q, read |-> Page(order, request.q), fresh |-> TRUE]
    BY <1>9 DEF ServerReads
  <2>3. ReadOK'
    <3>1. OnPage(query)' = OnPage(query)
      BY <2>1 DEF OnPage, Matching
    <3>2. query.page \in Nat \ {0} /\ query.size \in Nat \ {0}
      BY <1>0 DEF Query
    <3>3. request.q = query => ToSet(Page(order, query)) = OnPage(query)
      BY <1>0, <3>2, PageHasItsRanks
    <3> QED
      BY <2>1, <2>2, <3>1, <3>3 DEF ReadOK
  <2>4. QueryOK' /\ WalkOK'
    BY <2>1 DEF WalkInv, QueryOK, WalkOK, OnPages, Matching
  <2> QED
    BY <2>3, <2>4 DEF WalkInv
<1>10. CASE Answer
  <2>1. UNCHANGED <<db, query, input>> /\ ~loading' /\ loading /\ request.read # None
    BY <1>10 DEF Answer
  <2>2. QueryOK' /\ ReadOK'
    BY <2>1 DEF WalkInv, QueryOK, ReadOK
  <2>3. WalkOK'
    <3>2. CASE request.fresh /\ request.q = query
      <4>1. /\ walk'.pages = walk.pages \cup {query.page}
            /\ walk'.rows = walk.rows \cup ToSet(request.read)
        BY <1>10, <3>2 DEF Answer
      <4>2. walk.rows = OnPages(query, walk.pages) /\ ToSet(request.read) = OnPage(query)
        BY <2>1, <3>2 DEF WalkInv, ReadOK, WalkOK
      <4>3. OnPages(query, walk.pages \cup {query.page})
              = OnPages(query, walk.pages) \cup OnPage(query)
        BY DEF OnPages, OnPage
      <4>4. OnPages(query, walk.pages)' = OnPages(query, walk.pages \cup {query.page})
        BY <2>1, <4>1 DEF OnPages, Matching
      <4> QED
        BY <4>1, <4>2, <4>3, <4>4 DEF WalkOK
    <3>3. CASE ~(request.fresh /\ request.q = query)
      <4>1. walk' = walk
        BY <1>10, <3>3 DEF Answer
      <4> QED
        BY <2>1, <4>1 DEF WalkInv, WalkOK, OnPages, Matching
    <3> QED
      BY <3>2, <3>3
  <2> QED
    BY <2>2, <2>3 DEF WalkInv
<1>11. CASE LoadFails
  BY <1>11, AskedAgain DEF LoadFails
<1>12. ASSUME NEW q \in older, OlderAnswers(q) \/ OlderFails(q) PROVE WalkInv'
  BY <1>12, AskedAgain DEF OlderAnswers, OlderFails
<1>13. CASE \/ \E r \in Ids : Mark(r) \/ DeleteOne(r) \/ RetryOne(r) \/ Create(r)
            \/ MarkAll \/ DeleteSelected \/ RetrySelected \/ ActionFails
  <2>1. ASSUME NEW kind, NEW ids, Call(kind, ids) PROVE WalkInv'
    BY <2>1, AskedAgain DEF Call
  <2>2. ASSUME NEW r \in Ids, Mark(r) PROVE WalkInv'
    BY <2>2, AskedAgain DEF Mark
  <2>3. ASSUME NEW r \in Ids, DeleteOne(r) \/ RetryOne(r) \/ Create(r) PROVE WalkInv'
    BY <2>3, <2>1 DEF DeleteOne, RetryOne, Create
  <2>4. CASE DeleteSelected \/ RetrySelected
    BY <2>4, <2>1 DEF DeleteSelected, RetrySelected
  <2>5. CASE MarkAll
    BY <2>5, AskedAgain DEF MarkAll
  <2>6. CASE ActionFails
    BY <2>6, AskedAgain DEF ActionFails
  <2> QED
    BY <1>13, <2>2, <2>3, <2>4, <2>5, <2>6
<1>14. CASE ServerActs
  <2>1. (IF action.kind = "create" THEN db \cup action.ids ELSE db \ action.ids) \subseteq Ids
    BY <1>14, <1>0 DEF ServerActs, CallOK
  <2> QED
    BY <1>14, <2>1, ChangeWalk DEF ServerActs
<1>15. CASE ActionAnswers
  <2>1. UNCHANGED <<db, query, input, walk>>
    BY <1>15 DEF ActionAnswers
  <2>2. request'.read = None
    BY <1>15 DEF ActionAnswers, Reload, Asked
  <2>3. loading' => request'.read = None \/ (request' = request /\ loading)
    BY <2>2
  <2> QED
    BY <2>1, <2>3, AskedAgain
<1>16. CASE Created
  <2>1. /\ UNCHANGED <<db, input, walk>>
        /\ request'.read = None
        /\ query' = query \/ query' = FirstPage(query)
    BY <1>16 DEF Created, Reload, Asked
  <2>2. query' \in Query
    BY <1>0, <1>3, <2>1
  <2>3. QueryOK' /\ ReadOK'
    BY <1>0, <2>1, <2>2 DEF QueryOK, ReadOK
  <2>4. SameOrder(query, query')
    <3>1. CASE query' = query
      BY <3>1 DEF SameOrder
    <3>2. CASE query' = FirstPage(query)
      BY <3>2, <1>0 DEF SameOrder, FirstPage, Query
    <3> QED
      BY <2>1, <3>1, <3>2
  <2>5. WalkOK'
    <3>1. OnPages(query, walk.pages)' = OnPages(query', walk.pages)
      BY <2>1 DEF OnPages, Matching
    <3>2. OnPages(query, walk.pages) = OnPages(query', walk.pages)
      BY <1>0, <2>2, <2>4, SameOrderSamePages
    <3> QED
      BY <2>1, <3>1, <3>2 DEF WalkInv, WalkOK
  <2> QED
    BY <2>3, <2>5 DEF WalkInv
<1>17. CASE OthersChange
  <2>1. PICK r \in Ids : RowsChange(IF r \in db THEN db \ {r} ELSE db \cup {r})
    BY <1>17 DEF OthersChange
  <2>2. (IF r \in db THEN db \ {r} ELSE db \cup {r}) \subseteq Ids
    BY <1>0
  <2> QED
    BY <1>17, <2>1, <2>2, ChangeWalk DEF OthersChange
<1> QED
  BY <1>1, <1>2, <1>4, <1>5, <1>6, <1>7, <1>8, <1>9, <1>10, <1>11, <1>12, <1>13, <1>14,
     <1>15, <1>16, <1>17 DEF Next

\* Whoever has turned through all pages of rows that did not change has seen each.
THEOREM AllPagesAreAllRows == Spec => []WalkSeesAll
<1>1. WalkInv => WalkSeesAll
  <2> SUFFICES ASSUME WalkInv,
                      walk.pages = 1 .. Pages(Cardinality(Matching(query)), query.size)
               PROVE  walk.rows = Matching(query)
    BY DEF WalkSeesAll
  <2> DEFINE S == Matching(query)
  <2>1. S \in SUBSET Ids /\ query.size \in Nat \ {0}
    BY DEF WalkInv, QueryOK, Query, Matching
  <2>2. IsFiniteSet(S)
    BY <2>1, FS_Subset, TableAssumption
  <2>3. Cardinality(S) \in Nat
    BY <2>2, FS_CardinalityType
  <2>4. ASSUME NEW x \in S
        PROVE  \E p \in walk.pages : On(Rank(x, S, query.dir), p, query.size)
    <3>1. Rank(x, S, query.dir) \in 1 .. Cardinality(S)
      BY <2>1, RankInRange
    <3> QED
      BY <2>1, <2>3, <3>1, EachRankOnAPage
  <2> QED
    BY <2>4 DEF WalkInv, WalkOK, OnPages
<1> QED
  BY <1>1, WalkInit, CallStep, WalkStep, PTL DEF Spec

=============================================================================
