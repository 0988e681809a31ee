--------------------------- MODULE EntryListsProofs ---------------------------
(***************************************************************************)
(* The pages of a list and the table that shows them, for every number of  *)
(* entries, every size of a page and every interleaving of the writers;    *)
(* and the palette over it, for every content type, text and value.        *)
(***************************************************************************)
EXTENDS QueryBuilder, FiniteSetTheorems, SequenceTheorems, WellFoundedInduction, TLAPS

(* Sets laid out in a row. *)

\* Nested sets tell their elements apart by their sizes.
LEMMA NestedSetsGrow ==
  ASSUME NEW S, IsFiniteSet(S), NEW V \in SUBSET S, NEW W \in SUBSET S,
         V \subseteq W, NEW e \in W, e \notin V
  PROVE  /\ Cardinality(V) \in Nat /\ Cardinality(W) \in Nat
         /\ Cardinality(V) < Cardinality(W)
         /\ Cardinality(W) <= Cardinality(S)
<1>1. IsFiniteSet(W) /\ Cardinality(W) <= Cardinality(S)
  BY FS_Subset
<1>2. IsFiniteSet(V) /\ Cardinality(V) <= Cardinality(W) /\ Cardinality(V) # Cardinality(W)
  BY <1>1, FS_Subset
<1>3. Cardinality(V) \in Nat /\ Cardinality(W) \in Nat /\ Cardinality(S) \in Nat
  BY <1>1, <1>2, FS_CardinalityType
<1> QED BY <1>1, <1>2, <1>3

\* A set whose elements have places of their own fills a row.
LEMMA PlacesAreFilled ==
  ASSUME NEW S, IsFiniteSet(S), NEW n, n = Cardinality(S), NEW place \in [S -> 1..n],
         \A d, e \in S : place[d] = place[e] => d = e,
         NEW q, q = InPlaces(S, place)
  PROVE  /\ n \in Nat /\ q \in Seq(S) /\ Len(q) = n
         /\ \A k \in 1..n : q[k] \in S /\ place[q[k]] = k
         /\ \A e \in S : place[e] \in 1..n /\ q[place[e]] = e
<1>1. n \in Nat
  BY FS_CardinalityType
<1>2. IsFiniteSet(1..n) /\ Cardinality(1..n) = n
  BY <1>1, FS_Interval
<1>3. place \in Injection(S, 1..n)
  BY DEF Injection, IsInjective
<1>4. place \in Surjection(S, 1..n)
  BY <1>2, <1>3, FS_Injection
<1>5. \A k \in 1..n : \E e \in S : place[e] = k
  BY <1>4 DEF Surjection
<1>6. q = [k \in 1..n |-> CHOOSE e \in S : place[e] = k]
  BY DEF InPlaces
<1>7. \A k \in 1..n : q[k] \in S /\ place[q[k]] = k
  BY <1>5, <1>6
<1>8. q \in Seq(S) /\ Len(q) = n
  BY <1>1, <1>6, <1>7
<1>9. \A e \in S : place[e] \in 1..n /\ q[place[e]] = e
  BY <1>7
<1> QED BY <1>1, <1>7, <1>8, <1>9

\* The sets of a family are nested, each of its own size.
Nested(S, U) == /\ U \in [S -> SUBSET S] /\ \A e \in S : e \in U[e]
                /\ \A d, e \in S : d # e => \/ U[d] \subseteq U[e] /\ e \notin U[d]
                                            \/ U[e] \subseteq U[d] /\ d \notin U[e]

SizesOf(S, U) == [e \in S |-> Cardinality(U[e])]

\* The sizes of nested sets are such places.
LEMMA SizesArePlaces ==
  ASSUME NEW S, IsFiniteSet(S), NEW U, Nested(S, U),
         NEW n, n = Cardinality(S), NEW place, place = SizesOf(S, U)
  PROVE  /\ place \in [S -> 1..n]
         /\ \A d, e \in S : place[d] = place[e] => d = e
         /\ \A d, e \in S : d # e /\ e \notin U[d] => place[d] < place[e]
<1>1. \A e \in S : Cardinality(U[e]) \in 1..Cardinality(S)
  <2> TAKE e \in S
  <2>1. {} \subseteq U[e] /\ U[e] \in SUBSET S /\ e \in U[e]
    BY DEF Nested
  <2>2. Cardinality({}) = 0
    BY FS_EmptySet
  <2>3. Cardinality(S) \in Nat
    BY FS_CardinalityType
  <2> QED BY <2>1, <2>2, <2>3, NestedSetsGrow
<1>2. place \in [S -> 1..n] /\ \A e \in S : place[e] = Cardinality(U[e])
  BY <1>1 DEF SizesOf
<1>3. ASSUME NEW d \in S, NEW e \in S, d # e, e \notin U[d] PROVE place[d] < place[e]
  <2>1. U[d] \in SUBSET S /\ U[e] \in SUBSET S /\ U[d] \subseteq U[e] /\ e \in U[e]
    BY <1>3 DEF Nested
  <2>2. Cardinality(U[d]) < Cardinality(U[e])
    BY <1>3, <2>1, NestedSetsGrow
  <2> QED BY <1>2, <2>2
<1>4. ASSUME NEW d \in S, NEW e \in S, d # e PROVE place[d] # place[e]
  <2>1. place[d] \in Nat /\ place[e] \in Nat
    BY <1>1, <1>2
  <2>2. e \notin U[d] \/ d \notin U[e]
    BY <1>4 DEF Nested
  <2> QED BY <1>3, <1>4, <2>1, <2>2
<1> QED BY <1>2, <1>3, <1>4

\* Numbers in a row.
LEMMA NumbersInARow ==
  ASSUME NEW n \in Nat, NEW live \in SUBSET (1..n)
  PROVE  LET place == [i \in live |-> Cardinality({j \in live : j <= i})]
             order == InPlaces(live, place)
         IN  /\ IsFiniteSet(live) /\ Cardinality(live) \in Nat
             /\ order \in Seq(live) /\ Len(order) = Cardinality(live)
             /\ \A k \in 1..Cardinality(live) : order[k] \in live
             /\ \A i \in live : place[i] \in 1..Cardinality(live) /\ order[place[i]] = i
<1> DEFINE U == [i \in live |-> {j \in live : j <= i}]
           place == [i \in live |-> Cardinality({j \in live : j <= i})]
           order == InPlaces(live, place)
           m == Cardinality(live)
<1>1. IsFiniteSet(live) /\ live \subseteq Nat
  <2>1. IsFiniteSet(1..n)
    BY FS_Interval
  <2>2. \A i \in 1..n : i \in Nat
    OBVIOUS
  <2> QED BY <2>1, <2>2, FS_Subset
<1>2. U \in [live -> SUBSET live] /\ \A i \in live : i \in U[i]
  BY <1>1
<1>3. \A d, e \in live : d # e => \/ U[d] \subseteq U[e] /\ e \notin U[d]
                                  \/ U[e] \subseteq U[d] /\ d \notin U[e]
  <2> SUFFICES ASSUME NEW d \in live, NEW e \in live, d # e
               PROVE  \/ U[d] \subseteq U[e] /\ e \notin U[d]
                      \/ U[e] \subseteq U[d] /\ d \notin U[e]
    OBVIOUS
  <2>1. U[d] = {j \in live : j <= d} /\ U[e] = {j \in live : j <= e}
    OBVIOUS
  <2>2. d \in Nat /\ e \in Nat /\ \A j \in live : j \in Nat
    BY <1>1
  <2>3. \A j \in live : (d < e /\ j <= d => j <= e) /\ (e < d /\ j <= e => j <= d)
    BY <2>2
  <2>4. (d < e => ~(e <= d)) /\ (e < d => ~(d <= e)) /\ (d < e \/ e < d)
    BY <2>2
  <2> QED BY <2>1, <2>3, <2>4
<1>4. place = SizesOf(live, U)
  BY DEF SizesOf
<1>5. order = InPlaces(live, place) /\ m = Cardinality(live)
  OBVIOUS
<1> HIDE DEF U, place, order, m
<1>6. Nested(live, U)
  BY <1>2, <1>3 DEF Nested
<1>7. /\ place \in [live -> 1..m]
      /\ \A d, e \in live : place[d] = place[e] => d = e
  <2>1. IsFiniteSet(live)
    BY <1>1
  <2>2. m = Cardinality(live)
    BY <1>5
  <2> QED BY <1>4, <1>6, <2>1, <2>2, SizesArePlaces
<1>8. /\ m \in Nat /\ order \in Seq(live) /\ Len(order) = m
      /\ \A k \in 1..m : order[k] \in live
      /\ \A i \in live : place[i] \in 1..m /\ order[place[i]] = i
  <2>1. IsFiniteSet(live)
    BY <1>1
  <2> QED BY <1>5, <1>7, <2>1, PlacesAreFilled
<1> QED BY <1>1, <1>8 DEF place, order, m

-----------------------------------------------------------------------------
(* The order of a list. *)

Placed == Nat \X Nat
NotAfter(c, d) == c = d \/ Before(c, d)

\* The cursors are in one strict order.
LEMMA BeforeIsStrict ==
  ASSUME NEW c \in Placed, NEW d \in Placed
  PROVE  /\ ~(Before(c, d) /\ Before(d, c)) /\ ~Before(c, c)
         /\ c = d \/ Before(c, d) \/ Before(d, c)
<1>1. c = <<c[1], c[2]>> /\ d = <<d[1], d[2]>> /\ {c[1], c[2], d[1], d[2]} \subseteq Nat
  BY DEF Placed
<1> QED BY <1>1 DEF Before

LEMMA BeforeIsTransitive ==
  ASSUME NEW c \in Placed, NEW d \in Placed, NEW x \in Placed
  PROVE  /\ Before(c, d) /\ Before(d, x) => Before(c, x)
         /\ NotAfter(c, d) /\ Before(d, x) => Before(c, x)
         /\ Before(c, d) /\ NotAfter(d, x) => Before(c, x)
         /\ NotAfter(c, d) /\ NotAfter(d, x) => NotAfter(c, x)
<1>1. {c[1], c[2], d[1], d[2], x[1], x[2]} \subseteq Nat
  BY DEF Placed
<1>2. Before(c, d) /\ Before(d, x) => Before(c, x)
  BY <1>1 DEF Before
<1> QED BY <1>2 DEF NotAfter

RowsTyped == table \in [Entries -> Rows]

\* An entry has a cursor of its own.
LEMMA CursorsArePlaced ==
  ASSUME RowsTyped
  PROVE  /\ \A e \in Entries : CursorOf(e) \in Placed /\ CursorOf(e) # NoCursor
         /\ \A d, e \in Entries : CursorOf(d) = CursorOf(e) => d = e
<1>1. \A e \in Entries : table[e].at \in Nat /\ e \in Nat
  BY EntriesAssumption, PageAssumption DEF RowsTyped, Rows
<1>2. \A e \in Entries : Len(CursorOf(e)) = 2
  BY DEF CursorOf
<1>3. Len(NoCursor) = 0
  BY DEF NoCursor
<1>4. \A d, e \in Entries : CursorOf(d) = CursorOf(e) => d = e
  BY DEF CursorOf
<1> QED BY <1>1, <1>2, <1>3, <1>4 DEF CursorOf, Placed

\* In either direction, what precedes an entry is nested in what precedes
\* the entries after it.
LEMMA PrecedingIsNested ==
  ASSUME RowsTyped, NEW S \in SUBSET Entries, NEW backward \in BOOLEAN,
         NEW d \in S, NEW e \in S, d # e
  PROVE  /\ ~(Precedes(d, e, backward) /\ Precedes(e, d, backward))
         /\ Precedes(d, e, backward) \/ Precedes(e, d, backward)
         /\ Precedes(d, e, backward) =>
              /\ UpTo(d, S, backward) \subseteq UpTo(e, S, backward)
              /\ e \notin UpTo(d, S, backward)
<1>1. \A x \in S : CursorOf(x) \in Placed
  BY CursorsArePlaced
<1>2. CursorOf(d) # CursorOf(e)
  BY CursorsArePlaced
<1>3. ~(Precedes(d, e, backward) /\ Precedes(e, d, backward))
  BY <1>1, BeforeIsStrict DEF Precedes
<1>4. Precedes(d, e, backward) \/ Precedes(e, d, backward)
  BY <1>1, <1>2, BeforeIsStrict DEF Precedes
<1>5. ASSUME Precedes(d, e, backward), NEW x \in S, Precedes(x, d, backward)
      PROVE  Precedes(x, e, backward)
  BY <1>1, <1>5, BeforeIsTransitive DEF Precedes
<1>6. ASSUME Precedes(d, e, backward)
      PROVE  UpTo(d, S, backward) \subseteq UpTo(e, S, backward)
  BY <1>5, <1>6 DEF UpTo
<1>7. ASSUME Precedes(d, e, backward)
      PROVE  e \notin UpTo(d, S, backward)
  BY <1>3, <1>7 DEF UpTo
<1> QED BY <1>3, <1>4, <1>6, <1>7

\* A list has each of its entries once, and in order.
LEMMA ListIsInOrder ==
  ASSUME RowsTyped, NEW S \in SUBSET Entries, NEW backward \in BOOLEAN
  PROVE  LET q == InOrder(S, backward)
         IN  /\ q \in Seq(S) /\ Len(q) \in Nat
             /\ \A e \in S : \E k \in 1..Len(q) : q[k] = e
             /\ \A j, k \in 1..Len(q) : j < k => Precedes(q[j], q[k], backward)
<1> DEFINE U == [e \in S |-> UpTo(e, S, backward)]
           place == [e \in S |-> Cardinality(U[e])]
           q == InPlaces(S, place)
           n == Cardinality(S)
<1>1. IsFiniteSet(S)
  BY EntriesAssumption, FS_Subset
<1>2. U \in [S -> SUBSET S] /\ \A e \in S : e \in U[e]
  BY DEF UpTo
<1>3. \A d, e \in S : d # e => \/ U[d] \subseteq U[e] /\ e \notin U[d]
                               \/ U[e] \subseteq U[d] /\ d \notin U[e]
  <2> SUFFICES ASSUME NEW d \in S, NEW e \in S, d # e
               PROVE  \/ U[d] \subseteq U[e] /\ e \notin U[d]
                      \/ U[e] \subseteq U[d] /\ d \notin U[e]
    OBVIOUS
  <2>1. U[d] = UpTo(d, S, backward) /\ U[e] = UpTo(e, S, backward)
    OBVIOUS
  <2>2. Precedes(d, e, backward) \/ Precedes(e, d, backward)
    BY PrecedingIsNested
  <2>3. Precedes(d, e, backward) => UpTo(d, S, backward) \subseteq UpTo(e, S, backward)
                                     /\ e \notin UpTo(d, S, backward)
    BY PrecedingIsNested
  <2>4. Precedes(e, d, backward) => UpTo(e, S, backward) \subseteq UpTo(d, S, backward)
                                     /\ d \notin UpTo(e, S, backward)
    BY PrecedingIsNested
  <2> QED BY <2>1, <2>2, <2>3, <2>4
<1>4. Nested(S, U)
  BY <1>2, <1>3 DEF Nested
<1>5. place = SizesOf(S, U) /\ q = InPlaces(S, place) /\ n = Cardinality(S)
  BY DEF SizesOf
<1> HIDE DEF U, place, q, n
<1>6. /\ place \in [S -> 1..n]
      /\ \A d, e \in S : place[d] = place[e] => d = e
      /\ \A d, e \in S : d # e /\ e \notin U[d] => place[d] < place[e]
  BY <1>1, <1>4, <1>5, SizesArePlaces
<1>7. /\ n \in Nat /\ q \in Seq(S) /\ Len(q) = n
      /\ \A k \in 1..n : q[k] \in S /\ place[q[k]] = k
      /\ \A e \in S : place[e] \in 1..n /\ q[place[e]] = e
  BY <1>1, <1>5, <1>6, PlacesAreFilled
<1>8. ASSUME NEW j \in 1..n, NEW k \in 1..n, j < k
      PROVE  Precedes(q[j], q[k], backward)
  <2>1. q[j] \in S /\ q[k] \in S /\ place[q[j]] = j /\ place[q[k]] = k /\ j # k
    BY <1>7, <1>8
  <2>2. q[j] # q[k] /\ ~(place[q[k]] < place[q[j]])
    BY <1>7, <1>8, <2>1
  <2>3. q[j] \in U[q[k]]
    BY <1>6, <2>1, <2>2
  <2>4. U[q[k]] = UpTo(q[k], S, backward)
    BY <2>1 DEF U
  <2> QED BY <2>2, <2>3, <2>4 DEF UpTo
<1>9. q = InOrder(S, backward)
  <2>1. place = [e \in S |-> Cardinality(UpTo(e, S, backward))]
    BY DEF place, U
  <2> QED BY <2>1 DEF q, InOrder
<1>10. \A e \in S : \E k \in 1..n : q[k] = e
  BY <1>7
<1> QED BY <1>7, <1>8, <1>9, <1>10

-----------------------------------------------------------------------------
(* A page. *)

CursorOrNone == {NoCursor} \cup Placed
Has(rows, e) == \E i \in 1..Len(rows) : rows[i] = e

\* The edges of a page are cursors, both or none, and not crossed.
EdgesOK(info) ==
  /\ info.next \in BOOLEAN
  /\ info.start \in CursorOrNone /\ info.end \in CursorOrNone
  /\ info.start = NoCursor <=> info.end = NoCursor
  /\ info.end # NoCursor => NotAfter(info.start, info.end)

\* What is past the cursor is on the page, or after its end and announced.
Covers(pg, e) ==
  \/ Has(pg.rows, e)
  \/ pg.info.next /\ pg.info.end # NoCursor /\ Before(pg.info.end, CursorOf(e))

LEMMA ForwardPage ==
  ASSUME RowsTyped, NEW who, NEW f, NEW after, NEW before,
         before = NoCursor \/ after # NoCursor
  PROVE  LET pg == KeysetPage(who, f, after, before)
         IN  /\ pg.rows \in Seq(Entries) /\ EdgesOK(pg.info)
             /\ \A e \in Listed(who, f) : Beyond(after, e, FALSE) => Covers(pg, e)
<1> DEFINE S == {e \in Listed(who, f) : Beyond(after, e, FALSE)}
           q == InOrder(S, FALSE)
           n == IF Len(q) > PerPage THEN PerPage + 1 ELSE Len(q)
           fetched == SubSeq(q, 1, n)
           extra == Len(fetched) > PerPage
           rows == IF extra THEN SubSeq(fetched, 1, PerPage) ELSE fetched
           pg == KeysetPage(who, f, after, before)
<1>1. S \in SUBSET Entries /\ FALSE \in BOOLEAN
  BY DEF Listed
<1> HIDE DEF S
<1>2. q \in Seq(S) /\ Len(q) \in Nat /\ \A e \in S : \E k \in 1..Len(q) : q[k] = e
  BY <1>1, ListIsInOrder
<1>3. \A j, k \in 1..Len(q) : j < k => Precedes(q[j], q[k], FALSE)
  BY <1>1, ListIsInOrder
<1> HIDE DEF q
<1>4. PerPage \in Nat /\ PerPage > 0
  BY PageAssumption
<1>5. n \in 0..Len(q) /\ (Len(q) > PerPage <=> n > PerPage) /\ (Len(q) > PerPage => n = PerPage + 1)
      /\ (~(Len(q) > PerPage) => n = Len(q))
  BY <1>2, <1>4
<1> HIDE DEF n
<1>6. fetched \in Seq(S) /\ Len(fetched) = n /\ \A k \in 1..n : fetched[k] = q[k]
  BY <1>2, <1>5
<1> HIDE DEF fetched
<1>7. PICK m \in Nat : /\ m <= Len(q) /\ Len(rows) = m /\ rows \in Seq(S)
                       /\ \A k \in 1..m : rows[k] = q[k]
                       /\ IF extra THEN m = PerPage /\ PerPage < Len(q) ELSE m = Len(q)
  <2>1. CASE extra
    <3>1. n = PerPage + 1 /\ PerPage < Len(q)
      BY <1>2, <1>4, <1>5, <1>6, <2>1
    <3>2. rows = SubSeq(fetched, 1, PerPage)
      BY <2>1
    <3>3. rows \in Seq(S) /\ Len(rows) = PerPage /\ \A k \in 1..PerPage : rows[k] = fetched[k]
      BY <1>4, <1>6, <3>1, <3>2
    <3>4. PerPage <= Len(q) /\ rows \in Seq(S) /\ Len(rows) = PerPage
      BY <1>2, <1>4, <3>1, <3>3
    <3>5. \A k \in 1..PerPage : rows[k] = q[k]
      <4> TAKE k \in 1..PerPage
      <4>1. k \in 1..n
        BY <1>4, <3>1
      <4> QED BY <1>6, <3>3, <4>1
    <3> QED BY <1>4, <2>1, <3>1, <3>4, <3>5
  <2>2. CASE ~extra
    <3>1. n = Len(q)
      BY <1>2, <1>4, <1>5, <1>6, <2>2
    <3> QED BY <1>2, <1>6, <2>2, <3>1
  <2> QED BY <2>1, <2>2
<1>8. /\ pg.rows = rows /\ pg.info.next = extra
      /\ pg.info.start = IF rows = <<>> THEN NoCursor ELSE CursorOf(rows[1])
      /\ pg.info.end = IF rows = <<>> THEN NoCursor ELSE CursorOf(rows[Len(rows)])
  BY DEF KeysetPage, Last, rows, extra, fetched, n, q, S, NoCursor
<1> HIDE DEF rows, extra, pg
<1>9. rows = <<>> <=> m = 0
  BY <1>7
<1>10. \A k \in 1..m : rows[k] \in Entries /\ CursorOf(rows[k]) \in Placed
                       /\ CursorOf(rows[k]) # NoCursor
  BY <1>1, <1>7, CursorsArePlaced
<1>11. rows \in Seq(Entries) /\ extra \in BOOLEAN
  BY <1>1, <1>7 DEF extra
<1>12. EdgesOK(pg.info)
  <2>1. CASE m = 0
    BY <1>8, <1>9, <1>11, <2>1 DEF EdgesOK, CursorOrNone
  <2>2. CASE m # 0
    <3>1. m \in 1..m /\ 1 \in 1..m
      BY <2>2
    <3>2. pg.info.start = CursorOf(rows[1]) /\ pg.info.end = CursorOf(rows[m])
      BY <1>7, <1>8, <1>9, <2>2
    <3>3. m # 1 => Before(CursorOf(rows[1]), CursorOf(rows[m]))
      <4>1. 1 \in 1..Len(q) /\ m \in 1..Len(q) /\ rows[1] = q[1] /\ rows[m] = q[m]
        BY <1>2, <1>7, <3>1, SMTT(40)
      <4>2. m # 1 => 1 < m
        BY <3>1
      <4>3. 1 < m => Precedes(q[1], q[m], FALSE)
        BY <1>3, <4>1
      <4> QED BY <4>1, <4>2, <4>3 DEF Precedes
    <3>4. NotAfter(pg.info.start, pg.info.end)
      BY <3>2, <3>3 DEF NotAfter
    <3> QED BY <1>8, <1>10, <1>11, <3>1, <3>2, <3>4 DEF EdgesOK, CursorOrNone
  <2> QED BY <2>1, <2>2
<1>13. ASSUME NEW e \in S PROVE Covers(pg, e)
  <2>1. PICK k \in 1..Len(q) : q[k] = e
    BY <1>2
  <2>2. CASE k <= m
    <3>1. k \in 1..m /\ rows[k] = e
      <4>1. k \in 1..m
        BY <1>2, <2>1, <2>2
      <4> QED BY <1>7, <2>1, <4>1
    <3>2. Has(rows, e)
      BY <1>7, <3>1 DEF Has
    <3> QED BY <1>8, <3>2 DEF Covers
  <2>3. CASE m < k
    <3>1. extra /\ m \in 1..Len(q) /\ m \in 1..m
      BY <1>2, <1>4, <1>7, <2>3, SMTT(40)
    <3>2. Precedes(q[m], q[k], FALSE)
      BY <1>3, <2>3, <3>1
    <3>3. rows[m] = q[m] /\ rows # <<>>
      BY <1>7, <1>9, <3>1
    <3>4. pg.info.end = CursorOf(rows[m]) /\ CursorOf(rows[m]) # NoCursor
      BY <1>7, <1>8, <1>10, <3>1, <3>3
    <3> QED BY <1>8, <2>1, <3>1, <3>2, <3>3, <3>4 DEF Covers, Precedes
  <2> QED BY <1>2, <1>7, <2>1, <2>2, <2>3
<1>14. \A e \in Listed(who, f) : Beyond(after, e, FALSE) => Covers(pg, e)
  BY <1>13 DEF S
<1>15. pg.rows \in Seq(Entries)
  BY <1>8, <1>11
<1> QED BY <1>12, <1>14, <1>15 DEF pg

\* A page read backwards ends before the cursor it was read from.
LEMMA BackwardPage ==
  ASSUME RowsTyped, NEW who, NEW f, NEW before, before # NoCursor
  PROVE  LET pg == KeysetPage(who, f, NoCursor, before)
         IN  /\ pg.rows \in Seq(Entries) /\ EdgesOK(pg.info) /\ pg.info.next
             /\ pg.info.end # NoCursor => Before(pg.info.end, before)
<1> DEFINE S == {e \in Listed(who, f) : Beyond(before, e, TRUE)}
           q == InOrder(S, TRUE)
           n == IF Len(q) > PerPage THEN PerPage + 1 ELSE Len(q)
           fetched == SubSeq(q, 1, n)
           extra == Len(fetched) > PerPage
           kept == IF extra THEN SubSeq(fetched, 1, PerPage) ELSE fetched
           rows == Reverse(kept)
           pg == KeysetPage(who, f, NoCursor, before)
<1>1. S \in SUBSET Entries /\ TRUE \in BOOLEAN /\ \A e \in S : Before(CursorOf(e), before)
  BY DEF Listed, Beyond
<1> HIDE DEF S
<1>2. q \in Seq(S) /\ Len(q) \in Nat
  BY <1>1, ListIsInOrder
<1>3. \A j, k \in 1..Len(q) : j < k => Precedes(q[j], q[k], TRUE)
  BY <1>1, ListIsInOrder
<1> HIDE DEF q
<1>4. PerPage \in Nat /\ PerPage > 0
  BY PageAssumption
<1>5. n \in 0..Len(q) /\ (n > PerPage => n = PerPage + 1)
  BY <1>2, <1>4
<1> HIDE DEF n
<1>6. fetched \in Seq(S) /\ Len(fetched) = n /\ \A k \in 1..n : fetched[k] = q[k]
  BY <1>2, <1>5
<1> HIDE DEF fetched
<1>7. PICK m \in Nat : /\ m <= Len(q) /\ Len(kept) = m /\ kept \in Seq(S)
                       /\ \A k \in 1..m : kept[k] = q[k]
  <2>1. CASE extra
    <3>1. n = PerPage + 1
      BY <1>5, <1>6, <2>1
    <3>2. kept = SubSeq(fetched, 1, PerPage)
      BY <2>1
    <3>3. kept \in Seq(S) /\ Len(kept) = PerPage /\ \A k \in 1..PerPage : kept[k] = fetched[k]
      BY <1>4, <1>6, <3>1, <3>2
    <3> QED BY <1>2, <1>4, <1>5, <1>6, <3>1, <3>3
  <2>2. CASE ~extra
    BY <1>2, <1>5, <1>6, <2>2
  <2> QED BY <2>1, <2>2
<1>8. /\ pg.rows = rows /\ pg.info.next = TRUE
      /\ pg.info.start = IF rows = <<>> THEN NoCursor ELSE CursorOf(rows[1])
      /\ pg.info.end = IF rows = <<>> THEN NoCursor ELSE CursorOf(rows[Len(rows)])
  BY DEF KeysetPage, Last, rows, kept, extra, fetched, n, q, S, NoCursor
<1> HIDE DEF kept, extra, pg
<1>9. rows = [k \in 1..m |-> kept[(m - k) + 1]]
  BY <1>7 DEF Reverse
<1>10. rows \in Seq(S) /\ Len(rows) = m /\ \A k \in 1..m : rows[k] = kept[(m - k) + 1]
  BY <1>7, <1>9
<1> HIDE DEF rows
<1>11. (rows = <<>> <=> m = 0) /\ rows \in Seq(Entries)
  BY <1>1, <1>10
<1>12. CASE m = 0
  BY <1>8, <1>11, <1>12 DEF EdgesOK, CursorOrNone, pg
<1>13. CASE m # 0
  <2>1. m \in 1..m /\ 1 \in 1..m /\ m \in 1..Len(q) /\ 1 \in 1..Len(q)
    BY <1>2, <1>7, <1>13
  <2>2. rows[1] = q[m] /\ rows[m] = q[1] /\ q[1] \in S /\ q[m] \in S
    <3>1. (m - 1) + 1 = m /\ (m - m) + 1 = 1
      OBVIOUS
    <3>2. rows[1] = kept[m] /\ rows[m] = kept[1]
      BY <1>10, <2>1, <3>1
    <3>3. kept[m] = q[m] /\ kept[1] = q[1]
      BY <1>7, <2>1
    <3>4. q[1] \in S /\ q[m] \in S
      BY <1>2, <2>1
    <3> QED BY <3>2, <3>3, <3>4
  <2>3. pg.info.start = CursorOf(q[m]) /\ pg.info.end = CursorOf(q[1])
    BY <1>8, <1>10, <1>11, <1>13, <2>2
  <2>4. m # 1 => Before(CursorOf(q[m]), CursorOf(q[1]))
    BY <1>2, <1>3, <1>7, <2>1 DEF Precedes
  <2>5. NotAfter(pg.info.start, pg.info.end)
    BY <2>3, <2>4 DEF NotAfter
  <2>6. /\ CursorOf(q[1]) \in Placed /\ CursorOf(q[1]) # NoCursor
        /\ CursorOf(q[m]) \in Placed /\ CursorOf(q[m]) # NoCursor
    BY <1>1, <2>2, CursorsArePlaced
  <2>7. Before(pg.info.end, before)
    BY <1>1, <2>2, <2>3
  <2>8. EdgesOK(pg.info)
    BY <1>8, <2>3, <2>5, <2>6 DEF EdgesOK, CursorOrNone
  <2> QED BY <1>8, <1>11, <2>7, <2>8 DEF pg
<1> QED BY <1>12, <1>13

-----------------------------------------------------------------------------
(* The rows that are shown of a page. *)

\* A set of numbers that is not empty has a least one.
LEMMA LeastOf ==
  ASSUME NEW S \in SUBSET Nat, S # {}
  PROVE  \E t \in S : \A u \in S : t <= u
<1>1. PICK t \in S : \A u \in S : ~(<<u, t>> \in OpToRel(<, Nat))
  BY NatLessThanWellFounded, WFMin
<1>2. ASSUME NEW u \in S PROVE t <= u
  <2>1. t \in Nat /\ u \in Nat
    OBVIOUS
  <2>2. ~(u < t)
    BY <1>1, <2>1 DEF OpToRel
  <2> QED BY <2>1, <2>2
<1> QED BY <1>2

\* A status that is looked for and there is found.
LEMMA FirstIsThere ==
  ASSUME NEW has, NEW order \in Seq(Statuses)
  PROVE  /\ (\E i \in 1..Len(order) : order[i] \in has) => FirstOf(has, order) \in has
         /\ ~(\E i \in 1..Len(order) : order[i] \in has) => FirstOf(has, order) = "none"
<1> DEFINE S == {i \in 1..Len(order) : order[i] \in has}
<1>1. DOMAIN order = 1..Len(order) /\ Len(order) \in Nat
  OBVIOUS
<1>2. ASSUME S # {} PROVE FirstOf(has, order) \in has
  <2>1. S \in SUBSET Nat
    BY <1>1
  <2>2. PICK t \in S : \A u \in S : t <= u
    BY <1>2, <2>1, LeastOf
  <2>3. ASSUME NEW j \in 1..t - 1 PROVE order[j] \notin has
    <3>1. j \in 1..Len(order) /\ ~(t <= j)
      BY <1>1
    <3> QED BY <2>2, <3>1
  <2>4. \E i \in DOMAIN order : order[i] \in has /\ \A j \in 1..i - 1 : order[j] \notin has
    BY <1>1, <2>3
  <2> QED BY <2>4 DEF FirstOf
<1>3. ASSUME S = {} PROVE FirstOf(has, order) = "none"
  BY <1>1, <1>3 DEF FirstOf
<1> QED BY <1>2, <1>3

\* An entry that is listed has a version to show.
LEMMA ListedIsShown ==
  ASSUME RowsTyped, NEW f \in Filters, NEW e \in Listed(surface, f)
  PROVE  StatusOf(e, f) # "none"
<1> DEFINE has == table[e].has
<1>1. e \in Entries /\ Matches(e, surface, f) /\ table[e].there
  BY DEF Listed, Matches
<1>2. has \in SUBSET Statuses /\ has # {} /\ "none" \notin has
  BY <1>1 DEF RowsTyped, Rows, Statuses
<1>3. StatusOf(e, f) = DisplayStatus(has, surface, f)
  BY <1>1 DEF StatusOf
<1>4. CASE surface = "public"
  <2>1. "PUBLISHED" \in has
    BY <1>1, <1>4 DEF Matches
  <2> DEFINE order == <<"PUBLISHED">>
  <2>2. order \in Seq(Statuses) /\ Len(order) = 1 /\ order[1] = "PUBLISHED" /\ 1 \in 1..Len(order)
    BY DEF Statuses
  <2>3. DisplayStatus(has, surface, f) = FirstOf(has, order)
    BY <1>4 DEF DisplayStatus
  <2> HIDE DEF order
  <2> QED BY <1>2, <1>3, <2>1, <2>2, <2>3, FirstIsThere
<1>5. CASE surface # "public" /\ f = "archived"
  <2>1. "ARCHIVED" \in has
    BY <1>1, <1>5 DEF Matches
  <2> DEFINE order == <<"ARCHIVED">>
  <2>2. order \in Seq(Statuses) /\ Len(order) = 1 /\ order[1] = "ARCHIVED" /\ 1 \in 1..Len(order)
    BY DEF Statuses
  <2>3. DisplayStatus(has, surface, f) = FirstOf(has, order)
    BY <1>5 DEF DisplayStatus
  <2> HIDE DEF order
  <2> QED BY <1>2, <1>3, <2>1, <2>2, <2>3, FirstIsThere
<1>6. CASE surface # "public" /\ f = "all"
  <2> DEFINE order == <<"CHANGED", "DRAFT", "PUBLISHED", "ARCHIVED">>
  <2>1. order \in Seq(Statuses) /\ Len(order) = 4
    BY DEF Statuses
  <2>2. order[1] = "CHANGED" /\ order[2] = "DRAFT" /\ order[3] = "PUBLISHED" /\ order[4] = "ARCHIVED"
    OBVIOUS
  <2>3. DisplayStatus(has, surface, f) = FirstOf(has, order)
    BY <1>6 DEF DisplayStatus
  <2>4. {1, 2, 3, 4} \subseteq 1..Len(order)
    BY <2>1
  <2> HIDE DEF order
  <2>5. \E i \in {1, 2, 3, 4} : order[i] \in has
    BY <1>2, <2>2 DEF Statuses
  <2> QED BY <1>2, <1>3, <2>1, <2>3, <2>4, <2>5, FirstIsThere
<1>7. CASE surface # "public" /\ f = "active"
  <2> DEFINE order == <<"CHANGED", "DRAFT", "PUBLISHED">>
  <2>1. order \in Seq(Statuses) /\ Len(order) = 3
    BY DEF Statuses
  <2>2. order[1] = "CHANGED" /\ order[2] = "DRAFT" /\ order[3] = "PUBLISHED"
    OBVIOUS
  <2>3. DisplayStatus(has, surface, f) = FirstOf(has, order)
    BY <1>7 DEF DisplayStatus
  <2>4. {1, 2, 3} \subseteq 1..Len(order)
    BY <2>1
  <2> HIDE DEF order
  <2>5. "ARCHIVED" \notin has
    BY <1>1, <1>7 DEF Matches
  <2>6. \E i \in {1, 2, 3} : order[i] \in has
    BY <1>2, <2>2, <2>5 DEF Statuses
  <2> QED BY <1>2, <1>3, <2>1, <2>3, <2>4, <2>6, FirstIsThere
<1> QED BY <1>4, <1>5, <1>6, <1>7 DEF Filters

\* An entry that is published and nothing else is shown as published.
LEMMA PublishedIsShownAsThat ==
  ASSUME NEW e, NEW f, table[e].there, table[e].has = {"PUBLISHED"}
  PROVE  StatusOf(e, f) \in {"none", "PUBLISHED"}
<1>1. \A order \in Seq(Statuses) : FirstOf({"PUBLISHED"}, order) \in {"none", "PUBLISHED"}
  BY FirstIsThere
<1>2. /\ <<"PUBLISHED">> \in Seq(Statuses)
      /\ <<"ARCHIVED">> \in Seq(Statuses)
      /\ <<"CHANGED", "DRAFT", "PUBLISHED", "ARCHIVED">> \in Seq(Statuses)
      /\ <<"CHANGED", "DRAFT", "PUBLISHED">> \in Seq(Statuses)
  BY DEF Statuses
<1>3. StatusOf(e, f) = DisplayStatus({"PUBLISHED"}, surface, f)
  BY DEF StatusOf
<1>4. \E order \in Seq(Statuses) : DisplayStatus({"PUBLISHED"}, surface, f) = FirstOf({"PUBLISHED"}, order)
  BY <1>2 DEF DisplayStatus
<1> QED BY <1>1, <1>3, <1>4

\* The rows shown are those of the page that have a version to show.
LEMMA ShownAreTheLive ==
  ASSUME NEW rows \in Seq(Entries), NEW f
  PROVE  LET shows == Resolved(rows, f)
         IN  /\ Len(shows) \in Nat /\ DOMAIN shows = 1..Len(shows)
             /\ \A k \in DOMAIN shows : /\ shows[k].id \in Entries
                                        /\ shows[k].status = StatusOf(shows[k].id, f)
                                        /\ shows[k].status # "none"
             /\ \A e : Has(rows, e) /\ StatusOf(e, f) # "none" => e \in IdsOf(shows)
<1> DEFINE live == {i \in DOMAIN rows : StatusOf(rows[i], f) # "none"}
           place == [i \in live |-> Cardinality({j \in live : j <= i})]
           order == InPlaces(live, place)
           n == Cardinality(live)
           shows == Resolved(rows, f)
<1>1. DOMAIN rows = 1..Len(rows) /\ Len(rows) \in Nat /\ live \in SUBSET (1..Len(rows))
  OBVIOUS
<1>2. \A i \in live : i \in DOMAIN rows /\ rows[i] \in Entries /\ StatusOf(rows[i], f) # "none"
  OBVIOUS
<1>3. \A i \in DOMAIN rows : StatusOf(rows[i], f) # "none" => i \in live
  OBVIOUS
<1>4. shows = [k \in DOMAIN order |-> [id |-> rows[order[k]], status |-> StatusOf(rows[order[k]], f)]]
  BY DEF Resolved
<1> HIDE DEF live, shows
<1>5. /\ n \in Nat /\ order \in Seq(live) /\ Len(order) = n
      /\ \A k \in 1..n : order[k] \in live
      /\ \A i \in live : place[i] \in 1..n /\ order[place[i]] = i
  BY <1>1, NumbersInARow
<1> HIDE DEF place, order, n
<1>6. DOMAIN order = 1..n
  BY <1>5
<1>7. /\ DOMAIN shows = 1..n
      /\ \A k \in 1..n : /\ shows[k].id = rows[order[k]]
                         /\ shows[k].status = StatusOf(rows[order[k]], f)
  BY <1>4, <1>6
<1>8. Len(shows) = n
  BY <1>4, <1>5, <1>6
<1>9. \A k \in 1..n : /\ shows[k].id \in Entries
                      /\ shows[k].status = StatusOf(shows[k].id, f)
                      /\ shows[k].status # "none"
  BY <1>2, <1>5, <1>7
<1>10. ASSUME NEW e, Has(rows, e), StatusOf(e, f) # "none" PROVE e \in IdsOf(shows)
  <2>1. PICK i \in 1..Len(rows) : rows[i] = e
    BY <1>10 DEF Has
  <2>2. i \in live
    BY <1>1, <1>3, <1>10, <2>1
  <2>3. place[i] \in DOMAIN shows /\ shows[place[i]].id = e
    BY <1>5, <1>7, <2>1, <2>2
  <2> QED BY <2>3 DEF IdsOf
<1>11. Len(shows) \in Nat /\ DOMAIN shows = 1..Len(shows)
  BY <1>5, <1>7, <1>8
<1>12. \A k \in DOMAIN shows : /\ shows[k].id \in Entries
                               /\ shows[k].status = StatusOf(shows[k].id, f)
                               /\ shows[k].status # "none"
  BY <1>7, <1>9
<1> QED BY <1>10, <1>11, <1>12 DEF shows

-----------------------------------------------------------------------------
(* The inductive invariant. *)

(* The requests of a fetch: all but the newest are late.  Awaits: the answer *)
(* of the newest will be shown.                                              *)
RequestOK(r) == /\ DOMAIN r = {"ask", "read", "found", "still", "late"}
                /\ r.late \in BOOLEAN /\ r.read \in BOOLEAN
FetchOK(s) == /\ s \in Seq({s[i] : i \in DOMAIN s})
              /\ \A i \in 1..Len(s) : RequestOK(s[i]) /\ (s[i].late \/ i = Len(s))
Awaits(s) == s # <<>> /\ ~s[Len(s)].late
Newest(s) == s[Len(s)]

(* The variables are of their shapes. *)
Shapes ==
  /\ RowsTyped /\ clock \in Nat /\ filter \in Filters
  /\ DOMAIN url = {"after", "before", "query"}
  /\ url.after \in CursorOrNone /\ url.before \in CursorOrNone
  /\ DOMAIN fetches = Channels /\ DOMAIN shown = Channels
  /\ \A ch \in Channels : FetchOK(fetches[ch])
  /\ EdgesOK(shown["browse"].info)
  /\ DOMAIN ticked = {"ids", "anchor"}
  /\ DOMAIN bulk = {"busy", "ids", "todo", "done"}
  /\ walk \in [seen : SUBSET Entries, still : SUBSET Entries]

(* What a fetch awaits or shows is the answer to the URL. *)
BrowseAnswersTheUrl ==
  IF Awaits(fetches["browse"]) THEN Newest(fetches["browse"]).ask = BrowseAsk(url, filter)
  ELSE shown["browse"] = Blank \/ shown["browse"].ask = BrowseAsk(url, filter)

SearchAnswersTheUrl ==
  IsSearchMode =>
    IF Awaits(fetches["search"]) THEN Newest(fetches["search"]).ask = SearchAsk(url)
    ELSE shown["search"] = Blank \/ shown["search"].ask = SearchAsk(url)

(* What the bulk publish did is in the table, and on screen unless it is     *)
(* being read again.                                                         *)
BulkIsInTheTable ==
  \A e \in bulk.done \cup fresh :
    e \in Entries /\ table[e].there /\ table[e].has = {"PUBLISHED"}

BulkIsOnScreen ==
  \/ Awaits(fetches["browse"])
  \/ \A i \in DOMAIN shown["browse"].rows :
       shown["browse"].rows[i].id \in fresh => shown["browse"].rows[i].status = "PUBLISHED"

(* The reader has seen the entries of the walk up to a cursor. *)
SeenUpTo(c) ==
  c # NoCursor => \A e \in walk.still : NotAfter(CursorOf(e), c) => e \in walk.seen

IsFirst(ask) == ask.after = NoCursor /\ ask.before = NoCursor
Forward(ask) == ask.before = NoCursor \/ ask.after # NoCursor

(* A page that was read and not yet shown: what the walk will have seen with *)
(* it.                                                                       *)
PageOK(r) ==
  /\ r.found.rows \in Seq(Entries) /\ EdgesOK(r.found.info)
  /\ r.still \subseteq Listed(surface, r.ask.filter)
  /\ IsFirst(r.ask) => \A e \in r.still : Covers(r.found, e)
  /\ Forward(r.ask) => \A e \in walk.still : Beyond(r.ask.after, e, FALSE) => Covers(r.found, e)
  /\ ~Forward(r.ask) => /\ r.found.info.next
                        /\ r.found.info.end # NoCursor => Before(r.found.info.end, r.ask.before)

WalkIsSound ==
  /\ walk.still \subseteq Listed(surface, filter)
  /\ SeenUpTo(url.after) /\ SeenUpTo(url.before)
  /\ SeenUpTo(shown["browse"].info.start) /\ SeenUpTo(shown["browse"].info.end)
  /\ WalkSeesEveryStillRow
  /\ (Awaits(fetches["browse"]) /\ Newest(fetches["browse"]).read) =>
        PageOK(Newest(fetches["browse"]))

ListsIInv ==
  /\ Shapes
  /\ BrowseAnswersTheUrl /\ SearchAnswersTheUrl
  /\ TickedRowsAreOnScreen
  /\ BulkIsInTheTable /\ BulkIsOnScreen
  /\ WalkIsSound

-----------------------------------------------------------------------------
(* What happens to the requests of a fetch. *)

\* A function on an initial segment of the numbers is a sequence.
LEMMA IsSequence ==
  ASSUME NEW n \in Nat, NEW t, t = [i \in 1..n |-> t[i]]
  PROVE  t \in Seq({t[i] : i \in DOMAIN t}) /\ Len(t) = n /\ DOMAIN t = 1..n
<1>1. DOMAIN t = 1..n /\ \A i \in 1..n : t[i] \in {t[j] : j \in DOMAIN t}
  OBVIOUS
<1> QED BY <1>1

LEMMA FetchIsSequence ==
  ASSUME NEW s, FetchOK(s)
  PROVE  /\ Len(s) \in Nat /\ DOMAIN s = 1..Len(s) /\ (s = <<>> <=> Len(s) = 0)
         /\ s = [i \in 1..Len(s) |-> s[i]]
         /\ s # <<>> => Len(s) \in 1..Len(s)
BY DEF FetchOK

\* Asking again makes all other requests late.
LEMMA AskedFetch ==
  ASSUME NEW s, FetchOK(s), NEW ask
  PROVE  LET t == Append(Overtaken(s), Request(ask))
         IN  FetchOK(t) /\ Awaits(t) /\ Newest(t) = Request(ask)
<1> DEFINE o == Overtaken(s)
           n == Len(s)
           t == Append(o, Request(ask))
<1>1. n \in Nat /\ DOMAIN s = 1..n
  BY FetchIsSequence
<1>2. o = [i \in 1..n |-> [Request(s[i].ask) EXCEPT !.late = TRUE]]
  BY <1>1 DEF Overtaken
<1>3. \A i \in 1..n : RequestOK(o[i]) /\ o[i].late
  <2> TAKE i \in 1..n
  <2>1. o[i] = [ask |-> s[i].ask, read |-> FALSE, found |-> Unread, still |-> {}, late |-> TRUE]
    BY <1>2 DEF Request
  <2> QED BY <2>1 DEF RequestOK
<1>4. o \in Seq({o[i] : i \in DOMAIN o}) /\ Len(o) = n
  <2>1. o = [i \in 1..n |-> o[i]]
    BY <1>2
  <2> HIDE DEF o
  <2> QED BY <1>1, <2>1, IsSequence
<1> HIDE DEF o, n
<1>5. PICK R : o \in Seq(R) /\ Request(ask) \in R
  <2> DEFINE R == {o[i] : i \in DOMAIN o} \cup {Request(ask)}
  <2>1. o \in Seq(R)
    BY <1>4, SeqMonotonic
  <2> QED BY <2>1
<1>6. /\ t \in Seq(R) /\ Len(t) = n + 1
      /\ t[n + 1] = Request(ask) /\ \A i \in 1..n : t[i] = o[i]
  BY <1>4, <1>5, AppendProperties
<1> HIDE DEF t
<1>7. t = [i \in 1..n + 1 |-> t[i]] /\ n + 1 \in Nat
  BY <1>1, <1>6
<1>8. t \in Seq({t[i] : i \in DOMAIN t}) /\ Len(t) = n + 1 /\ DOMAIN t = 1..n + 1
  BY <1>7, IsSequence
<1>9. RequestOK(Request(ask)) /\ ~Request(ask).late
  BY DEF RequestOK, Request
<1>10. FetchOK(t)
  <2>1. \A i \in 1..n + 1 : i = n + 1 \/ i \in 1..n
    BY <1>1
  <2> QED BY <1>3, <1>6, <1>8, <1>9, <2>1 DEF FetchOK
<1>11. Newest(t) = Request(ask) /\ t # <<>>
  BY <1>1, <1>6 DEF Newest
<1> QED BY <1>6, <1>9, <1>10, <1>11 DEF Awaits, t, o

LEMMA FirstFetch ==
  ASSUME NEW ask
  PROVE  /\ FetchOK(<<Request(ask)>>) /\ Awaits(<<Request(ask)>>)
         /\ Newest(<<Request(ask)>>) = Request(ask)
         /\ FetchOK(<<>>) /\ ~Awaits(<<>>)
<1> DEFINE r == Request(ask)
<1>1. RequestOK(r) /\ ~r.late
  BY DEF RequestOK, Request
<1> HIDE DEF r
<1>2. <<r>> \in Seq({<<r>>[i] : i \in DOMAIN <<r>>}) /\ Len(<<r>>) = 1 /\ <<r>>[1] = r
  OBVIOUS
<1>3. FetchOK(<<r>>) /\ Awaits(<<r>>) /\ Newest(<<r>>) = r
  BY <1>1, <1>2 DEF FetchOK, Awaits, Newest
<1>4. FetchOK(<<>>) /\ ~Awaits(<<>>)
  BY DEF FetchOK, Awaits
<1> QED BY <1>3, <1>4 DEF r

\* What is left without the i-th item.
LEMMA RemovedItems ==
  ASSUME NEW s, s \in Seq({s[j] : j \in DOMAIN s}), NEW i \in DOMAIN s
  PROVE  LET m == Len(s) - 1
         IN  m \in Nat /\ RemoveAt(s, i) = [j \in 1..m |-> IF j < i THEN s[j] ELSE s[j + 1]]
<1> DEFINE n == Len(s)
           t == RemoveAt(s, i)
           m == n - 1
<1>1. n \in Nat /\ DOMAIN s = 1..n /\ i \in 1..n /\ s \in Seq({s[j] : j \in DOMAIN s})
  OBVIOUS
<1>2. t = SubSeq(s, 1, i - 1) \o SubSeq(s, i + 1, n)
  BY DEF RemoveAt
<1>0. n = Len(s)
  OBVIOUS
<1> HIDE DEF t, n
<1>3. m \in Nat /\ t = [j \in 1..m |-> IF j < i THEN s[j] ELSE s[j + 1]]
  <2> DEFINE a == SubSeq(s, 1, i - 1)
             c == SubSeq(s, i + 1, n)
             R == {s[j] : j \in DOMAIN s}
  <2>1. a \in Seq(R) /\ Len(a) = i - 1 /\ \A j \in 1..i - 1 : a[j] = s[j]
    <3>1. \A j \in 1..i - 1 : s[j] \in R /\ 1 + j - 1 = j
      BY <1>1
    <3>2. 1 \in Int /\ i - 1 \in Int /\ (i - 1) - 1 + 1 = i - 1 /\ (~(1 <= i - 1) => i - 1 = 0)
      BY <1>1
    <3>3. /\ a \in Seq(R) /\ Len(a) = IF 1 <= i - 1 THEN (i - 1) - 1 + 1 ELSE 0
          /\ \A j \in 1..(i - 1) - 1 + 1 : a[j] = s[1 + j - 1]
      BY <3>1, <3>2, SubSeqProperties
    <3> QED BY <3>1, <3>2, <3>3
  <2>2. c \in Seq(R) /\ Len(c) = n - i /\ \A j \in 1..n - i : c[j] = s[i + j]
    <3>1. \A j \in i + 1..n : s[j] \in R
      BY <1>1
    <3>2. i + 1 \in Int /\ n \in Int /\ n - (i + 1) + 1 = n - i /\ (~(i + 1 <= n) => n - i = 0)
      BY <1>1
    <3>3. /\ c \in Seq(R) /\ Len(c) = IF i + 1 <= n THEN n - (i + 1) + 1 ELSE 0
          /\ \A j \in 1..n - (i + 1) + 1 : c[j] = s[(i + 1) + j - 1]
      BY <3>1, <3>2, SubSeqProperties, SMTT(30)
    <3>4. \A j \in 1..n - i : (i + 1) + j - 1 = i + j
      BY <1>1
    <3> QED BY <3>2, <3>3, <3>4
  <2> HIDE DEF a, c, R
  <2>3. Len(a) + Len(c) = m
    BY <1>1, <2>1, <2>2
  <2>4. /\ a \o c \in Seq(R) /\ Len(a \o c) = m
        /\ \A j \in 1..m : (a \o c)[j] = IF j <= i - 1 THEN a[j] ELSE c[j - (i - 1)]
    <3>1. /\ a \o c \in Seq(R) /\ Len(a \o c) = Len(a) + Len(c)
          /\ \A j \in 1..Len(a) + Len(c) : (a \o c)[j] = IF j <= Len(a) THEN a[j] ELSE c[j - Len(a)]
      BY <2>1, <2>2, ConcatProperties
    <3> QED BY <2>1, <2>3, <3>1
  <2>5. \A j \in 1..m : (a \o c)[j] = IF j < i THEN s[j] ELSE s[j + 1]
    <3> TAKE j \in 1..m
    <3>1. CASE j < i
      <4>1. j <= i - 1 /\ j \in 1..i - 1
        BY <1>1, <3>1
      <4>2. (a \o c)[j] = a[j] /\ a[j] = s[j]
        BY <2>1, <2>4, <4>1
      <4> QED BY <3>1, <4>2
    <3>2. CASE i <= j
      <4>1. /\ j - (i - 1) \in 1..n - i /\ i + (j - (i - 1)) = j + 1
            /\ ~(j <= i - 1) /\ ~(j < i)
        BY <1>1, <3>2, SMTT(40)
      <4>2. (a \o c)[j] = c[j - (i - 1)] /\ c[j - (i - 1)] = s[j + 1]
        BY <2>2, <2>4, <4>1
      <4> QED BY <4>1, <4>2
    <3>3. j < i \/ i <= j
      BY <1>1
    <3> QED BY <3>1, <3>2, <3>3
  <2>6. m \in Nat /\ DOMAIN (a \o c) = 1..m /\ a \o c = [j \in 1..m |-> (a \o c)[j]]
    <3>1. m \in Nat
      BY <1>1
    <3> QED BY <2>4, <3>1, LenProperties
  <2>7. t = a \o c
    BY <1>2 DEF a, c
  <2> HIDE DEF m
  <2> QED BY <2>5, <2>6, <2>7
<1> QED BY <1>3 DEF t, n

\* A request is answered or fails: a late one leaves the newest, the newest
\* leaves none.
LEMMA RemovedFetch ==
  ASSUME NEW s, FetchOK(s), NEW i \in DOMAIN s
  PROVE  LET t == RemoveAt(s, i)
         IN  /\ FetchOK(t)
             /\ s[i].late => (Awaits(t) <=> Awaits(s)) /\ (Awaits(s) => Newest(t) = Newest(s))
             /\ ~s[i].late => Awaits(s) /\ s[i] = Newest(s) /\ ~Awaits(t)
<1> DEFINE n == Len(s)
           t == RemoveAt(s, i)
           m == n - 1
<1>1. n \in Nat /\ DOMAIN s = 1..n /\ i \in 1..n /\ s \in Seq({s[j] : j \in DOMAIN s})
  BY FetchIsSequence DEF FetchOK
<1>0. n = Len(s)
  OBVIOUS
<1> HIDE DEF t, n
<1>3. m \in Nat /\ t = [j \in 1..m |-> IF j < i THEN s[j] ELSE s[j + 1]]
  BY <1>1, RemovedItems DEF t, n
<1>4. t \in Seq({t[j] : j \in DOMAIN t}) /\ Len(t) = m /\ DOMAIN t = 1..m
  <2>1. t = [j \in 1..m |-> t[j]]
    BY <1>3
  <2> QED BY <1>3, <2>1, IsSequence
<1>5. \A j \in 1..m : /\ j < i => t[j] = s[j] /\ j \in 1..n /\ j # n
                      /\ i <= j => t[j] = s[j + 1] /\ j + 1 \in 1..n /\ (j + 1 = n => j = m)
  <2> TAKE j \in 1..m
  <2>1. t[j] = IF j < i THEN s[j] ELSE s[j + 1]
    BY <1>3
  <2>2. /\ j < i => j \in 1..n /\ j # n
        /\ i <= j => ~(j < i) /\ j + 1 \in 1..n /\ (j + 1 = n => j = m)
    <3>1. j \in Int /\ 1 <= j /\ j <= n - 1
      BY <1>1
    <3> QED BY <1>1, <3>1
  <2> QED BY <2>1, <2>2
<1>6. \A j \in 1..n : RequestOK(s[j]) /\ (s[j].late \/ j = n)
  BY <1>0 DEF FetchOK
<1>7. FetchOK(t)
  <2>1. \A j \in 1..m : j < i \/ i <= j
    BY <1>1
  <2>2. \A j \in 1..m : RequestOK(t[j]) /\ (t[j].late \/ j = m)
    BY <1>5, <1>6, <2>1
  <2> QED BY <1>4, <2>2 DEF FetchOK
<1>8. ASSUME ~s[i].late PROVE Awaits(s) /\ s[i] = Newest(s) /\ ~Awaits(t)
  <2>1. i = n /\ s # <<>>
    <3>1. i = n
      BY <1>1, <1>6, <1>8
    <3> QED BY <1>1, <3>1
  <2>2. m # 0 => m \in 1..m /\ m < i
    BY <1>1, <1>3, <2>1
  <2>3. m # 0 => t[m].late
    BY <1>5, <1>6, <2>2
  <2>4. t # <<>> => m # 0
    BY <1>4
  <2> QED BY <1>0, <1>4, <1>8, <2>1, <2>3, <2>4 DEF Awaits, Newest
<1>9. ASSUME s[i].late
      PROVE  (Awaits(t) <=> Awaits(s)) /\ (Awaits(s) => Newest(t) = Newest(s))
  <2>1. CASE i = n
    <3>1. ~Awaits(s)
      BY <1>0, <1>9, <2>1 DEF Awaits
    <3>2. m # 0 => m \in 1..m /\ m < i
      BY <1>1, <1>3, <2>1
    <3>3. m # 0 => t[m].late
      BY <1>5, <1>6, <3>2
    <3>4. t # <<>> => m # 0
      BY <1>4
    <3> QED BY <1>4, <3>1, <3>3, <3>4 DEF Awaits
  <2>2. CASE i # n
    <3>1. m \in 1..m /\ i <= m /\ m + 1 = n
      BY <1>1, <1>3, <2>2
    <3>2. t[m] = s[n]
      BY <1>5, <3>1
    <3>3. s # <<>> /\ t # <<>>
      BY <1>1, <1>4, <3>1
    <3> QED BY <1>0, <1>4, <3>2, <3>3 DEF Awaits, Newest
  <2> QED BY <2>1, <2>2
<1> QED BY <1>7, <1>8, <1>9 DEF t

\* The newest is read.
LEMMA ReadFetch ==
  ASSUME NEW s, FetchOK(s), NEW i \in DOMAIN s, ~s[i].late, NEW r, RequestOK(r), ~r.late
  PROVE  /\ FetchOK([s EXCEPT ![i] = r]) /\ Awaits([s EXCEPT ![i] = r])
         /\ Newest([s EXCEPT ![i] = r]) = r
         /\ Awaits(s) /\ s[i] = Newest(s)
<1> DEFINE n == Len(s)
           t == [s EXCEPT ![i] = r]
<1>1. n \in Nat /\ DOMAIN s = 1..n /\ i \in 1..n
  BY FetchIsSequence
<1>2. i = n /\ s # <<>>
  <2>1. i = n
    BY <1>1 DEF FetchOK
  <2> QED BY <1>1, <2>1
<1>3. t = [j \in 1..n |-> IF j = i THEN r ELSE s[j]]
  BY <1>1, FetchIsSequence
<1>4. t = [j \in 1..n |-> t[j]]
  BY <1>3
<1>5. \A j \in 1..n : t[j] = IF j = i THEN r ELSE s[j]
  BY <1>3
<1> HIDE DEF t
<1>6. t \in Seq({t[j] : j \in DOMAIN t}) /\ Len(t) = n
  BY <1>1, <1>4, IsSequence
<1>7. FetchOK(t)
  BY <1>2, <1>5, <1>6 DEF FetchOK
<1>8. Newest(t) = r /\ t # <<>>
  <2>1. Len(t) = n /\ n \in 1..n
    BY <1>1, <1>2, <1>6
  <2>2. t[n] = r
    BY <1>2, <1>5, <2>1
  <2>3. Len(<<>>) = 0
    OBVIOUS
  <2> QED BY <2>1, <2>2, <2>3 DEF Newest
<1> QED BY <1>1, <1>2, <1>6, <1>7, <1>8 DEF Awaits, Newest, t

\* A write takes an entry out of what the requests remember.
LEMMA UnstillFetch ==
  ASSUME NEW s, FetchOK(s), NEW e,
         NEW t, t = [i \in DOMAIN s |-> Without(s[i], e)]
  PROVE  /\ FetchOK(t) /\ (Awaits(t) <=> Awaits(s))
         /\ Awaits(s) => /\ Newest(t).ask = Newest(s).ask
                         /\ Newest(t).read = Newest(s).read
                         /\ Newest(t).found = Newest(s).found
                         /\ Newest(t).still = Newest(s).still \ {e}
<1> DEFINE n == Len(s)
<1>1. n \in Nat /\ DOMAIN s = 1..n /\ (s = <<>> <=> n = 0) /\ (s # <<>> => n \in 1..n)
  BY FetchIsSequence
<1>2. t = [i \in 1..n |-> t[i]]
  BY <1>1
<1>3. \A i \in 1..n : RequestOK(s[i]) /\ (s[i].late \/ i = n)
  BY DEF FetchOK
<1>4. \A i \in 1..n : /\ RequestOK(t[i]) /\ t[i].late = s[i].late
                      /\ t[i].ask = s[i].ask /\ t[i].read = s[i].read
                      /\ t[i].found = s[i].found /\ t[i].still = s[i].still \ {e}
  <2> TAKE i \in 1..n
  <2>1. t[i] = Without(s[i], e)
    BY <1>1
  <2> QED BY <1>3, <2>1 DEF RequestOK, Without
<1>5. t \in Seq({t[i] : i \in DOMAIN t}) /\ Len(t) = n
  BY <1>1, <1>2, IsSequence
<1>6. FetchOK(t)
  BY <1>3, <1>4, <1>5, ZenonT(60) DEF FetchOK
<1>7. t = <<>> <=> s = <<>>
  BY <1>1, <1>5
<1> QED BY <1>1, <1>4, <1>5, <1>6, <1>7 DEF Awaits, Newest

-----------------------------------------------------------------------------
(* The list begins. *)

\* A set of instants up to a bound has a last one.
LEMMA LatestInstant ==
  ASSUME NEW S \in SUBSET (0..MaxTime), S # {}
  PROVE  Max(S) \in S
<1> DEFINE D == {MaxTime - t : t \in S}
<1>1. MaxTime \in Nat /\ \A t \in S : t \in Nat /\ t <= MaxTime
  BY EntriesAssumption
<1>2. D \in SUBSET Nat /\ D # {}
  <2>1. \A t \in S : MaxTime - t \in Nat
    BY <1>1
  <2> QED BY <2>1
<1>3. PICK d \in D : \A u \in D : d <= u
  BY <1>2, LeastOf
<1>4. PICK t \in S : d = MaxTime - t
  OBVIOUS
<1>5. ASSUME NEW y \in S PROVE t >= y
  <2>1. d <= MaxTime - y
    BY <1>3
  <2> QED BY <1>1, <1>4, <2>1
<1>6. \E x \in S : \A y \in S : x >= y
  BY <1>5
<1> QED BY <1>6 DEF Max

LEMMA BlankIsOK == EdgesOK(Blank.info) /\ Blank.info.start = NoCursor /\ Blank.info.end = NoCursor
                   /\ Blank.rows = <<>> /\ Blank.ask = <<>>
BY DEF Blank, EmptyPageInfo, EdgesOK, CursorOrNone

LEMMA BeginsOK ==
  ASSUME Init
  PROVE  ListsIInv
<1>1. PICK start \in Starts :
        /\ table = start.table
        /\ clock = Max({table[e].at : e \in Entries})
        /\ surface = start.surface /\ scope = start.scope
        /\ url = SearchUrl(start.query)
        /\ filter = "active" /\ resetting = FALSE
        /\ fetches = [ch \in Channels |->
              IF ch = "browse" THEN <<Request(BrowseAsk(url, "active"))>>
              ELSE IF IsSearchMode THEN <<Request(SearchAsk(url))>> ELSE <<>>]
        /\ shown = [ch \in Channels |-> Blank]
        /\ ticked = [ids |-> {}, anchor |-> 0]
        /\ bulk = NoBulk
        /\ walk = [seen |-> {}, still |-> {}]
        /\ fresh = {}
  BY DEF Init
<1>2. RowsTyped
  BY <1>1, StartAssumption DEF RowsTyped
<1>3. clock \in Nat
  <2> DEFINE S == {table[e].at : e \in Entries}
  <2>1. S \in SUBSET (0..MaxTime) /\ S # {}
    BY <1>2, EntriesAssumption DEF RowsTyped, Rows
  <2>2. Max(S) \in S
    BY <2>1, LatestInstant
  <2>3. Max(S) \in 0..MaxTime
    BY <2>1, <2>2
  <2>4. clock = Max(S)
    BY <1>1
  <2> HIDE DEF S
  <2> QED BY <2>3, <2>4, EntriesAssumption
<1>4. /\ DOMAIN url = {"after", "before", "query"}
      /\ url.after = NoCursor /\ url.before = NoCursor /\ url.query = start.query
  BY <1>1 DEF SearchUrl
<1>5. "browse" \in Channels /\ "search" \in Channels /\ \A ch \in Channels : ch \in {"browse", "search"}
  BY DEF Channels
<1>6. /\ fetches["browse"] = <<Request(BrowseAsk(url, "active"))>>
      /\ fetches["search"] = IF IsSearchMode THEN <<Request(SearchAsk(url))>> ELSE <<>>
      /\ DOMAIN fetches = Channels
  BY <1>1, <1>5
<1>7. shown["browse"] = Blank /\ shown["search"] = Blank /\ DOMAIN shown = Channels
  BY <1>1, <1>5
<1>8. \A ch \in Channels : FetchOK(fetches[ch])
  BY <1>5, <1>6, FirstFetch
<1>9. Shapes
  <2>1. url.after \in CursorOrNone /\ url.before \in CursorOrNone
    BY <1>4 DEF CursorOrNone
  <2>2. DOMAIN ticked = {"ids", "anchor"}
    BY <1>1
  <2>3. DOMAIN bulk = {"busy", "ids", "todo", "done"}
    BY <1>1 DEF NoBulk
  <2>4. walk \in [seen : SUBSET Entries, still : SUBSET Entries]
    BY <1>1
  <2>5. filter \in Filters
    BY <1>1 DEF Filters
  <2> QED BY <1>2, <1>3, <1>4, <1>6, <1>7, <1>8, <2>1, <2>2, <2>3, <2>4, <2>5, BlankIsOK DEF Shapes
<1>10. Awaits(fetches["browse"]) /\ Newest(fetches["browse"]) = Request(BrowseAsk(url, "active"))
  BY <1>6, FirstFetch
<1>11. BrowseAnswersTheUrl
  BY <1>1, <1>10 DEF BrowseAnswersTheUrl, Request
<1>12. SearchAnswersTheUrl
  BY <1>6, <1>7, FirstFetch DEF SearchAnswersTheUrl, Request
<1>13. TickedRowsAreOnScreen
  BY <1>1 DEF TickedRowsAreOnScreen
<1>14. BulkIsInTheTable
  BY <1>1 DEF BulkIsInTheTable, NoBulk
<1>15. BulkIsOnScreen
  BY <1>10 DEF BulkIsOnScreen
<1>16. WalkIsSound
  <2>1. ~Newest(fetches["browse"]).read
    BY <1>10 DEF Request
  <2>2. walk.still = {}
    BY <1>1
  <2> QED BY <1>4, <1>7, <2>1, <2>2, BlankIsOK DEF WalkIsSound, SeenUpTo, WalkSeesEveryStillRow
<1> QED BY <1>9, <1>11, <1>12, <1>13, <1>14, <1>15, <1>16 DEF ListsIInv

-----------------------------------------------------------------------------
(* What a step leaves in place: all entries but those of a set are as they  *)
(* were, and the walk no longer counts on those.                            *)

Spares(touched) ==
  /\ UNCHANGED <<surface, scope>>
  /\ \A e \in Entries \ touched : table'[e] = table[e]
  /\ walk'.still \subseteq walk.still \ touched
  /\ walk.seen \subseteq walk'.seen

LEMMA SparedEntries ==
  ASSUME NEW touched, Spares(touched), NEW e \in Entries \ touched
  PROVE  /\ CursorOf(e)' = CursorOf(e)
         /\ \A f : e \in Listed(surface, f) => (e \in Listed(surface, f))'
         /\ \A pg : Covers(pg, e) => Covers(pg, e)'
<1>1. table'[e] = table[e] /\ surface' = surface /\ scope' = scope
  BY DEF Spares
<1>2. CursorOf(e)' = CursorOf(e)
  BY <1>1 DEF CursorOf
<1>3. \A f : e \in Listed(surface, f) => (e \in Listed(surface, f))'
  BY <1>1 DEF Listed, Matches
<1>4. \A pg : Covers(pg, e) => Covers(pg, e)'
  BY <1>2 DEF Covers
<1> QED BY <1>2, <1>3, <1>4

\* What was seen stays seen.
LEMMA SeenStays ==
  ASSUME NEW touched, Spares(touched), walk.still \subseteq Entries, NEW c, SeenUpTo(c)
  PROVE  SeenUpTo(c)'
<1> SUFFICES ASSUME c # NoCursor, NEW e \in walk'.still, NotAfter(CursorOf(e)', c)
             PROVE  e \in walk'.seen
  BY DEF SeenUpTo
<1>1. e \in walk.still /\ e \in Entries \ touched
  BY DEF Spares
<1>2. CursorOf(e)' = CursorOf(e)
  BY <1>1, SparedEntries
<1>3. e \in walk.seen
  BY <1>1, <1>2 DEF SeenUpTo
<1> QED BY <1>3 DEF Spares

\* A page that was read stays as good.
LEMMA PageStays ==
  ASSUME NEW touched, Spares(touched), walk.still \subseteq Entries,
         NEW r, PageOK(r),
         NEW q, q.ask = r.ask, q.found = r.found, q.still \subseteq r.still \ touched
  PROVE  PageOK(q)'
<1>1. r.still \subseteq Entries
  BY DEF PageOK, Listed
<1>2. (q.still \subseteq Listed(surface, q.ask.filter))'
  <2> SUFFICES ASSUME NEW e \in q.still PROVE (e \in Listed(surface, q.ask.filter))'
    OBVIOUS
  <2>1. e \in Entries \ touched /\ e \in Listed(surface, r.ask.filter)
    BY <1>1 DEF PageOK
  <2> QED BY <2>1, SparedEntries
<1>3. ASSUME IsFirst(q.ask), NEW e \in q.still PROVE Covers(q.found, e)'
  <2>1. e \in Entries \ touched /\ Covers(r.found, e)
    BY <1>1, <1>3 DEF PageOK
  <2> QED BY <2>1, SparedEntries
<1>4. ASSUME Forward(q.ask), NEW e \in walk'.still, Beyond(q.ask.after, e, FALSE)'
      PROVE  Covers(q.found, e)'
  <2>1. e \in Entries \ touched /\ e \in walk.still
    BY DEF Spares
  <2>2. CursorOf(e)' = CursorOf(e)
    BY <2>1, SparedEntries
  <2>3. Beyond(r.ask.after, e, FALSE)
    BY <1>4, <2>2 DEF Beyond
  <2>4. Covers(r.found, e)
    BY <1>4, <2>1, <2>3 DEF PageOK
  <2> QED BY <2>1, <2>4, SparedEntries
<1>5. q.found.rows \in Seq(Entries) /\ EdgesOK(q.found.info)
  BY DEF PageOK
<1>6. ~Forward(q.ask) => /\ q.found.info.next
                         /\ q.found.info.end # NoCursor => Before(q.found.info.end, q.ask.before)
  BY DEF PageOK
<1> QED BY <1>2, <1>3, <1>4, <1>5, <1>6 DEF PageOK

-----------------------------------------------------------------------------
(* The reader moves. *)

LEMMA AskedChannel ==
  ASSUME DOMAIN fetches = Channels, \A ch \in Channels : FetchOK(fetches[ch]),
         NEW fs, DOMAIN fs = Channels, \A ch \in Channels : FetchOK(fs[ch]),
         NEW ch \in Channels, NEW ask
  PROVE  LET gs == Ask(fs, ch, ask)
         IN  /\ DOMAIN gs = Channels
             /\ \A c \in Channels : FetchOK(gs[c])
             /\ Awaits(gs[ch]) /\ Newest(gs[ch]) = Request(ask)
             /\ \A c \in Channels : c # ch => gs[c] = fs[c]
<1> DEFINE t == Append(Overtaken(fs[ch]), Request(ask))
           gs == Ask(fs, ch, ask)
<1>1. gs = [fs EXCEPT ![ch] = t]
  BY DEF Ask
<1>2. FetchOK(t) /\ Awaits(t) /\ Newest(t) = Request(ask)
  BY AskedFetch
<1> HIDE DEF t, gs
<1>3. DOMAIN gs = Channels /\ gs[ch] = t /\ \A c \in Channels : c # ch => gs[c] = fs[c]
  BY <1>1
<1>4. \A c \in Channels : FetchOK(gs[c])
  BY <1>2, <1>3
<1> QED BY <1>2, <1>3, <1>4 DEF gs

\* The route or the filter changes: the fetches that watch it ask again.
LEMMA NavigationKeeps ==
  ASSUME ListsIInv, NEW u, NEW f \in Filters, Navigate(u, f),
         DOMAIN u = {"after", "before", "query"},
         u.after \in CursorOrNone, u.before \in CursorOrNone,
         UNCHANGED <<db, surface, scope, shown, bulk, fresh>>,
         SeenUpTo(u.after), SeenUpTo(u.before),
         (walk' = walk /\ f = filter) \/ walk' = [walk EXCEPT !.still = {}]
  PROVE  ListsIInv'
<1> DEFINE moved == BrowseAsk(u, f) # BrowseAsk(url, filter)
           searched == u # url /\ u.query # NoQuery
           browse == IF moved THEN Ask(fetches, "browse", BrowseAsk(u, f)) ELSE fetches
<1>1. /\ url' = u /\ filter' = f
      /\ fetches' = IF searched THEN Ask(browse, "search", SearchAsk(u)) ELSE browse
      /\ OnRows((u.query # NoQuery) # IsSearchMode)
  BY DEF Navigate
<1>2. "browse" \in Channels /\ "search" \in Channels /\ "browse" # "search"
  BY DEF Channels
<1>3. DOMAIN fetches = Channels /\ \A ch \in Channels : FetchOK(fetches[ch])
  BY DEF ListsIInv, Shapes
<1>4. /\ DOMAIN browse = Channels /\ \A ch \in Channels : FetchOK(browse[ch])
      /\ browse["search"] = fetches["search"]
      /\ IF moved THEN Awaits(browse["browse"]) /\ Newest(browse["browse"]) = Request(BrowseAsk(u, f))
                  ELSE browse["browse"] = fetches["browse"]
  BY <1>2, <1>3, AskedChannel
<1> HIDE DEF browse
<1>5. /\ DOMAIN fetches' = Channels /\ \A ch \in Channels : FetchOK(fetches'[ch])
      /\ fetches'["browse"] = browse["browse"]
      /\ IF searched THEN Awaits(fetches'["search"]) /\ Newest(fetches'["search"]) = Request(SearchAsk(u))
                     ELSE fetches'["search"] = fetches["search"]
  BY <1>1, <1>2, <1>3, <1>4, AskedChannel
<1>6. /\ UNCHANGED <<table, clock, surface, scope, shown, bulk, fresh>>
      /\ walk'.seen = walk.seen /\ walk'.still \subseteq walk.still
      /\ walk' \in [seen : SUBSET Entries, still : SUBSET Entries]
      /\ walk.still \subseteq Entries
  BY DEF db, ListsIInv, Shapes
<1>7. DOMAIN ticked' = {"ids", "anchor"}
  BY <1>1 DEF OnRows, Cleared, ListsIInv, Shapes
<1>8. Shapes'
  BY <1>1, <1>5, <1>6, <1>7 DEF Shapes, RowsTyped, ListsIInv
<1>9. BrowseAnswersTheUrl'
  <2>1. CASE moved
    BY <1>1, <1>4, <1>5, <2>1 DEF BrowseAnswersTheUrl, Request
  <2>2. CASE ~moved
    BY <1>1, <1>4, <1>5, <1>6, <2>2 DEF BrowseAnswersTheUrl, ListsIInv
  <2> QED BY <2>1, <2>2
<1>10. SearchAnswersTheUrl'
  <2>1. CASE u.query = NoQuery
    BY <1>1, <2>1 DEF SearchAnswersTheUrl, IsSearchMode
  <2>2. CASE searched
    BY <1>1, <1>5, <2>2 DEF SearchAnswersTheUrl, Request
  <2>3. CASE u = url /\ u.query # NoQuery
    BY <1>1, <1>5, <1>6, <2>3 DEF SearchAnswersTheUrl, IsSearchMode, ListsIInv
  <2> QED BY <2>1, <2>2, <2>3
<1>11. TickedRowsAreOnScreen'
  <2>1. CASE (u.query # NoQuery) # IsSearchMode
    BY <1>1, <2>1 DEF OnRows, Cleared, TickedRowsAreOnScreen
  <2>2. CASE ~((u.query # NoQuery) # IsSearchMode)
    <3>1. ticked' = ticked
      BY <1>1, <2>2 DEF OnRows
    <3>2. Mode' = Mode
      BY <1>1, <2>2 DEF Mode, IsSearchMode
    <3> QED BY <1>6, <3>1, <3>2 DEF TickedRowsAreOnScreen, ActiveRows, ListsIInv
  <2> QED BY <2>1, <2>2
<1>12. BulkIsInTheTable'
  BY <1>6 DEF BulkIsInTheTable, ListsIInv
<1>13. BulkIsOnScreen'
  <2>1. CASE moved
    BY <1>4, <1>5, <2>1 DEF BulkIsOnScreen
  <2>2. CASE ~moved
    BY <1>4, <1>5, <1>6, <2>2 DEF BulkIsOnScreen, ListsIInv
  <2> QED BY <2>1, <2>2
<1>14. Spares({})
  BY <1>6 DEF Spares
<1>15. \A c : SeenUpTo(c) => SeenUpTo(c)'
  BY <1>6, <1>14, SeenStays
<1>16. WalkIsSound'
  <2>1. (walk.still \subseteq Listed(surface, filter))'
    <3>1. CASE f = filter
      <4> SUFFICES ASSUME NEW e \in walk'.still PROVE (e \in Listed(surface, filter))'
        OBVIOUS
      <4>1. e \in Entries \ {} /\ e \in Listed(surface, f)
        BY <1>6, <3>1 DEF ListsIInv, WalkIsSound
      <4>2. (e \in Listed(surface, f))'
        BY <1>14, <4>1, SparedEntries
      <4> QED BY <1>1, <4>2
    <3>2. CASE f # filter
      BY <3>2 DEF ListsIInv, Shapes
    <3> QED BY <3>1, <3>2
  <2>2. SeenUpTo(url.after)' /\ SeenUpTo(url.before)'
    <3>1. SeenUpTo(u.after)' /\ SeenUpTo(u.before)'
      BY <1>15
    <3> QED BY <1>1, <3>1
  <2>3. SeenUpTo(shown["browse"].info.start)' /\ SeenUpTo(shown["browse"].info.end)'
    <3>1. PICK c, d : c = shown["browse"].info.start /\ d = shown["browse"].info.end
      OBVIOUS
    <3>2. SeenUpTo(c)' /\ SeenUpTo(d)'
      BY <1>15, <3>1 DEF ListsIInv, WalkIsSound
    <3> QED BY <1>6, <3>1, <3>2
  <2>4. WalkSeesEveryStillRow'
    BY <1>6 DEF WalkSeesEveryStillRow, ListsIInv, WalkIsSound
  <2>5. ASSUME Awaits(fetches["browse"])', Newest(fetches["browse"])'.read
        PROVE  PageOK(Newest(fetches["browse"]))'
    <3>1. ~moved
      BY <1>4, <1>5, <2>5 DEF Request
    <3>2. fetches'["browse"] = fetches["browse"]
      BY <1>4, <1>5, <3>1
    <3>3. PICK r : r = Newest(fetches["browse"])
      OBVIOUS
    <3>4. r = Newest(fetches["browse"])'
      BY <3>2, <3>3 DEF Newest
    <3>5. PageOK(r)
      BY <2>5, <3>2, <3>3, <3>4 DEF ListsIInv, WalkIsSound, Awaits
    <3>6. PageOK(r)'
      BY <1>6, <1>14, <3>5, PageStays
    <3> QED BY <3>4, <3>6
  <2> QED BY <2>1, <2>2, <2>3, <2>4, <2>5 DEF WalkIsSound
<1> QED BY <1>8, <1>9, <1>10, <1>11, <1>12, <1>13, <1>16 DEF ListsIInv

\* The pages before and after.
LEMMA GoNextKeeps ==
  ASSUME ListsIInv, GoNext
  PROVE  ListsIInv'
<1>1. PICK u : u = [url EXCEPT !.after = shown["browse"].info.end, !.before = NoCursor]
  OBVIOUS
<1>2. /\ DOMAIN u = {"after", "before", "query"}
      /\ u.after = shown["browse"].info.end /\ u.before = NoCursor
  BY <1>1 DEF ListsIInv, Shapes
<1>3. u.after \in CursorOrNone /\ u.before \in CursorOrNone
  BY <1>2 DEF ListsIInv, Shapes, EdgesOK, CursorOrNone
<1>4. SeenUpTo(u.after) /\ SeenUpTo(u.before)
  BY <1>2 DEF ListsIInv, WalkIsSound, SeenUpTo
<1>5. PICK f : f = filter
  OBVIOUS
<1>6. f \in Filters /\ Navigate(u, f)
  BY <1>1, <1>5 DEF GoNext, ListsIInv, Shapes
<1>7. UNCHANGED <<db, surface, scope, shown, bulk, fresh>> /\ walk' = walk
  BY DEF GoNext, Click
<1> QED BY <1>2, <1>3, <1>4, <1>5, <1>6, <1>7, NavigationKeeps

LEMMA GoPrevKeeps ==
  ASSUME ListsIInv, GoPrev
  PROVE  ListsIInv'
<1>1. PICK u : u = [url EXCEPT !.before = shown["browse"].info.start, !.after = NoCursor]
  OBVIOUS
<1>2. /\ DOMAIN u = {"after", "before", "query"}
      /\ u.before = shown["browse"].info.start /\ u.after = NoCursor
  BY <1>1 DEF ListsIInv, Shapes
<1>3. u.after \in CursorOrNone /\ u.before \in CursorOrNone
  BY <1>2 DEF ListsIInv, Shapes, EdgesOK, CursorOrNone
<1>4. SeenUpTo(u.after) /\ SeenUpTo(u.before)
  BY <1>2 DEF ListsIInv, WalkIsSound, SeenUpTo
<1>5. PICK f : f = filter
  OBVIOUS
<1>6. f \in Filters /\ Navigate(u, f)
  BY <1>1, <1>5 DEF GoPrev, ListsIInv, Shapes
<1>7. UNCHANGED <<db, surface, scope, shown, bulk, fresh>> /\ walk' = walk
  BY DEF GoPrev, Click
<1> QED BY <1>2, <1>3, <1>4, <1>5, <1>6, <1>7, NavigationKeeps

\* The filter, and the cursors it drops.
LEMMA SetFilterKeeps ==
  ASSUME ListsIInv, NEW f \in Filters, SetFilter(f)
  PROVE  ListsIInv'
<1>1. PICK u : u = url
  OBVIOUS
<1>2. /\ DOMAIN u = {"after", "before", "query"}
      /\ u.after \in CursorOrNone /\ u.before \in CursorOrNone
      /\ SeenUpTo(u.after) /\ SeenUpTo(u.before)
  BY <1>1 DEF ListsIInv, Shapes, WalkIsSound
<1>3. Navigate(u, f)
  BY <1>1 DEF SetFilter
<1>4. UNCHANGED <<db, surface, scope, shown, bulk, fresh>> /\ walk' = [walk EXCEPT !.still = {}]
  BY DEF SetFilter, Click
<1> QED BY <1>2, <1>3, <1>4, NavigationKeeps

\* A route without cursors.
LEMMA StartOverKeeps ==
  ASSUME ListsIInv, NEW u, DOMAIN u = {"after", "before", "query"},
         u.after = NoCursor, u.before = NoCursor, Navigate(u, filter),
         UNCHANGED <<db, surface, scope, shown, bulk, fresh, walk>>
  PROVE  ListsIInv'
<1>1. u.after \in CursorOrNone /\ u.before \in CursorOrNone
  BY DEF CursorOrNone
<1>2. SeenUpTo(u.after) /\ SeenUpTo(u.before)
  BY DEF SeenUpTo
<1>3. PICK f : f = filter
  OBVIOUS
<1>4. f \in Filters /\ Navigate(u, f)
  BY <1>3 DEF ListsIInv, Shapes
<1> QED BY <1>1, <1>2, <1>3, <1>4, NavigationKeeps

LEMMA ResetCursorKeeps ==
  ASSUME ListsIInv, ResetCursor
  PROVE  ListsIInv'
<1>1. PICK u : u = WithoutCursors(url)
  OBVIOUS
<1>2. DOMAIN u = {"after", "before", "query"} /\ u.after = NoCursor /\ u.before = NoCursor
  BY <1>1 DEF WithoutCursors, ListsIInv, Shapes
<1>3. Navigate(u, filter) /\ UNCHANGED <<db, surface, scope, shown, bulk, fresh, walk>>
  BY <1>1 DEF ResetCursor
<1> QED BY <1>2, <1>3, StartOverKeeps

LEMMA SearchUrlKeeps ==
  ASSUME ListsIInv, NEW query, Navigate(SearchUrl(query), filter),
         UNCHANGED <<db, surface, scope, shown, bulk, fresh, walk>>
  PROVE  ListsIInv'
<1> DEFINE u == SearchUrl(query)
<1>1. DOMAIN u = {"after", "before", "query"} /\ u.after = NoCursor /\ u.before = NoCursor
  BY DEF SearchUrl
<1> QED BY <1>1, StartOverKeeps

\* The page of another path is mounted.
LEMMA MountKeeps ==
  ASSUME ListsIInv, NEW to, NEW query, Mount(to, query), UNCHANGED <<db, surface>>
  PROVE  ListsIInv'
<1> DEFINE u == SearchUrl(query)
<1>1. /\ DOMAIN u = {"after", "before", "query"}
      /\ u.after = NoCursor /\ u.before = NoCursor /\ u.query = query
  BY DEF SearchUrl
<1> HIDE DEF u
<1>2. /\ url' = u /\ filter' = "active"
      /\ ticked' = Cleared(ticked) /\ bulk' = NoBulk
      /\ walk' = [seen |-> {}, still |-> {}] /\ fresh' = {}
  BY DEF Mount, u
<1>3. "browse" \in Channels /\ "search" \in Channels /\ \A ch \in Channels : ch \in {"browse", "search"}
  BY DEF Channels
<1>4. /\ fetches'["browse"] = <<Request(BrowseAsk(u, "active"))>>
      /\ fetches'["search"] = IF query # NoQuery THEN <<Request(SearchAsk(u))>> ELSE <<>>
      /\ DOMAIN fetches' = Channels
      /\ shown'["browse"] = Blank /\ shown'["search"] = Blank /\ DOMAIN shown' = Channels
  BY <1>3 DEF Mount, u
<1>5. \A ch \in Channels : FetchOK(fetches'[ch])
  BY <1>3, <1>4, FirstFetch
<1>6. Awaits(fetches'["browse"]) /\ Newest(fetches'["browse"]) = Request(BrowseAsk(u, "active"))
  BY <1>4, FirstFetch
<1>7. Shapes'
  <2>1. u.after \in CursorOrNone /\ u.before \in CursorOrNone
    BY <1>1 DEF CursorOrNone
  <2>2. DOMAIN ticked' = {"ids", "anchor"}
    BY <1>2 DEF Cleared
  <2>3. DOMAIN bulk' = {"busy", "ids", "todo", "done"}
    BY <1>2 DEF NoBulk
  <2>4. walk' \in [seen : SUBSET Entries, still : SUBSET Entries]
    BY <1>2
  <2>5. filter' \in Filters
    BY <1>2 DEF Filters
  <2>6. RowsTyped' /\ clock' \in Nat
    BY DEF RowsTyped, db, ListsIInv, Shapes
  <2> QED BY <1>1, <1>2, <1>4, <1>5, <2>1, <2>2, <2>3, <2>4, <2>5, <2>6, BlankIsOK DEF Shapes
<1>8. BrowseAnswersTheUrl'
  BY <1>2, <1>6 DEF BrowseAnswersTheUrl, Request
<1>9. SearchAnswersTheUrl'
  BY <1>1, <1>2, <1>4, FirstFetch DEF SearchAnswersTheUrl, IsSearchMode, Request
<1>10. TickedRowsAreOnScreen'
  BY <1>2 DEF TickedRowsAreOnScreen, Cleared
<1>11. BulkIsInTheTable'
  BY <1>2 DEF BulkIsInTheTable, NoBulk
<1>12. BulkIsOnScreen'
  BY <1>6 DEF BulkIsOnScreen
<1>13. WalkIsSound'
  <2>1. ~Newest(fetches'["browse"]).read
    BY <1>6 DEF Request
  <2> QED BY <1>1, <1>2, <1>4, <2>1, BlankIsOK DEF WalkIsSound, SeenUpTo, WalkSeesEveryStillRow
<1> QED BY <1>7, <1>8, <1>9, <1>10, <1>11, <1>12, <1>13 DEF ListsIInv

\* The palette leads to a search, on this page or on another.
LEMMA LeaveKeeps ==
  ASSUME ListsIInv, NEW to, NEW q, NEW filters, Leave(to, q, filters)
  PROVE  ListsIInv'
<1>1. PICK query : query = compileQuery(q, Survives(to, filters))
  OBVIOUS
<1>2. Search(to, query) /\ UNCHANGED <<db, surface>>
  BY <1>1 DEF Leave
<1>3. CASE to = scope
  BY <1>2, <1>3, SearchUrlKeeps DEF Search
<1>4. CASE to # scope
  BY <1>2, <1>4, MountKeeps DEF Search
<1> QED BY <1>3, <1>4

-----------------------------------------------------------------------------
(* The server answers. *)

\* The rows of the newest request are read.
LEMMA ReadPageKeeps ==
  ASSUME ListsIInv, NEW i, ReadPage(i)
  PROVE  ListsIInv'
<1> PICK s : s = fetches["browse"]
  OBVIOUS
<1> PICK f, after, before, who :
      f = s[i].ask.filter /\ after = s[i].ask.after /\ before = s[i].ask.before /\ who = surface
  OBVIOUS
<1> PICK pg, still : pg = KeysetPage(who, f, after, before) /\ still = Listed(who, f)
  OBVIOUS
<1> DEFINE r == [s[i] EXCEPT !.read = TRUE, !.found = pg, !.still = still]
<1>1. /\ i \in DOMAIN s /\ ~s[i].late
      /\ fetches' = [fetches EXCEPT !["browse"] = [s EXCEPT ![i] = r]]
      /\ UNCHANGED <<db, surface, scope, url, filter, resetting, shown, ticked, bulk,
                     walk, fresh, left>>
  BY DEF ReadPage
<1>2. "browse" \in Channels /\ "search" \in Channels /\ "browse" # "search"
  BY DEF Channels
<1>3. FetchOK(s) /\ DOMAIN fetches = Channels
  BY <1>2 DEF ListsIInv, Shapes
<1>4. RequestOK(s[i])
  BY <1>1, <1>3, FetchIsSequence DEF FetchOK
<1>5. /\ RequestOK(r) /\ ~r.late /\ r.ask = s[i].ask
      /\ r.found = pg /\ r.still = still
  BY <1>1, <1>4 DEF RequestOK
<1> HIDE DEF r
<1>6. /\ FetchOK([s EXCEPT ![i] = r]) /\ Awaits([s EXCEPT ![i] = r])
      /\ Newest([s EXCEPT ![i] = r]) = r /\ Awaits(s) /\ s[i] = Newest(s)
  BY <1>1, <1>3, <1>5, ReadFetch
<1> PICK t : t = [s EXCEPT ![i] = r]
  OBVIOUS
<1>7. /\ fetches'["browse"] = t /\ DOMAIN fetches' = Channels
      /\ \A ch \in Channels : ch # "browse" => fetches'[ch] = fetches[ch]
  BY <1>1, <1>2, <1>3
<1>8. /\ UNCHANGED <<table, clock, surface, scope, url, filter, shown, ticked, bulk, walk, fresh>>
  BY <1>1 DEF db
<1>9. \A ch \in Channels : FetchOK(fetches'[ch])
  BY <1>6, <1>7 DEF ListsIInv, Shapes
<1>10. Shapes'
  BY <1>7, <1>8, <1>9 DEF ListsIInv, Shapes, RowsTyped
<1>11. r.ask = BrowseAsk(url, filter)
  BY <1>5, <1>6 DEF ListsIInv, BrowseAnswersTheUrl
<1>12. BrowseAnswersTheUrl'
  BY <1>6, <1>7, <1>8, <1>11 DEF BrowseAnswersTheUrl
<1>13. SearchAnswersTheUrl'
  BY <1>2, <1>7, <1>8 DEF ListsIInv, SearchAnswersTheUrl, IsSearchMode
<1>14. TickedRowsAreOnScreen'
  BY <1>8 DEF ListsIInv, TickedRowsAreOnScreen, ActiveRows, Mode, IsSearchMode
<1>15. BulkIsInTheTable' /\ BulkIsOnScreen'
  BY <1>6, <1>7, <1>8 DEF ListsIInv, BulkIsInTheTable, BulkIsOnScreen
<1>16. f = filter /\ after = url.after /\ before = url.before
  BY <1>5, <1>11 DEF BrowseAsk
<1>17. RowsTyped
  BY DEF ListsIInv, Shapes
<1>18. PageOK(r)
  <2>1. r.still \subseteq Listed(surface, r.ask.filter)
    BY <1>5
  <2>2. walk.still \subseteq Listed(who, f)
    BY <1>16 DEF ListsIInv, WalkIsSound
  <2>3. CASE Forward(r.ask)
    <3>1. before = NoCursor \/ after # NoCursor
      BY <1>5, <2>3 DEF Forward
    <3>2. pg.rows \in Seq(Entries) /\ EdgesOK(pg.info)
      BY <1>17, <3>1, ForwardPage
    <3>3. \A e \in Listed(who, f) : Beyond(after, e, FALSE) => Covers(pg, e)
      BY <1>17, <3>1, ForwardPage
    <3>4. ASSUME IsFirst(r.ask), NEW e \in r.still PROVE Covers(pg, e)
      <4>1. Beyond(after, e, FALSE)
        BY <1>5, <3>4 DEF IsFirst, Beyond
      <4> QED BY <1>5, <3>3, <4>1
    <3>5. \A e \in walk.still : Beyond(r.ask.after, e, FALSE) => Covers(pg, e)
      BY <1>5, <2>2, <3>3
    <3> QED BY <1>5, <2>1, <2>3, <3>2, <3>4, <3>5 DEF PageOK
  <2>4. CASE ~Forward(r.ask)
    <3>1. before # NoCursor /\ after = NoCursor /\ ~IsFirst(r.ask)
      BY <1>5, <2>4 DEF Forward, IsFirst
    <3>2. /\ pg.rows \in Seq(Entries) /\ EdgesOK(pg.info) /\ pg.info.next
          /\ pg.info.end # NoCursor => Before(pg.info.end, before)
      BY <1>17, <3>1, BackwardPage
    <3> QED BY <1>5, <2>1, <2>4, <3>1, <3>2 DEF PageOK
  <2> QED BY <2>3, <2>4
<1>19. Spares({}) /\ walk.still \subseteq Entries
  BY <1>8 DEF Spares, ListsIInv, Shapes
<1>20. PageOK(r)'
  BY <1>18, <1>19, PageStays
<1>21. \A c : SeenUpTo(c) => SeenUpTo(c)'
  BY <1>19, SeenStays
<1>22. WalkIsSound'
  <2>1. (walk.still \subseteq Listed(surface, filter))'
    BY <1>8 DEF ListsIInv, WalkIsSound, Listed, Matches
  <2>2. SeenUpTo(url.after)' /\ SeenUpTo(url.before)'
    BY <1>8 DEF ListsIInv, WalkIsSound, SeenUpTo, CursorOf
  <2>3. SeenUpTo(shown["browse"].info.start)' /\ SeenUpTo(shown["browse"].info.end)'
    BY <1>8 DEF ListsIInv, WalkIsSound, SeenUpTo, CursorOf
  <2>4. WalkSeesEveryStillRow'
    BY <1>8 DEF ListsIInv, WalkIsSound, WalkSeesEveryStillRow
  <2>5. PageOK(Newest(fetches["browse"]))'
    BY <1>6, <1>7, <1>20
  <2> QED BY <2>1, <2>2, <2>3, <2>4, <2>5 DEF WalkIsSound
<1> QED BY <1>10, <1>12, <1>13, <1>14, <1>15, <1>22 DEF ListsIInv

\* An answer takes its request away, and clears the selection with the table.
LEMMA DisplayFrame ==
  ASSUME ListsIInv, NEW ch \in Channels, NEW i \in DOMAIN fetches[ch], NEW answer,
         Display(ch, i, answer)
  PROVE  /\ DOMAIN fetches' = Channels
         /\ \A c \in Channels : FetchOK(fetches'[c]) /\ (c # ch => fetches'[c] = fetches[c])
         /\ fetches[ch][i].late =>
              /\ shown' = shown
              /\ Awaits(fetches'[ch]) <=> Awaits(fetches[ch])
              /\ Awaits(fetches[ch]) => Newest(fetches'[ch]) = Newest(fetches[ch])
         /\ ~fetches[ch][i].late =>
              /\ shown' = [shown EXCEPT ![ch] = answer]
              /\ Awaits(fetches[ch]) /\ fetches[ch][i] = Newest(fetches[ch])
              /\ ~Awaits(fetches'[ch])
         /\ UNCHANGED <<table, clock, surface, scope, url, filter, bulk, fresh>>
         /\ TickedRowsAreOnScreen' /\ DOMAIN ticked' = {"ids", "anchor"}
<1> PICK s : s = fetches[ch]
  OBVIOUS
<1>1. FetchOK(s) /\ DOMAIN fetches = Channels /\ i \in DOMAIN s
  BY DEF ListsIInv, Shapes
<1> PICK t : t = RemoveAt(s, i)
  OBVIOUS
<1>2. fetches' = [fetches EXCEPT ![ch] = t]
  BY DEF Display
<1>3. /\ FetchOK(t)
      /\ s[i].late => (Awaits(t) <=> Awaits(s)) /\ (Awaits(s) => Newest(t) = Newest(s))
      /\ ~s[i].late => Awaits(s) /\ s[i] = Newest(s) /\ ~Awaits(t)
  BY <1>1, RemovedFetch
<1>4. DOMAIN fetches' = Channels /\ fetches'[ch] = t /\ \A c \in Channels : c # ch => fetches'[c] = fetches[c]
  BY <1>1, <1>2
<1>5. \A c \in Channels : FetchOK(fetches'[c])
  BY <1>3, <1>4 DEF ListsIInv, Shapes
<1>6. UNCHANGED <<table, clock, surface, scope, url, filter, bulk, fresh>>
  BY DEF Display, db
<1>7. shown' = IF ~s[i].late THEN [shown EXCEPT ![ch] = answer] ELSE shown
  BY DEF Display, Counts
<1>8. ticked' = IF ~s[i].late /\ ch = Mode THEN Cleared(ticked) ELSE ticked
  BY DEF Display, Counts, OnRows
<1>9. DOMAIN ticked' = {"ids", "anchor"}
  BY <1>8 DEF Cleared, ListsIInv, Shapes
<1>10. TickedRowsAreOnScreen'
  <2>1. Mode' = Mode
    BY <1>6 DEF Mode, IsSearchMode
  <2>2. CASE ~s[i].late /\ ch = Mode
    BY <1>8, <2>2 DEF Cleared, TickedRowsAreOnScreen
  <2>3. CASE ~(~s[i].late /\ ch = Mode)
    <3>1. ticked' = ticked
      BY <1>8, <2>3
    <3>2. shown'[Mode] = shown[Mode]
      <4>1. Mode \in Channels /\ DOMAIN shown = Channels
        BY DEF Mode, Channels, ListsIInv, Shapes
      <4> QED BY <1>7, <2>3, <4>1
    <3> QED BY <2>1, <3>1, <3>2 DEF TickedRowsAreOnScreen, ActiveRows, ListsIInv
  <2> QED BY <2>2, <2>3
<1> QED BY <1>3, <1>4, <1>5, <1>6, <1>7, <1>9, <1>10

\* A late answer changes nothing.
LEMMA LateKeeps ==
  ASSUME ListsIInv, NEW ch \in Channels, NEW i \in DOMAIN fetches[ch], NEW answer,
         Display(ch, i, answer), fetches[ch][i].late, walk' = walk
  PROVE  ListsIInv'
<1>1. /\ DOMAIN fetches' = Channels
      /\ \A c \in Channels : FetchOK(fetches'[c]) /\ (c # ch => fetches'[c] = fetches[c])
      /\ shown' = shown
      /\ Awaits(fetches'[ch]) <=> Awaits(fetches[ch])
      /\ Awaits(fetches[ch]) => Newest(fetches'[ch]) = Newest(fetches[ch])
      /\ UNCHANGED <<table, clock, surface, scope, url, filter, bulk, fresh>>
      /\ TickedRowsAreOnScreen' /\ DOMAIN ticked' = {"ids", "anchor"}
  BY DisplayFrame
<1>2. "browse" \in Channels /\ "search" \in Channels
  BY DEF Channels
<1>3. \A c \in Channels : /\ Awaits(fetches'[c]) <=> Awaits(fetches[c])
                          /\ Awaits(fetches[c]) => Newest(fetches'[c]) = Newest(fetches[c])
  BY <1>1
<1>4. Shapes'
  BY <1>1 DEF ListsIInv, Shapes, RowsTyped
<1>5. BrowseAnswersTheUrl' /\ SearchAnswersTheUrl'
  BY <1>1, <1>2, <1>3 DEF ListsIInv, BrowseAnswersTheUrl, SearchAnswersTheUrl, IsSearchMode
<1>6. BulkIsInTheTable' /\ BulkIsOnScreen'
  BY <1>1, <1>2, <1>3 DEF ListsIInv, BulkIsInTheTable, BulkIsOnScreen
<1>7. Spares({}) /\ walk.still \subseteq Entries
  BY <1>1 DEF Spares, ListsIInv, Shapes
<1>8. WalkIsSound'
  <2>1. (walk.still \subseteq Listed(surface, filter))'
    BY <1>1 DEF ListsIInv, WalkIsSound, Listed, Matches
  <2>2. SeenUpTo(url.after)' /\ SeenUpTo(url.before)'
    BY <1>1 DEF ListsIInv, WalkIsSound, SeenUpTo, CursorOf
  <2>3. SeenUpTo(shown["browse"].info.start)' /\ SeenUpTo(shown["browse"].info.end)'
    BY <1>1 DEF ListsIInv, WalkIsSound, SeenUpTo, CursorOf
  <2>4. WalkSeesEveryStillRow'
    BY <1>1 DEF ListsIInv, WalkIsSound, WalkSeesEveryStillRow
  <2>5. ASSUME Awaits(fetches["browse"])', Newest(fetches["browse"])'.read
        PROVE  PageOK(Newest(fetches["browse"]))'
    <3>1. PICK r : r = Newest(fetches["browse"])
      OBVIOUS
    <3>2. r = Newest(fetches'["browse"]) /\ PageOK(r)
      BY <1>2, <1>3, <2>5, <3>1 DEF ListsIInv, WalkIsSound
    <3>3. PageOK(r)'
      <4>1. r.still \subseteq r.still \ {}
        OBVIOUS
      <4> QED BY <1>7, <3>2, <4>1, PageStays
    <3> QED BY <3>2, <3>3
  <2> QED BY <2>1, <2>2, <2>3, <2>4, <2>5 DEF WalkIsSound
<1> QED BY <1>1, <1>4, <1>5, <1>6, <1>8 DEF ListsIInv

\* The hits of the newest search, or nothing, take the place of the old ones.
LEMMA SearchShownKeeps ==
  ASSUME ListsIInv, NEW i \in DOMAIN fetches["search"], NEW answer,
         Display("search", i, answer), ~fetches["search"][i].late, walk' = walk,
         answer = Blank \/ answer.ask = fetches["search"][i].ask
  PROVE  ListsIInv'
<1>1. "browse" \in Channels /\ "search" \in Channels /\ "browse" # "search"
  BY DEF Channels
<1>2. /\ DOMAIN fetches' = Channels /\ \A c \in Channels : FetchOK(fetches'[c])
      /\ fetches'["browse"] = fetches["browse"]
      /\ shown' = [shown EXCEPT !["search"] = answer]
      /\ Awaits(fetches["search"]) /\ fetches["search"][i] = Newest(fetches["search"])
      /\ ~Awaits(fetches'["search"])
      /\ UNCHANGED <<table, clock, surface, scope, url, filter, bulk, fresh>>
      /\ TickedRowsAreOnScreen' /\ DOMAIN ticked' = {"ids", "anchor"}
  BY <1>1, DisplayFrame
<1>3. shown'["browse"] = shown["browse"] /\ shown'["search"] = answer /\ DOMAIN shown' = Channels
  BY <1>1, <1>2 DEF ListsIInv, Shapes
<1>4. Shapes'
  BY <1>2, <1>3 DEF ListsIInv, Shapes, RowsTyped
<1>5. BrowseAnswersTheUrl'
  BY <1>2, <1>3 DEF ListsIInv, BrowseAnswersTheUrl
<1>6. SearchAnswersTheUrl'
  BY <1>2, <1>3 DEF ListsIInv, SearchAnswersTheUrl, IsSearchMode
<1>7. BulkIsInTheTable' /\ BulkIsOnScreen'
  BY <1>2, <1>3 DEF ListsIInv, BulkIsInTheTable, BulkIsOnScreen
<1>8. Spares({}) /\ walk.still \subseteq Entries
  BY <1>2 DEF Spares, ListsIInv, Shapes
<1>9. WalkIsSound'
  <2>1. (walk.still \subseteq Listed(surface, filter))'
    BY <1>2 DEF ListsIInv, WalkIsSound, Listed, Matches
  <2>2. SeenUpTo(url.after)' /\ SeenUpTo(url.before)'
    BY <1>2 DEF ListsIInv, WalkIsSound, SeenUpTo, CursorOf
  <2>3. SeenUpTo(shown["browse"].info.start)' /\ SeenUpTo(shown["browse"].info.end)'
    BY <1>2, <1>3 DEF ListsIInv, WalkIsSound, SeenUpTo, CursorOf
  <2>4. WalkSeesEveryStillRow'
    BY <1>2, <1>3 DEF ListsIInv, WalkIsSound, WalkSeesEveryStillRow
  <2>5. ASSUME Awaits(fetches["browse"])', Newest(fetches["browse"])'.read
        PROVE  PageOK(Newest(fetches["browse"]))'
    <3>1. PICK r : r = Newest(fetches["browse"])
      OBVIOUS
    <3>2. r = Newest(fetches'["browse"]) /\ PageOK(r)
      BY <1>2, <2>5, <3>1 DEF ListsIInv, WalkIsSound
    <3>3. r.still \subseteq r.still \ {}
      OBVIOUS
    <3>4. PageOK(r)'
      BY <1>8, <3>2, <3>3, PageStays
    <3> QED BY <3>2, <3>4
  <2> QED BY <2>1, <2>2, <2>3, <2>4, <2>5 DEF WalkIsSound
<1> QED BY <1>2, <1>4, <1>5, <1>6, <1>7, <1>9 DEF ListsIInv

\* The newest page fails: the table is empty and the walk stands.
LEMMA BrowseFailedKeeps ==
  ASSUME ListsIInv, NEW i \in DOMAIN fetches["browse"],
         Display("browse", i, Blank), ~fetches["browse"][i].late, walk' = walk
  PROVE  ListsIInv'
<1>1. "browse" \in Channels /\ "search" \in Channels /\ "browse" # "search"
  BY DEF Channels
<1>2. /\ DOMAIN fetches' = Channels /\ \A c \in Channels : FetchOK(fetches'[c])
      /\ fetches'["search"] = fetches["search"]
      /\ shown' = [shown EXCEPT !["browse"] = Blank]
      /\ ~Awaits(fetches'["browse"])
      /\ UNCHANGED <<table, clock, surface, scope, url, filter, bulk, fresh>>
      /\ TickedRowsAreOnScreen' /\ DOMAIN ticked' = {"ids", "anchor"}
  BY <1>1, DisplayFrame
<1>3. shown'["browse"] = Blank /\ shown'["search"] = shown["search"] /\ DOMAIN shown' = Channels
  BY <1>1, <1>2 DEF ListsIInv, Shapes
<1>4. Shapes'
  BY <1>2, <1>3, BlankIsOK DEF ListsIInv, Shapes, RowsTyped
<1>5. BrowseAnswersTheUrl'
  BY <1>2, <1>3 DEF BrowseAnswersTheUrl
<1>6. SearchAnswersTheUrl'
  BY <1>2, <1>3 DEF ListsIInv, SearchAnswersTheUrl, IsSearchMode
<1>7. BulkIsInTheTable' /\ BulkIsOnScreen'
  BY <1>2, <1>3, BlankIsOK DEF ListsIInv, BulkIsInTheTable, BulkIsOnScreen
<1>8. WalkIsSound'
  <2>1. (walk.still \subseteq Listed(surface, filter))'
    BY <1>2 DEF ListsIInv, WalkIsSound, Listed, Matches
  <2>2. SeenUpTo(url.after)' /\ SeenUpTo(url.before)'
    BY <1>2 DEF ListsIInv, WalkIsSound, SeenUpTo, CursorOf
  <2>3. SeenUpTo(shown["browse"].info.start)' /\ SeenUpTo(shown["browse"].info.end)'
    BY <1>3, BlankIsOK DEF SeenUpTo
  <2>4. WalkSeesEveryStillRow'
    BY <1>3, BlankIsOK DEF WalkSeesEveryStillRow
  <2> QED BY <1>2, <2>1, <2>2, <2>3, <2>4 DEF WalkIsSound
<1> QED BY <1>2, <1>4, <1>5, <1>6, <1>7, <1>8 DEF ListsIInv

\* A page is shown: what the reader has then seen of a walk.
LEMMA PageIsWalked ==
  ASSUME RowsTyped, NEW r, PageOK(r), filter \in Filters, r.ask.filter = filter,
         r.ask.after \in CursorOrNone, r.ask.before \in CursorOrNone,
         SeenUpTo(r.ask.after), SeenUpTo(r.ask.before),
         walk \in [seen : SUBSET Entries, still : SUBSET Entries],
         walk.still \subseteq Listed(surface, filter),
         NEW w, NEW ids, ids \subseteq Entries,
         w = [seen |-> w.seen, still |-> w.still],
         IsFirst(r.ask) => w.seen = ids /\ w.still = r.still,
         ~IsFirst(r.ask) => w.seen = walk.seen \cup ids /\ w.still = walk.still,
         \A e \in Listed(surface, filter) : Has(r.found.rows, e) => e \in ids
  PROVE  /\ w \in [seen : SUBSET Entries, still : SUBSET Entries]
         /\ w.still \subseteq Listed(surface, filter)
         /\ \A c \in {r.found.info.start, r.found.info.end} : c # NoCursor =>
              \A e \in w.still : NotAfter(CursorOf(e), c) => e \in w.seen
         /\ ~r.found.info.next => w.still \subseteq w.seen
         /\ ~IsFirst(r.ask) => w.still = walk.still /\ walk.seen \subseteq w.seen
<1> DEFINE info == r.found.info
           after == r.ask.after
           before == r.ask.before
<1>1. EdgesOK(info)
  BY DEF PageOK
<1>2. CASE IsFirst(r.ask)
  <2>1. w.seen = ids /\ w.still = r.still /\ r.still \subseteq Listed(surface, filter)
    BY <1>2 DEF PageOK
  <2>2. \A e \in r.still : Covers(r.found, e)
    BY <1>2 DEF PageOK
  <2>3. ASSUME NEW e \in w.still, e \notin w.seen
        PROVE  info.next /\ info.end # NoCursor /\ Before(info.end, CursorOf(e))
    <3>1. ~Has(r.found.rows, e)
      BY <2>1, <2>3
    <3> QED BY <2>1, <2>2, <2>3, <3>1 DEF Covers
  <2>4. w \in [seen : SUBSET Entries, still : SUBSET Entries]
    BY <1>2, <2>1 DEF Listed
  <2>5. ASSUME NEW c \in {info.start, info.end}, c # NoCursor,
               NEW e \in w.still, NotAfter(CursorOf(e), c), e \notin w.seen
        PROVE  FALSE
    <3>1. info.end # NoCursor /\ Before(info.end, CursorOf(e))
      BY <2>3, <2>5
    <3>2. CursorOf(e) \in Placed
      BY <2>1, CursorsArePlaced DEF Listed
    <3>3. c \in Placed /\ info.end \in Placed /\ NotAfter(c, info.end)
      BY <1>1, <2>5, <3>1 DEF EdgesOK, CursorOrNone, NotAfter
    <3>4. NotAfter(CursorOf(e), info.end)
      BY <2>5, <3>2, <3>3, BeforeIsTransitive
    <3> QED BY <3>1, <3>2, <3>3, <3>4, BeforeIsStrict DEF NotAfter
  <2> QED BY <1>2, <2>1, <2>3, <2>4, <2>5
<1>3. CASE ~IsFirst(r.ask) /\ Forward(r.ask)
  <2>1. w.seen = walk.seen \cup ids /\ w.still = walk.still
    BY <1>3
  <2>2. after \in Placed /\ after # NoCursor
    BY <1>3 DEF IsFirst, Forward, CursorOrNone
  <2>3. ASSUME NEW e \in w.still, e \notin w.seen
        PROVE  info.next /\ info.end # NoCursor /\ Before(info.end, CursorOf(e))
    <3>1. ~Has(r.found.rows, e) /\ CursorOf(e) \in Placed
      BY <2>1, <2>3, CursorsArePlaced DEF Listed
    <3>2. ~NotAfter(CursorOf(e), after)
      BY <2>1, <2>2, <2>3 DEF SeenUpTo
    <3>3. Before(after, CursorOf(e))
      BY <2>2, <3>1, <3>2, BeforeIsStrict DEF NotAfter
    <3>4. Beyond(after, e, FALSE)
      BY <3>3 DEF Beyond
    <3>5. Covers(r.found, e)
      BY <1>3, <2>1, <2>3, <3>4 DEF PageOK
    <3> QED BY <3>1, <3>5 DEF Covers
  <2>4. w \in [seen : SUBSET Entries, still : SUBSET Entries]
    BY <1>3
  <2>5. ASSUME NEW c \in {info.start, info.end}, c # NoCursor,
               NEW e \in w.still, NotAfter(CursorOf(e), c), e \notin w.seen
        PROVE  FALSE
    <3>1. info.end # NoCursor /\ Before(info.end, CursorOf(e))
      BY <2>3, <2>5
    <3>2. CursorOf(e) \in Placed
      BY <2>1, CursorsArePlaced DEF Listed
    <3>3. c \in Placed /\ info.end \in Placed /\ NotAfter(c, info.end)
      BY <1>1, <2>5, <3>1 DEF EdgesOK, CursorOrNone, NotAfter
    <3>4. NotAfter(CursorOf(e), info.end)
      BY <2>5, <3>2, <3>3, BeforeIsTransitive
    <3> QED BY <3>1, <3>2, <3>3, <3>4, BeforeIsStrict DEF NotAfter
  <2> QED BY <1>3, <2>1, <2>3, <2>4, <2>5
<1>4. CASE ~Forward(r.ask)
  <2>1. ~IsFirst(r.ask) /\ before \in Placed /\ before # NoCursor
    BY <1>4 DEF IsFirst, Forward, CursorOrNone
  <2>2. w.seen = walk.seen \cup ids /\ w.still = walk.still
    BY <2>1
  <2>3. info.next /\ (info.end # NoCursor => Before(info.end, before))
    BY <1>4 DEF PageOK
  <2>4. w \in [seen : SUBSET Entries, still : SUBSET Entries]
    BY <2>1
  <2>5. ASSUME NEW c \in {info.start, info.end}, c # NoCursor,
               NEW e \in w.still, NotAfter(CursorOf(e), c)
        PROVE  e \in w.seen
    <3>1. CursorOf(e) \in Placed
      BY <2>2, CursorsArePlaced DEF Listed
    <3>2. c \in Placed /\ info.end \in Placed /\ info.end # NoCursor /\ NotAfter(c, info.end)
      BY <1>1, <2>5 DEF EdgesOK, CursorOrNone, NotAfter
    <3>3. NotAfter(CursorOf(e), info.end)
      BY <2>5, <3>1, <3>2, BeforeIsTransitive
    <3>4. Before(CursorOf(e), before)
      BY <2>1, <2>3, <3>1, <3>2, <3>3, BeforeIsTransitive
    <3> QED BY <2>1, <2>2, <3>4 DEF SeenUpTo, NotAfter
  <2> QED BY <2>1, <2>2, <2>3, <2>4, <2>5
<1> QED BY <1>2, <1>3, <1>4

\* The newest page is shown: the walk goes on from it.
LEMMA BrowseAnsweredKeeps ==
  ASSUME ListsIInv, NEW i, AnswerBrowse(i), ~fetches["browse"][i].late
  PROVE  ListsIInv'
<1>21. PICK r : r = fetches["browse"][i]
  OBVIOUS
<1>22. PICK rows : rows = Resolved(r.found.rows, r.ask.filter)
  OBVIOUS
<1>23. PICK answer : answer = [rows |-> rows, info |-> r.found.info, ask |-> r.ask]
  OBVIOUS
<1>24. PICK ids : ids = IdsOf(rows)
  OBVIOUS
<1>1. /\ i \in DOMAIN fetches["browse"] /\ r.read /\ ~r.late
      /\ Display("browse", i, answer) /\ walk' = Walked(r, ids)
  BY <1>21, <1>22, <1>23, <1>24 DEF AnswerBrowse
<1>2. "browse" \in Channels /\ "search" \in Channels /\ "browse" # "search"
  BY DEF Channels
<1>3. /\ DOMAIN fetches' = Channels /\ \A c \in Channels : FetchOK(fetches'[c])
      /\ fetches'["search"] = fetches["search"]
      /\ shown' = [shown EXCEPT !["browse"] = answer]
      /\ Awaits(fetches["browse"]) /\ r = Newest(fetches["browse"])
      /\ ~Awaits(fetches'["browse"])
      /\ UNCHANGED <<table, clock, surface, scope, url, filter, bulk, fresh>>
      /\ TickedRowsAreOnScreen' /\ DOMAIN ticked' = {"ids", "anchor"}
  BY <1>1, <1>2, <1>21, DisplayFrame
<1>4. /\ shown'["browse"] = answer /\ shown'["search"] = shown["search"]
      /\ DOMAIN shown' = Channels
  BY <1>2, <1>3 DEF ListsIInv, Shapes
<1>5. answer.rows = rows /\ answer.info = r.found.info /\ answer.ask = r.ask
  BY <1>23
<1>6. PageOK(r) /\ RowsTyped /\ filter \in Filters
  BY <1>1, <1>3 DEF ListsIInv, WalkIsSound, Shapes
<1>7. r.ask = BrowseAsk(url, filter)
  BY <1>3 DEF ListsIInv, BrowseAnswersTheUrl
<1>8. /\ r.ask.filter = filter /\ r.ask.after = url.after /\ r.ask.before = url.before
      /\ url.after \in CursorOrNone /\ url.before \in CursorOrNone
      /\ SeenUpTo(url.after) /\ SeenUpTo(url.before)
      /\ walk.still \subseteq Listed(surface, filter)
      /\ walk \in [seen : SUBSET Entries, still : SUBSET Entries]
  BY <1>7 DEF BrowseAsk, ListsIInv, Shapes, WalkIsSound
<1>9. /\ Len(rows) \in Nat /\ DOMAIN rows = 1..Len(rows)
      /\ \A k \in DOMAIN rows : /\ rows[k].id \in Entries
                                /\ rows[k].status = StatusOf(rows[k].id, r.ask.filter)
                                /\ rows[k].status # "none"
      /\ \A e : Has(r.found.rows, e) /\ StatusOf(e, r.ask.filter) # "none" => e \in ids
  <2>1. r.found.rows \in Seq(Entries)
    BY <1>6 DEF PageOK
  <2> QED BY <1>22, <1>24, <2>1, ShownAreTheLive
<1>10. ids \subseteq Entries
  BY <1>9, <1>24 DEF IdsOf
<1>11. \A e \in Listed(surface, filter) : Has(r.found.rows, e) => e \in ids
  BY <1>6, <1>8, <1>9, ListedIsShown
<1>25. PICK w : w = walk'
  OBVIOUS
<1>12. /\ w = [seen |-> w.seen, still |-> w.still]
       /\ IsFirst(r.ask) => w.seen = ids /\ w.still = r.still
       /\ ~IsFirst(r.ask) => w.seen = walk.seen \cup ids /\ w.still = walk.still
  <2>1. w = IF IsFirst(r.ask) THEN [seen |-> ids, still |-> r.still]
            ELSE [walk EXCEPT !.seen = @ \cup ids]
    BY <1>1, <1>25 DEF Walked, IsFirst
  <2>2. walk = [seen |-> walk.seen, still |-> walk.still]
    BY <1>8
  <2>3. w = [seen |-> IF IsFirst(r.ask) THEN ids ELSE walk.seen \cup ids,
             still |-> IF IsFirst(r.ask) THEN r.still ELSE walk.still]
    BY <2>1, <2>2
  <2> QED BY <2>3
<1>13. /\ w \in [seen : SUBSET Entries, still : SUBSET Entries]
       /\ w.still \subseteq Listed(surface, filter)
       /\ \A c \in {r.found.info.start, r.found.info.end} : c # NoCursor =>
            \A e \in w.still : NotAfter(CursorOf(e), c) => e \in w.seen
       /\ ~r.found.info.next => w.still \subseteq w.seen
       /\ ~IsFirst(r.ask) => w.still = walk.still /\ walk.seen \subseteq w.seen
  <2>1. /\ r.ask.after \in CursorOrNone /\ r.ask.before \in CursorOrNone
        /\ SeenUpTo(r.ask.after) /\ SeenUpTo(r.ask.before)
    BY <1>8
  <2>2. /\ r.ask.filter = filter /\ walk.still \subseteq Listed(surface, filter)
        /\ walk \in [seen : SUBSET Entries, still : SUBSET Entries]
    BY <1>8
  <2> QED BY <1>6, <1>10, <1>11, <1>12, <2>1, <2>2, PageIsWalked
<1>14. EdgesOK(r.found.info)
  BY <1>6 DEF PageOK
<1>15. Shapes'
  BY <1>3, <1>4, <1>5, <1>13, <1>14, <1>25 DEF ListsIInv, Shapes, RowsTyped
<1>16. BrowseAnswersTheUrl'
  BY <1>3, <1>4, <1>5, <1>7 DEF BrowseAnswersTheUrl
<1>17. SearchAnswersTheUrl'
  BY <1>3, <1>4 DEF ListsIInv, SearchAnswersTheUrl, IsSearchMode
<1>18. BulkIsInTheTable'
  BY <1>3 DEF ListsIInv, BulkIsInTheTable
<1>19. BulkIsOnScreen'
  <2>1. ASSUME NEW k \in DOMAIN rows, rows[k].id \in fresh PROVE rows[k].status = "PUBLISHED"
    <3>1. table[rows[k].id].there /\ table[rows[k].id].has = {"PUBLISHED"}
      BY <2>1 DEF ListsIInv, BulkIsInTheTable
    <3>2. StatusOf(rows[k].id, r.ask.filter) \in {"none", "PUBLISHED"}
      BY <3>1, PublishedIsShownAsThat
    <3> QED BY <1>9, <3>2
  <2> QED BY <1>3, <1>4, <1>5, <2>1 DEF BulkIsOnScreen
<1>20. WalkIsSound'
  <2>1. (walk.still \subseteq Listed(surface, filter))'
    BY <1>3, <1>13, <1>25 DEF Listed, Matches
  <2>2. SeenUpTo(url.after)' /\ SeenUpTo(url.before)'
    <3>1. CASE IsFirst(r.ask)
      BY <1>3, <1>8, <1>12, <1>25, <3>1 DEF IsFirst, SeenUpTo
    <3>2. CASE ~IsFirst(r.ask)
      BY <1>3, <1>8, <1>13, <1>25, <3>2 DEF SeenUpTo, CursorOf
    <3> QED BY <3>1, <3>2
  <2>3. SeenUpTo(shown["browse"].info.start)' /\ SeenUpTo(shown["browse"].info.end)'
    BY <1>3, <1>4, <1>5, <1>13, <1>25 DEF SeenUpTo, CursorOf
  <2>4. WalkSeesEveryStillRow'
    BY <1>4, <1>5, <1>13, <1>25 DEF WalkSeesEveryStillRow
  <2> QED BY <1>3, <2>1, <2>2, <2>3, <2>4 DEF WalkIsSound
<1> QED BY <1>3, <1>15, <1>16, <1>17, <1>18, <1>19, <1>20 DEF ListsIInv

LEMMA AnswerBrowseKeeps ==
  ASSUME ListsIInv, NEW i, AnswerBrowse(i)
  PROVE  ListsIInv'
<1>1. CASE fetches["browse"][i].late
  <2>1. "browse" \in Channels /\ i \in DOMAIN fetches["browse"] /\ walk' = walk
    BY <1>1 DEF AnswerBrowse, Channels
  <2>2. \E answer : Display("browse", i, answer)
    BY DEF AnswerBrowse
  <2> QED BY <1>1, <2>1, <2>2, LateKeeps
<1> QED BY <1>1, BrowseAnsweredKeeps

LEMMA AnswerSearchKeeps ==
  ASSUME ListsIInv, NEW i, AnswerSearch(i)
  PROVE  ListsIInv'
<1>1. PICK answer : Display("search", i, answer) /\ answer.ask = fetches["search"][i].ask
  BY DEF AnswerSearch
<1>2. "search" \in Channels /\ i \in DOMAIN fetches["search"] /\ walk' = walk
  BY DEF AnswerSearch, Channels
<1> QED BY <1>1, <1>2, LateKeeps, SearchShownKeeps

LEMMA FailKeeps ==
  ASSUME ListsIInv, NEW ch \in Channels, NEW i, Fail(ch, i)
  PROVE  ListsIInv'
<1>1. i \in DOMAIN fetches[ch] /\ ~fetches[ch][i].late /\ Display(ch, i, Blank) /\ walk' = walk
  BY DEF Fail
<1>2. CASE ch = "browse"
  BY <1>1, <1>2, BrowseFailedKeeps
<1>3. CASE ch = "search"
  BY <1>1, <1>3, SearchShownKeeps
<1> QED BY <1>2, <1>3 DEF Channels

-----------------------------------------------------------------------------
(* The selection and the bulk publish. *)

\* Rows are ticked, a bulk publish is posted or given up.
LEMMA SelectionKeeps ==
  ASSUME ListsIInv,
         UNCHANGED <<db, surface, scope, url, filter, fetches, shown, walk, fresh>>,
         DOMAIN ticked' = {"ids", "anchor"}, ticked'.ids \subseteq IdsOf(ActiveRows),
         DOMAIN bulk' = {"busy", "ids", "todo", "done"}, bulk'.done \subseteq bulk.done
  PROVE  ListsIInv'
<1>1. UNCHANGED <<table, clock, surface, scope, url, filter, fetches, shown, walk, fresh>>
  BY DEF db
<1>2. Shapes'
  BY <1>1 DEF ListsIInv, Shapes, RowsTyped
<1>3. BrowseAnswersTheUrl' /\ SearchAnswersTheUrl'
  BY <1>1 DEF ListsIInv, BrowseAnswersTheUrl, SearchAnswersTheUrl, IsSearchMode
<1>4. TickedRowsAreOnScreen'
  BY <1>1 DEF TickedRowsAreOnScreen, ActiveRows, Mode, IsSearchMode
<1>5. BulkIsInTheTable' /\ BulkIsOnScreen'
  BY <1>1 DEF ListsIInv, BulkIsInTheTable, BulkIsOnScreen
<1>6. Spares({}) /\ walk.still \subseteq Entries
  BY <1>1 DEF Spares, ListsIInv, Shapes
<1>7. WalkIsSound'
  <2>1. (walk.still \subseteq Listed(surface, filter))'
    BY <1>1 DEF ListsIInv, WalkIsSound, Listed, Matches
  <2>2. SeenUpTo(url.after)' /\ SeenUpTo(url.before)'
    BY <1>1 DEF ListsIInv, WalkIsSound, SeenUpTo, CursorOf
  <2>3. SeenUpTo(shown["browse"].info.start)' /\ SeenUpTo(shown["browse"].info.end)'
    BY <1>1 DEF ListsIInv, WalkIsSound, SeenUpTo, CursorOf
  <2>4. WalkSeesEveryStillRow'
    BY <1>1 DEF ListsIInv, WalkIsSound, WalkSeesEveryStillRow
  <2>5. ASSUME Awaits(fetches["browse"])', Newest(fetches["browse"])'.read
        PROVE  PageOK(Newest(fetches["browse"]))'
    <3>1. PICK r : r = Newest(fetches["browse"])
      OBVIOUS
    <3>2. r = Newest(fetches'["browse"]) /\ PageOK(r)
      BY <1>1, <2>5, <3>1 DEF ListsIInv, WalkIsSound
    <3>3. r.still \subseteq r.still \ {}
      OBVIOUS
    <3>4. PageOK(r)'
      BY <1>6, <3>2, <3>3, PageStays
    <3> QED BY <3>2, <3>4
  <2> QED BY <2>1, <2>2, <2>3, <2>4, <2>5 DEF WalkIsSound
<1> QED BY <1>2, <1>3, <1>4, <1>5, <1>7 DEF ListsIInv

LEMMA TickingKeeps ==
  ASSUME ListsIInv, (\E i \in Nat, shift \in BOOLEAN : Toggle(i, shift)) \/ ToggleAll \/ ClearTicks
  PROVE  ListsIInv'
<1>1. /\ UNCHANGED <<db, surface, scope, url, filter, fetches, shown, walk, fresh>>
      /\ UNCHANGED bulk
  BY DEF Toggle, ToggleAll, ClearTicks, Click
<1>2. /\ DOMAIN ticked = {"ids", "anchor"} /\ ticked.ids \subseteq IdsOf(ActiveRows)
      /\ DOMAIN bulk = {"busy", "ids", "todo", "done"}
  BY DEF ListsIInv, Shapes, TickedRowsAreOnScreen
<1>3. DOMAIN ticked' = {"ids", "anchor"} /\ ticked'.ids \subseteq IdsOf(ActiveRows)
  <2>1. ASSUME NEW i, NEW shift, Toggle(i, shift)
        PROVE  DOMAIN ticked' = {"ids", "anchor"} /\ ticked'.ids \subseteq IdsOf(ActiveRows)
    <3>1. CASE shift /\ ticked.anchor # 0
      <4> PICK range : range = {ActiveRows[k].id : k \in Between(ticked.anchor, i)}
        OBVIOUS
      <4>1. range \subseteq IdsOf(ActiveRows)
        BY DEF IdsOf, Between
      <4>2. ticked' = [ticked EXCEPT !.ids = @ \cup range]
        BY <2>1, <3>1 DEF Toggle
      <4> QED BY <1>2, <4>1, <4>2
    <3>2. CASE ~(shift /\ ticked.anchor # 0)
      <4>1. i \in DOMAIN ActiveRows /\ ticked' = [ids |-> Toggled(ActiveRows[i].id), anchor |-> i]
        BY <2>1, <3>2 DEF Toggle
      <4>2. ActiveRows[i].id \in IdsOf(ActiveRows)
        BY <4>1 DEF IdsOf
      <4> QED BY <1>2, <4>1, <4>2 DEF Toggled
    <3> QED BY <3>1, <3>2
  <2>2. ASSUME ToggleAll
        PROVE  DOMAIN ticked' = {"ids", "anchor"} /\ ticked'.ids \subseteq IdsOf(ActiveRows)
    <3>1. \E all \in BOOLEAN :
            ticked' = [ids |-> IF all THEN {} ELSE IdsOf(ActiveRows), anchor |-> 0]
      BY <2>2 DEF ToggleAll
    <3> QED BY <3>1
  <2>3. ASSUME ClearTicks
        PROVE  DOMAIN ticked' = {"ids", "anchor"} /\ ticked'.ids \subseteq IdsOf(ActiveRows)
    BY <2>3 DEF ClearTicks, Cleared
  <2> QED BY <2>1, <2>2, <2>3
<1> QED BY <1>1, <1>2, <1>3, SelectionKeeps

LEMMA PostingKeeps ==
  ASSUME ListsIInv, PostBulk \/ BulkFailed
  PROVE  ListsIInv'
<1>1. /\ UNCHANGED <<db, surface, scope, url, filter, fetches, shown, walk, fresh>>
      /\ UNCHANGED ticked
  BY DEF PostBulk, BulkFailed, Click
<1>2. DOMAIN ticked = {"ids", "anchor"} /\ ticked.ids \subseteq IdsOf(ActiveRows)
  BY DEF ListsIInv, Shapes, TickedRowsAreOnScreen
<1>3. DOMAIN bulk' = {"busy", "ids", "todo", "done"} /\ bulk'.done = {}
  BY DEF PostBulk, BulkFailed, NoBulk
<1> QED BY <1>1, <1>2, <1>3, SelectionKeeps

\* The bulk publish is answered: the table on screen is read again.
LEMMA BulkAnsweredKeeps ==
  ASSUME ListsIInv, BulkAnswered
  PROVE  ListsIInv'
<1>1. /\ UNCHANGED <<table, clock, surface, scope, url, filter, shown, walk>>
      /\ fetches' = Refresh(fetches) /\ ticked' = Cleared(ticked) /\ bulk' = NoBulk
      /\ fresh' = IF IsSearchMode THEN fresh ELSE bulk.done
  BY DEF BulkAnswered, db
<1>2. "browse" \in Channels /\ "search" \in Channels /\ "browse" # "search"
  BY DEF Channels
<1>3. DOMAIN fetches = Channels /\ \A c \in Channels : FetchOK(fetches[c])
  BY DEF ListsIInv, Shapes
<1>4. PICK ask : ask = IF IsSearchMode THEN SearchAsk(url) ELSE BrowseAsk(url, filter)
  OBVIOUS
<1>5. PICK ch : ch = Mode
  OBVIOUS
<1>6. ch \in Channels /\ fetches' = Ask(fetches, ch, ask)
  BY <1>1, <1>2, <1>4, <1>5 DEF Refresh, Mode
<1>7. /\ DOMAIN fetches' = Channels /\ \A c \in Channels : FetchOK(fetches'[c])
      /\ Awaits(fetches'[ch]) /\ Newest(fetches'[ch]) = Request(ask)
      /\ \A c \in Channels : c # ch => fetches'[c] = fetches[c]
  BY <1>3, <1>6, AskedChannel
<1>8. Request(ask).ask = ask /\ ~Request(ask).read
  BY DEF Request
<1>9. ch = IF IsSearchMode THEN "search" ELSE "browse"
  BY <1>5 DEF Mode
<1>10. Shapes'
  BY <1>1, <1>7 DEF ListsIInv, Shapes, RowsTyped, Cleared, NoBulk
<1>11. BrowseAnswersTheUrl'
  BY <1>1, <1>2, <1>4, <1>7, <1>8, <1>9 DEF ListsIInv, BrowseAnswersTheUrl
<1>12. SearchAnswersTheUrl'
  BY <1>1, <1>2, <1>4, <1>7, <1>8, <1>9 DEF ListsIInv, SearchAnswersTheUrl, IsSearchMode
<1>13. TickedRowsAreOnScreen'
  BY <1>1 DEF TickedRowsAreOnScreen, Cleared
<1>14. BulkIsInTheTable'
  BY <1>1 DEF ListsIInv, BulkIsInTheTable, NoBulk
<1>15. BulkIsOnScreen'
  BY <1>1, <1>2, <1>7, <1>9 DEF ListsIInv, BulkIsOnScreen
<1>16. Spares({}) /\ walk.still \subseteq Entries
  BY <1>1 DEF Spares, ListsIInv, Shapes
<1>17. WalkIsSound'
  <2>1. (walk.still \subseteq Listed(surface, filter))'
    BY <1>1 DEF ListsIInv, WalkIsSound, Listed, Matches
  <2>2. SeenUpTo(url.after)' /\ SeenUpTo(url.before)'
    BY <1>1 DEF ListsIInv, WalkIsSound, SeenUpTo, CursorOf
  <2>3. SeenUpTo(shown["browse"].info.start)' /\ SeenUpTo(shown["browse"].info.end)'
    BY <1>1 DEF ListsIInv, WalkIsSound, SeenUpTo, CursorOf
  <2>4. WalkSeesEveryStillRow'
    BY <1>1 DEF ListsIInv, WalkIsSound, WalkSeesEveryStillRow
  <2>5. ASSUME Awaits(fetches["browse"])', Newest(fetches["browse"])'.read
        PROVE  PageOK(Newest(fetches["browse"]))'
    <3>1. PICK r : r = Newest(fetches["browse"])
      OBVIOUS
    <3>2. fetches'["browse"] = fetches["browse"]
      BY <1>2, <1>7, <1>8, <2>5
    <3>3. r = Newest(fetches'["browse"]) /\ PageOK(r)
      BY <2>5, <3>1, <3>2 DEF ListsIInv, WalkIsSound
    <3>4. r.still \subseteq r.still \ {}
      OBVIOUS
    <3>5. PageOK(r)'
      BY <1>16, <3>3, <3>4, PageStays
    <3> QED BY <3>3, <3>5
  <2> QED BY <2>1, <2>2, <2>3, <2>4, <2>5 DEF WalkIsSound
<1> QED BY <1>10, <1>11, <1>12, <1>13, <1>14, <1>15, <1>17 DEF ListsIInv

-----------------------------------------------------------------------------
(* The entries are written. *)

\* What a write may not disturb stays, and what it touches is forgotten.
LEMMA WritingKeeps ==
  ASSUME ListsIInv, NEW e \in Entries, Unstill(e),
         RowsTyped', clock' \in Nat, \A d \in Entries \ {e} : table'[d] = table[d],
         UNCHANGED <<surface, scope, url, filter, shown, ticked>>,
         DOMAIN bulk' = {"busy", "ids", "todo", "done"},
         BulkIsInTheTable', fresh' \subseteq fresh
  PROVE  ListsIInv'
<1>1. PICK s : s = fetches["browse"]
  OBVIOUS
<1>2. PICK t : t = [i \in DOMAIN s |-> Without(s[i], e)]
  OBVIOUS
<1>3. /\ fetches' = [fetches EXCEPT !["browse"] = t]
      /\ walk' = [walk EXCEPT !.still = @ \ {e}]
  BY <1>1, <1>2 DEF Unstill
<1>4. "browse" \in Channels /\ "search" \in Channels /\ "browse" # "search"
  BY DEF Channels
<1>5. DOMAIN fetches = Channels /\ (\A c \in Channels : FetchOK(fetches[c])) /\ FetchOK(s)
  BY <1>1, <1>4 DEF ListsIInv, Shapes
<1>6. /\ FetchOK(t) /\ (Awaits(t) <=> Awaits(s))
      /\ Awaits(s) => /\ Newest(t).ask = Newest(s).ask
                      /\ Newest(t).read = Newest(s).read
                      /\ Newest(t).found = Newest(s).found
                      /\ Newest(t).still = Newest(s).still \ {e}
  BY <1>2, <1>5, UnstillFetch
<1>7. /\ DOMAIN fetches' = Channels /\ fetches'["browse"] = t
      /\ fetches'["search"] = fetches["search"]
      /\ \A c \in Channels : FetchOK(fetches'[c])
  BY <1>3, <1>4, <1>5, <1>6
<1>8. /\ walk \in [seen : SUBSET Entries, still : SUBSET Entries]
      /\ walk' \in [seen : SUBSET Entries, still : SUBSET Entries]
      /\ walk'.seen = walk.seen /\ walk'.still = walk.still \ {e}
  BY <1>3 DEF ListsIInv, Shapes
<1>9. Shapes'
  BY <1>7, <1>8 DEF ListsIInv, Shapes
<1>10. BrowseAnswersTheUrl'
  BY <1>1, <1>6, <1>7 DEF ListsIInv, BrowseAnswersTheUrl
<1>11. SearchAnswersTheUrl'
  BY <1>7 DEF ListsIInv, SearchAnswersTheUrl, IsSearchMode
<1>12. TickedRowsAreOnScreen'
  BY DEF ListsIInv, TickedRowsAreOnScreen, ActiveRows, Mode, IsSearchMode
<1>13. BulkIsOnScreen'
  BY <1>1, <1>6, <1>7 DEF ListsIInv, BulkIsOnScreen
<1>14. Spares({e}) /\ walk.still \subseteq Entries
  BY <1>8 DEF Spares
<1>15. \A c : SeenUpTo(c) => SeenUpTo(c)'
  BY <1>14, SeenStays
<1>16. WalkIsSound'
  <2>1. (walk.still \subseteq Listed(surface, filter))'
    <3> SUFFICES ASSUME NEW d \in walk'.still PROVE (d \in Listed(surface, filter))'
      OBVIOUS
    <3>1. d \in Entries \ {e} /\ d \in Listed(surface, filter)
      BY <1>8 DEF ListsIInv, WalkIsSound
    <3>2. PICK f : f = filter
      OBVIOUS
    <3>3. (d \in Listed(surface, f))'
      BY <1>14, <3>1, <3>2, SparedEntries
    <3> QED BY <3>2, <3>3
  <2>2. SeenUpTo(url.after)' /\ SeenUpTo(url.before)'
    <3>1. PICK c, d : c = url.after /\ d = url.before
      OBVIOUS
    <3>2. SeenUpTo(c)' /\ SeenUpTo(d)'
      BY <1>15, <3>1 DEF ListsIInv, WalkIsSound
    <3> QED BY <3>1, <3>2
  <2>3. SeenUpTo(shown["browse"].info.start)' /\ SeenUpTo(shown["browse"].info.end)'
    <3>1. PICK c, d : c = shown["browse"].info.start /\ d = shown["browse"].info.end
      OBVIOUS
    <3>2. SeenUpTo(c)' /\ SeenUpTo(d)'
      BY <1>15, <3>1 DEF ListsIInv, WalkIsSound
    <3> QED BY <3>1, <3>2
  <2>4. WalkSeesEveryStillRow'
    BY <1>8 DEF ListsIInv, WalkIsSound, WalkSeesEveryStillRow
  <2>5. ASSUME Awaits(fetches["browse"])', Newest(fetches["browse"])'.read
        PROVE  PageOK(Newest(fetches["browse"]))'
    <3>1. PICK r, q : r = Newest(s) /\ q = Newest(t)
      OBVIOUS
    <3>2. PageOK(r)
      BY <1>1, <1>6, <1>7, <2>5, <3>1 DEF ListsIInv, WalkIsSound
    <3>3. q.ask = r.ask /\ q.found = r.found /\ q.still \subseteq r.still \ {e}
      BY <1>6, <1>7, <2>5, <3>1
    <3>4. PageOK(q)'
      BY <1>14, <3>2, <3>3, PageStays
    <3> QED BY <1>7, <3>1, <3>4
  <2> QED BY <2>1, <2>2, <2>3, <2>4, <2>5 DEF WalkIsSound
<1> QED BY <1>9, <1>10, <1>11, <1>12, <1>13, <1>16 DEF ListsIInv

\* A version is put in the table at an instant of the clock.
LEMMA PutKeepsTheRows ==
  ASSUME RowsTyped, clock \in Nat, NEW e \in Entries, NEW has \in (SUBSET Statuses) \ {{}},
         NEW t \in Ticks, Put(e, has, t)
  PROVE  /\ RowsTyped' /\ clock' \in Nat
         /\ \A d \in Entries \ {e} : table'[d] = table[d]
         /\ table'[e].there /\ table'[e].has = has
<1>1. t \in 0..MaxTime
  BY EntriesAssumption DEF Ticks
<1> DEFINE row == [there |-> TRUE, at |-> t, has |-> has]
<1>2. row \in Rows
  BY <1>1 DEF Rows
<1>3. table' = [table EXCEPT ![e] = row] /\ clock' = t
  BY DEF Put
<1>4. row.there /\ row.has = has
  OBVIOUS
<1> HIDE DEF row
<1>5. table' \in [Entries -> Rows] /\ table'[e] = row /\ \A d \in Entries \ {e} : table'[d] = table[d]
  BY <1>2, <1>3 DEF RowsTyped
<1> QED BY <1>1, <1>3, <1>4, <1>5, EntriesAssumption DEF RowsTyped

LEMMA BulkPublishOneKeeps ==
  ASSUME ListsIInv, NEW e \in Entries, BulkPublishOne(e)
  PROVE  ListsIInv'
<1>1. /\ RowsTyped /\ clock \in Nat /\ DOMAIN bulk = {"busy", "ids", "todo", "done"}
      /\ DOMAIN ticked = {"ids", "anchor"} /\ ticked.ids \subseteq IdsOf(ActiveRows)
  BY DEF ListsIInv, Shapes, TickedRowsAreOnScreen
<1>2. UNCHANGED <<surface, scope, url, filter, shown, ticked, fresh>>
  BY DEF BulkPublishOne
<1>3. CASE table[e].there /\ table[e].has # {"ARCHIVED"}
  <2>1. PICK t \in Ticks : Put(e, {"PUBLISHED"}, t)
    BY <1>3 DEF BulkPublishOne
  <2>2. Unstill(e) /\ bulk' = [bulk EXCEPT !.todo = @ \ {e}, !.done = @ \cup {e}]
    BY <1>3 DEF BulkPublishOne
  <2>3. {"PUBLISHED"} \in (SUBSET Statuses) \ {{}}
    BY DEF Statuses
  <2>4. /\ RowsTyped' /\ clock' \in Nat
        /\ \A d \in Entries \ {e} : table'[d] = table[d]
        /\ table'[e].there /\ table'[e].has = {"PUBLISHED"}
    BY <1>1, <2>1, <2>3, PutKeepsTheRows
  <2>5. DOMAIN bulk' = {"busy", "ids", "todo", "done"} /\ bulk'.done = bulk.done \cup {e}
    BY <1>1, <2>2
  <2>6. BulkIsInTheTable'
    BY <1>2, <2>4, <2>5 DEF ListsIInv, BulkIsInTheTable
  <2> QED BY <1>2, <2>2, <2>4, <2>5, <2>6, WritingKeeps
<1>4. CASE ~(table[e].there /\ table[e].has # {"ARCHIVED"})
  <2>1. UNCHANGED <<db, fetches, walk>> /\ bulk' = [bulk EXCEPT !.todo = @ \ {e}]
    BY <1>4 DEF BulkPublishOne
  <2>2. DOMAIN bulk' = {"busy", "ids", "todo", "done"} /\ bulk'.done = bulk.done
    BY <1>1, <2>1
  <2> QED BY <1>1, <1>2, <2>1, <2>2, SelectionKeeps
<1> QED BY <1>3, <1>4

LEMMA WriteKeeps ==
  ASSUME ListsIInv, NEW e \in Entries, Write(e)
  PROVE  ListsIInv'
<1>1. /\ RowsTyped /\ clock \in Nat /\ DOMAIN bulk = {"busy", "ids", "todo", "done"}
      /\ table \in [Entries -> Rows] /\ table[e] \in Rows
  BY DEF ListsIInv, Shapes, RowsTyped
<1>2. /\ UNCHANGED <<surface, scope, url, filter, shown, ticked>>
      /\ Unstill(e) /\ fresh' = fresh \ {e} /\ bulk' = [bulk EXCEPT !.done = @ \ {e}]
  BY DEF Write
<1>3. DOMAIN bulk' = {"busy", "ids", "todo", "done"} /\ bulk'.done = bulk.done \ {e}
  BY <1>1, <1>2
<1>4. RowsTyped' /\ clock' \in Nat /\ \A d \in Entries \ {e} : table'[d] = table[d]
  <2>1. {{"DRAFT"}, {"PUBLISHED"}, {"ARCHIVED"}, {"PUBLISHED", "CHANGED"}} \subseteq (SUBSET Statuses) \ {{}}
    BY DEF Statuses
  <2>2. ASSUME NEW t \in Ticks, NEW has \in (SUBSET Statuses) \ {{}}, Put(e, has, t)
        PROVE  RowsTyped' /\ clock' \in Nat /\ \A d \in Entries \ {e} : table'[d] = table[d]
    BY <1>1, <2>2, PutKeepsTheRows
  <2>3. ASSUME NEW row \in Rows, table' = [table EXCEPT ![e] = row], clock' = clock
        PROVE  RowsTyped' /\ clock' \in Nat /\ \A d \in Entries \ {e} : table'[d] = table[d]
    BY <1>1, <2>3 DEF RowsTyped
  <2>4. \/ \E t \in Ticks : \E has \in (SUBSET Statuses) \ {{}} : Put(e, has, t)
        \/ \E row \in Rows : table' = [table EXCEPT ![e] = row] /\ clock' = clock
    <3>1. CASE \E t \in Ticks : \/ Put(e, Saved(table[e].has), t) \/ Put(e, {"PUBLISHED"}, t)
                                \/ Put(e, {"DRAFT"}, t)
      <4>1. Saved(table[e].has) \in {{"PUBLISHED", "CHANGED"}, {"DRAFT"}}
        BY DEF Saved
      <4> QED BY <2>1, <3>1, <4>1
    <3>2. CASE /\ table' = [table EXCEPT ![e].has =
                              IF "ARCHIVED" \in table[e].has THEN {"DRAFT"} ELSE {"ARCHIVED"}]
               /\ clock' = clock
      <4>1. PICK has \in {{"DRAFT"}, {"ARCHIVED"}} : table' = [table EXCEPT ![e].has = has]
        BY <3>2
      <4>2. [table[e] EXCEPT !.has = has] \in Rows
        BY <1>1, <2>1 DEF Rows
      <4>3. table' = [table EXCEPT ![e] = [table[e] EXCEPT !.has = has]]
        BY <1>1, <4>1
      <4> QED BY <3>2, <4>2, <4>3
    <3>3. CASE table' = [table EXCEPT ![e].there = FALSE] /\ clock' = clock
      <4>1. [table[e] EXCEPT !.there = FALSE] \in Rows
        BY <1>1 DEF Rows
      <4>2. table' = [table EXCEPT ![e] = [table[e] EXCEPT !.there = FALSE]]
        BY <1>1, <3>3
      <4> QED BY <3>3, <4>1, <4>2
    <3> QED BY <3>1, <3>2, <3>3 DEF Write
  <2> QED BY <2>2, <2>3, <2>4
<1>5. BulkIsInTheTable'
  BY <1>2, <1>3, <1>4 DEF ListsIInv, BulkIsInTheTable
<1> QED BY <1>2, <1>3, <1>4, <1>5, WritingKeeps

-----------------------------------------------------------------------------
(* The palette, and all steps together. *)

\* A key in the palette does not touch the page.
LEMMA KeyPressIsKey ==
  ASSUME KeyPress
  PROVE  \E s : Key(s)
<1>1. ASSUME NEW t, Type(t) PROVE \E s : Key(s)
  BY <1>1 DEF Type
<1>2. ASSUME NEW c, PickContentType(c) PROVE \E s : Key(s)
  BY <1>2 DEF PickContentType
<1>3. ASSUME NEW f, PickField(f) PROVE \E s : Key(s)
  BY <1>3 DEF PickField
<1>4. ASSUME NEW op, PickOperator(op) PROVE \E s : Key(s)
  BY <1>4 DEF PickOperator
<1>5. ASSUME NEW v, Choose(v) \/ ToggleValue(v) PROVE \E s : Key(s)
  BY <1>5 DEF Choose, ToggleValue
<1>6. ASSUME NEW d, PickDay(d) PROVE \E s : Key(s)
  BY <1>6 DEF PickDay
<1>7. ASSUME NEW d, NEW e, PickRange(d, e) PROVE \E s : Key(s)
  BY <1>7 DEF PickRange
<1>8. ASSUME NEW i, RemoveFilter(i) PROVE \E s : Key(s)
  BY <1>8 DEF RemoveFilter
<1>9. ASSUME NEW i, NEW segment, EditFilter(i, segment) PROVE \E s : Key(s)
  BY <1>9 DEF EditFilter
<1>10. ASSUME EnterTyped \/ CommitList \/ EditDraft PROVE \E s : Key(s)
  BY <1>10 DEF EnterTyped, CommitList, EditDraft
<1>11. ASSUME EditFreeText \/ RemoveFreeText \/ RemoveContentType PROVE \E s : Key(s)
  BY <1>11 DEF EditFreeText, RemoveFreeText, RemoveContentType
<1>12. ASSUME Backspace PROVE \E s : Key(s)
  BY <1>12 DEF Backspace
<1> QED BY <1>1, <1>2, <1>3, <1>4, <1>5, <1>6, <1>7, <1>8, <1>9, <1>10, <1>11, <1>12 DEF KeyPress

LEMMA PageAsItWasKeeps ==
  ASSUME ListsIInv, UNCHANGED <<db, page, walk, fresh>>
  PROVE  ListsIInv'
<1>1. UNCHANGED <<surface, scope, url, filter, fetches, shown, ticked, bulk>>
  BY DEF page
<1>2. /\ DOMAIN ticked = {"ids", "anchor"} /\ ticked.ids \subseteq IdsOf(ActiveRows)
      /\ DOMAIN bulk = {"busy", "ids", "todo", "done"}
  BY DEF ListsIInv, Shapes, TickedRowsAreOnScreen
<1> QED BY <1>1, <1>2, SelectionKeeps

\* A chip of the results page is dropped.
LEMMA DropChipKeeps ==
  ASSUME ListsIInv, NEW i, DropChip(i)
  PROVE  ListsIInv'
<1>1. \E query : Navigate(SearchUrl(query), filter)
  BY DEF DropChip
<1>2. UNCHANGED <<db, surface, scope, shown, bulk, fresh, walk>>
  BY DEF DropChip, Click
<1> QED BY <1>1, <1>2, SearchUrlKeeps

\* A step of the page.
LEMMA PageStepKeeps ==
  ASSUME ListsIInv, Next
  PROVE  ListsIInv'
<1>1. CASE GoNext \/ GoPrev \/ ResetCursor
  BY <1>1, GoNextKeeps, GoPrevKeeps, ResetCursorKeeps
<1>2. CASE ClearSearch
  BY <1>2, SearchUrlKeeps DEF ClearSearch, Click
<1>3. CASE \E f \in Filters : SetFilter(f)
  BY <1>3, SetFilterKeeps
<1>4. CASE \E i \in 1..MaxInFlight : ReadPage(i) \/ AnswerBrowse(i) \/ AnswerSearch(i)
  BY <1>4, ReadPageKeeps, AnswerBrowseKeeps, AnswerSearchKeeps
<1>5. CASE \E ch \in Channels, i \in 1..MaxInFlight : Fail(ch, i)
  BY <1>5, FailKeeps
<1>6. CASE (\E i \in 1..PerPage, shift \in BOOLEAN : Toggle(i, shift)) \/ ToggleAll \/ ClearTicks
  <2>1. \A i \in 1..PerPage : i \in Nat
    OBVIOUS
  <2> QED BY <1>6, <2>1, TickingKeeps
<1>7. CASE PostBulk \/ BulkFailed
  BY <1>7, PostingKeeps
<1>8. CASE BulkAnswered
  BY <1>8, BulkAnsweredKeeps
<1>9. CASE \E e \in Entries : BulkPublishOne(e) \/ Write(e)
  BY <1>9, BulkPublishOneKeeps, WriteKeeps
<1> QED BY <1>1, <1>2, <1>3, <1>4, <1>5, <1>6, <1>7, <1>8, <1>9 DEF Next

LEMMA ListsStep ==
  ASSUME ListsIInv, [SearchNext]_<<vars, builderVars>>
  PROVE  ListsIInv'
<1>1. CASE KeyPress
  <2>1. UNCHANGED <<db, page, walk, fresh>>
    BY <1>1, KeyPressIsKey DEF Key
  <2> QED BY <2>1, PageAsItWasKeeps
<1>2. CASE OpenPalette \/ ClosePalette
  BY <1>2, PageAsItWasKeeps DEF OpenPalette, ClosePalette
<1>3. CASE Submit
  BY <1>3, LeaveKeeps DEF Submit
<1>4. CASE Broaden
  BY <1>4, LeaveKeeps DEF Broaden
<1>5. CASE \E i \in DOMAIN url.query.filters : DropChip(i)
  BY <1>5, DropChipKeeps
<1>6. CASE Next
  BY <1>6, PageStepKeeps
<1>7. CASE UNCHANGED <<vars, builderVars>>
  BY <1>7, PageAsItWasKeeps DEF vars
<1> QED BY <1>1, <1>2, <1>3, <1>4, <1>5, <1>6, <1>7 DEF SearchNext

\* The inductive invariant holds throughout.
THEOREM ListsInvariance == SearchSpec => []ListsIInv
<1>1. SearchInit => ListsIInv
  BY BeginsOK DEF SearchInit
<1>2. ListsIInv /\ [SearchNext]_<<vars, builderVars>> => ListsIInv'
  BY ListsStep
<1> QED BY <1>1, <1>2, PTL DEF SearchSpec

\* Whoever walks the pages of a list to its end has been shown every entry
\* that was there all the time, whatever was written meanwhile: keysetPage
\* over (updatedAt, id) loses no row.
THEOREM ReadersSeeEveryStillRow == SearchSpec => []WalkSeesEveryStillRow
<1>1. ListsIInv => WalkSeesEveryStillRow
  BY DEF ListsIInv, WalkIsSound
<1> QED BY <1>1, ListsInvariance, PTL

\* A table with no request in flight shows the answer to its URL, and the
\* reader's own bulk publish: overtaken answers do not stay on screen
\* (useAuthedFetch, useBulkPublish).
THEOREM SettledPagesAreCurrent == SearchSpec => []SettledPageIsCurrent
<1>1. \A ch : Settled(ch) => ~Awaits(fetches[ch])
  BY DEF Settled, Awaits
<1>2. ListsIInv => SettledPageIsCurrent
  <2> SUFFICES ASSUME ListsIInv PROVE SettledPageIsCurrent
    OBVIOUS
  <2>1. SettledPageAnswersTheUrl
    BY <1>1 DEF ListsIInv, SettledPageAnswersTheUrl, BrowseAnswersTheUrl, SearchAnswersTheUrl
  <2>2. SettledPageShowsTheBulk
    BY <1>1 DEF ListsIInv, SettledPageShowsTheBulk, BulkIsOnScreen
  <2> QED BY <2>1, <2>2 DEF SettledPageIsCurrent
<1> QED BY <1>2, ListsInvariance, PTL

\* Only rows on screen are ticked, so that a bulk publish sends what the
\* reader sees (useRowSelection, useBulkPublish).
THEOREM TicksAreOnScreen == SearchSpec => []TickedRowsAreOnScreen
<1>1. ListsIInv => TickedRowsAreOnScreen
  BY DEF ListsIInv
<1> QED BY <1>1, ListsInvariance, PTL

-----------------------------------------------------------------------------
(* Sequences of any items. *)

Sequenced(s) == s \in Seq(Range(s))

LEMMA SequencedIs ==
  ASSUME NEW s, Sequenced(s)
  PROVE  /\ Len(s) \in Nat /\ DOMAIN s = 1..Len(s) /\ s = [i \in 1..Len(s) |-> s[i]]
         /\ s = <<>> <=> Len(s) = 0
BY DEF Sequenced

\* Range, as a set of items.
LEMMA RangeIs == ASSUME NEW s PROVE Range(s) = {s[i] : i \in DOMAIN s}
BY DEF Range

LEMMA IsSequenced ==
  ASSUME NEW n \in Nat, NEW t, t = [i \in 1..n |-> t[i]]
  PROVE  Sequenced(t) /\ Len(t) = n /\ DOMAIN t = 1..n
<1>1. t \in Seq({t[i] : i \in DOMAIN t}) /\ Len(t) = n /\ DOMAIN t = 1..n
  BY IsSequence
<1>2. Range(t) = {t[i] : i \in DOMAIN t}
  BY RangeIs
<1> QED BY <1>1, <1>2 DEF Sequenced

\* What is kept of a sequence is a sequence of those items.
LEMMA KeptIs ==
  ASSUME NEW n \in Nat, NEW places \in SUBSET (1..n), NEW s
  PROVE  LET t == Kept(s, places)
         IN  /\ Sequenced(t) /\ Len(t) = Cardinality(places) /\ IsFiniteSet(places)
             /\ Range(t) = {s[i] : i \in places}
<1> DEFINE place == [i \in places |-> Cardinality({j \in places : j <= i})]
           order == InPlaces(places, place)
           m == Cardinality(places)
           t == Kept(s, places)
<1>1. /\ IsFiniteSet(places) /\ m \in Nat /\ order \in Seq(places) /\ Len(order) = m
      /\ \A k \in 1..m : order[k] \in places
      /\ \A i \in places : place[i] \in 1..m /\ order[place[i]] = i
  BY NumbersInARow
<1>2. order = [k \in 1..m |-> CHOOSE i \in places : place[i] = k]
  BY DEF InPlaces
<1>3. \A k \in 1..m : (CHOOSE i \in places : Cardinality({j \in places : j <= i}) = k) = order[k]
  <2> TAKE k \in 1..m
  <2>1. \A i \in places : place[i] = Cardinality({j \in places : j <= i})
    OBVIOUS
  <2>2. (CHOOSE i \in places : Cardinality({j \in places : j <= i}) = k)
          = (CHOOSE i \in places : place[i] = k)
    BY <2>1, Zenon
  <2> QED BY <1>2, <2>2
<1> HIDE DEF order, place
<1>4. t = [k \in 1..m |-> s[order[k]]]
  <2>1. t = [k \in 1..m |-> s[CHOOSE i \in places : Cardinality({j \in places : j <= i}) = k]]
    BY Zenon DEF Kept
  <2>2. \A k \in 1..m : s[CHOOSE i \in places : Cardinality({j \in places : j <= i}) = k]
                         = s[order[k]]
    BY <1>3, Zenon
  <2> QED BY <2>1, <2>2, Zenon
<1> HIDE DEF t, m
<1>5. \A k \in 1..m : t[k] = s[order[k]]
  BY <1>4
<1>6. t = [k \in 1..m |-> t[k]]
  BY <1>4, <1>5
<1>7. Sequenced(t) /\ Len(t) = m /\ DOMAIN t = 1..m
  BY <1>1, <1>6, IsSequenced
<1>8. Range(t) = {s[i] : i \in places}
  <2>1. \A k \in 1..m : t[k] \in {s[i] : i \in places}
    BY <1>1, <1>5
  <2>2. \A i \in places : s[i] \in {t[k] : k \in 1..m}
    <3> TAKE i \in places
    <3>1. place[i] \in 1..m /\ t[place[i]] = s[i]
      BY <1>1, <1>5
    <3> QED BY <3>1
  <2>3. Range(t) = {t[k] : k \in 1..m}
    BY <1>7, RangeIs
  <2> QED BY <2>1, <2>2, <2>3
<1> QED BY <1>1, <1>7, <1>8 DEF t, m

-----------------------------------------------------------------------------
(* Rows of filters. *)

\* What the edits of a row of filters leave it.
LEMMA AppendedIs ==
  ASSUME NEW s, Sequenced(s), NEW v
  PROVE  LET t == Append(s, v)
         IN  /\ Sequenced(t) /\ Len(t) = Len(s) + 1 /\ t[Len(s) + 1] = v
             /\ \A i \in 1..Len(s) : t[i] = s[i]
<1> DEFINE n == Len(s)
           t == Append(s, v)
<1>1. n \in Nat /\ DOMAIN s = 1..n /\ s \in Seq(Range(s) \cup {v})
  <2>1. Range(s) \subseteq Range(s) \cup {v}
    OBVIOUS
  <2> QED BY <2>1, SequencedIs DEF Sequenced
<1>2. /\ t \in Seq(Range(s) \cup {v}) /\ Len(t) = n + 1 /\ t[n + 1] = v
      /\ \A i \in 1..n : t[i] = s[i]
  BY <1>1
<1> HIDE DEF t, n
<1>3. n + 1 \in Nat /\ DOMAIN t = 1..n + 1 /\ t = [i \in 1..n + 1 |-> t[i]]
  BY <1>1, <1>2
<1>4. Sequenced(t)
  BY <1>3, IsSequenced
<1> QED BY <1>2, <1>4 DEF t, n

LEMMA ReplacedIs ==
  ASSUME NEW s, Sequenced(s), NEW i \in DOMAIN s, NEW v
  PROVE  LET t == [s EXCEPT ![i] = v]
         IN  /\ Sequenced(t) /\ Len(t) = Len(s) /\ DOMAIN t = DOMAIN s
             /\ t[i] = v /\ \A j \in DOMAIN s : j # i => t[j] = s[j]
<1> DEFINE t == [s EXCEPT ![i] = v]
<1>1. Len(s) \in Nat /\ DOMAIN s = 1..Len(s) /\ s = [j \in 1..Len(s) |-> s[j]]
  BY SequencedIs
<1>2. t = [j \in 1..Len(s) |-> t[j]]
  BY <1>1
<1>3. Sequenced(t) /\ Len(t) = Len(s) /\ DOMAIN t = 1..Len(s)
  BY <1>1, <1>2, IsSequenced
<1> QED BY <1>1, <1>3

LEMMA RemovedIs ==
  ASSUME NEW s, Sequenced(s), NEW i \in DOMAIN s
  PROVE  LET t == RemoveAt(s, i)
         IN  /\ Sequenced(t) /\ Len(t) = Len(s) - 1 /\ Len(t) \in Nat
             /\ \A j \in 1..Len(t) : t[j] = IF j < i THEN s[j] ELSE s[j + 1]
             /\ \A j \in DOMAIN t : t[j] \in {s[k] : k \in DOMAIN s}
<1> DEFINE n == Len(s)
           t == RemoveAt(s, i)
<1>1. n \in Nat /\ DOMAIN s = 1..n /\ i \in 1..n
  BY SequencedIs
<1>2. s \in Seq({s[j] : j \in DOMAIN s})
  BY RangeIs DEF Sequenced
<1>3. n - 1 \in Nat /\ t = [j \in 1..n - 1 |-> IF j < i THEN s[j] ELSE s[j + 1]]
  BY <1>2, RemovedItems
<1> HIDE DEF t, n
<1>4. \A j \in 1..n - 1 : t[j] = IF j < i THEN s[j] ELSE s[j + 1]
  BY <1>3
<1>5. t = [j \in 1..n - 1 |-> t[j]]
  BY <1>3
<1>6. Sequenced(t) /\ Len(t) = n - 1 /\ DOMAIN t = 1..n - 1
  BY <1>3, <1>5, IsSequenced
<1>7. \A j \in 1..n - 1 : t[j] \in {s[k] : k \in 1..n}
  <2> TAKE j \in 1..n - 1
  <2>1. j \in 1..n /\ j + 1 \in 1..n
    BY <1>1
  <2> QED BY <1>4, <2>1
<1> QED BY <1>1, <1>3, <1>4, <1>6, <1>7 DEF t, n

LEMMA FrontIs ==
  ASSUME NEW s, Sequenced(s), s # <<>>
  PROVE  LET t == Front(s)
         IN  /\ Sequenced(t) /\ Len(t) = Len(s) - 1 /\ DOMAIN t \subseteq DOMAIN s
             /\ \A j \in DOMAIN t : t[j] = s[j]
<1> DEFINE n == Len(s)
           t == Front(s)
<1>1. n \in Nat /\ n > 0 /\ DOMAIN s = 1..n
  BY SequencedIs
<1>2. s \in Seq(Range(s))
  BY DEF Sequenced
<1>3. t = SubSeq(s, 1, n - 1)
  BY DEF Front
<1>4. t \in Seq(Range(s)) /\ Len(t) = n - 1 /\ \A j \in 1..n - 1 : t[j] = s[j]
  BY <1>1, <1>2, <1>3
<1>5. n - 1 \in Nat /\ t = [j \in 1..n - 1 |-> t[j]]
  BY <1>1, <1>4
<1>6. Sequenced(t) /\ DOMAIN t = 1..n - 1
  BY <1>5, IsSequenced
<1> QED BY <1>1, <1>4, <1>6

-----------------------------------------------------------------------------
(* Filters, their operators and their way through the URL. *)

Scopes == Types \cup {AllTypes}
ChipsOK(type, chips) == Sequenced(chips) /\ AreChips(type, chips)

\* No type has a field of the system's; a search of everything knows no other.
LEMMA SystemFields ==
  /\ \A type, f : f \in System => FieldType(type, f) = SystemType(f)
  /\ \A f : Known(AllTypes, f) => f \in System
  /\ \A type : ~Known(type, NoField)
  /\ \A type \in Types : Fields(type) = DOMAIN FieldsOf[type]
<1>1. DOMAIN FieldsOf = Types /\ AllTypes \notin Types
  BY OptionsAssumption, ScopeAssumption
<1>2. \A type, f : f \in System \cup {NoField} => f \notin Fields(type)
  BY FieldsAssumption DEF Fields, Scoped, NoField
<1>3. \A type \in Types : Fields(type) = DOMAIN FieldsOf[type]
  BY <1>1 DEF Fields, Scoped
<1>4. \A f : f \notin Fields(AllTypes)
  BY <1>1 DEF Fields, Scoped
<1>5. NoField \notin System
  BY DEF NoField, System
<1> QED BY <1>2, <1>3, <1>4, <1>5 DEF FieldType, Known

\* A filter on a system field goes with every scope.
LEMMA SystemChips ==
  ASSUME NEW type, NEW other, NEW f, f.field \in System
  PROVE  /\ IsDraft(type, f) => IsDraft(other, f)
         /\ IsChip(type, f) => IsChip(other, f)
<1>1. FieldType(type, f.field) = FieldType(other, f.field)
  BY SystemFields
<1>2. Known(other, f.field)
  BY DEF Known
<1>3. IsDraft(type, f) => IsDraft(other, f)
  BY <1>1, <1>2 DEF IsDraft
<1> QED BY <1>1, <1>3 DEF IsChip

LEMMA UnscopedChips ==
  ASSUME NEW f, IsDraft(AllTypes, f) PROVE f.field \in System
BY SystemFields DEF IsDraft

\* What the kinds of editors are for.
LEMMA Editors ==
  ASSUME NEW kind \in FilterableTypes, NEW op \in OperatorsOf(kind)
  PROVE  LET input == valueInputKind(kind, op)
             arity == operatorArity(op)
         IN  /\ op \in NullaryOps <=> arity = "zero"
             /\ input \in {"multiSelect", "multiEntry"} => arity = "many" /\ kind \notin {"BOOLEAN", "DATETIME"}
             /\ input = "dateRange" => kind = "DATETIME" /\ op = "between" /\ arity = "two"
             /\ input = "date" => kind = "DATETIME" /\ op # "between" /\ arity \in {"zero", "one"}
             /\ input \in {"boolean", "select", "entry"} =>
                  arity \in {"zero", "one"} /\ kind # "DATETIME" /\ (input = "boolean" <=> kind = "BOOLEAN")
             /\ input \in {"text", "number"} =>
                  /\ arity \in {"zero", "one"}
                  /\ kind \notin {"BOOLEAN", "DATETIME", "RELATION", "MULTIRELATION"}
             /\ input \in {"multiSelect", "multiEntry", "dateRange", "date", "boolean", "select",
                           "entry", "text", "number"}
<1> USE DEF valueInputKind, operatorArity, NullaryOps, ListOps, RangeOps, OperatorsOf, FilterableTypes
<1>1. CASE kind = "SELECT"
  BY <1>1
<1>2. CASE kind = "MULTIRELATION"
  BY <1>2
<1>3. CASE kind = "DATETIME"
  BY <1>3
<1>4. CASE kind \in {"NUMBER", "BOOLEAN", "RELATION"}
  BY <1>4
<1>5. CASE kind \in {"TEXT", "TEXTAREA", "SLUG", "ENTRY_TITLE"}
  BY <1>5
<1> QED BY <1>1, <1>2, <1>3, <1>4, <1>5

\* A filter is read from the URL as it was written there, but for the value
\* behind a presence operator.
LEMMA RoundTrip ==
  ASSUME NEW type, NEW f, IsChip(type, f)
  PROVE  LET t == serializeFilter(f)
         IN  /\ t.field = f.field /\ t.op = f.op
             /\ parseFilter(t) = Meaning(f)
             /\ IsChip(type, parseFilter(t))
             /\ ParsedValues(t) = Meaning(f).value.items
<1> DEFINE t == serializeFilter(f)
           items == f.value.items
           kind == FieldType(type, f.field)
<1>1. /\ IsDraft(type, f) /\ kind \in FilterableTypes /\ f.op \in OperatorsOf(kind)
      /\ f = [field |-> f.field, op |-> f.op, value |-> f.value]
      /\ f.value = [list |-> f.value.list, items |-> f.value.items]
      /\ Sequenced(items)
  BY DEF IsChip, IsDraft, availableOperators, Sequenced
<1>2. t.field = f.field /\ t.op = f.op /\ t.raw = items
  BY DEF serializeFilter
<1>3. f.op \in NullaryOps <=> operatorArity(f.op) = "zero"
  BY <1>1, Editors
<1>4. CASE f.op \in NullaryOps
  <2>1. parseFilter(t) = [field |-> f.field, op |-> f.op, value |-> Null]
    BY <1>2, <1>3, <1>4 DEF parseFilter
  <2>2. Meaning(f) = [f EXCEPT !.value = Null]
    BY <1>4 DEF Meaning
  <2>3. Meaning(f) = parseFilter(t)
    BY <1>1, <2>1, <2>2
  <2>4. Null.items \in Seq(Range(Null.items)) /\ Null.list = FALSE
        /\ Null = [list |-> Null.list, items |-> Null.items]
        /\ "" \notin Range(Null.items)
    BY DEF Null, Range
  <2>5. IsDraft(type, parseFilter(t))
    <3> DEFINE g == [field |-> f.field, op |-> f.op, value |-> Null]
    <3>1. /\ g.field = f.field /\ g.op = f.op /\ g.value = Null
          /\ g = [field |-> g.field, op |-> g.op, value |-> g.value]
      OBVIOUS
    <3> HIDE DEF g
    <3>2. IsDraft(type, g)
      BY <1>1, <2>4, <3>1 DEF IsDraft
    <3> QED BY <2>1, <3>2 DEF g
  <2>6. IsChip(type, parseFilter(t))
    BY <1>4, <2>1, <2>5 DEF IsChip
  <2>7. ParsedValues(t) = <<>> /\ Meaning(f).value.items = <<>>
    BY <1>2, <1>3, <1>4, <2>1, <2>3 DEF ParsedValues, Null
  <2> QED BY <1>2, <2>3, <2>6, <2>7
<1>5. CASE f.op \notin NullaryOps
  <2>1. /\ f.value.list = (operatorArity(f.op) # "one") /\ RightCount(f.op, Len(items))
    BY <1>5 DEF IsChip, Gives
  <2>2. f.value = [list |-> f.value.list, items |-> items]
    BY <1>1
  <2>3. f = [field |-> f.field, op |-> f.op, value |-> f.value]
    BY <1>1
  <2>4. CASE operatorArity(f.op) = "one"
    <3>1. Len(items) = 1 /\ items = <<items[1]>> /\ items # <<>>
      <4>1. Len(items) = 1
        BY <2>1, <2>4 DEF RightCount
      <4> QED BY <1>1, <4>1 DEF Sequenced
    <3>2. parseFilter(t) = [field |-> f.field, op |-> f.op, value |-> Scalar(items[1])]
      BY <1>2, <2>4, <3>1 DEF parseFilter, Joined
    <3>3. Scalar(items[1]) = f.value
      BY <2>1, <2>2, <2>4, <3>1 DEF Scalar
    <3>4. parseFilter(t) = f /\ Meaning(f) = f
      BY <1>5, <2>3, <3>2, <3>3 DEF Meaning
    <3>5. ParsedValues(t) = items
      BY <1>2, <2>4, <3>1 DEF ParsedValues, Joined
    <3> QED BY <1>2, <3>4, <3>5
  <2>5. CASE operatorArity(f.op) # "one"
    <3>1. operatorArity(f.op) \in {"two", "many"}
      BY <1>3, <1>5, <2>5 DEF operatorArity
    <3>2. items # <<>>
      <4>1. Len(items) # 0
        BY <2>1, <3>1 DEF RightCount
      <4> QED BY <4>1, <1>1, SequencedIs
    <3>3. Split(t.raw) = items
      BY <1>2, <3>2 DEF Split
    <3>4. parseFilter(t) = [field |-> f.field, op |-> f.op, value |-> List(items)]
      BY <1>2, <3>1, <3>3 DEF parseFilter
    <3>5. List(items) = f.value
      BY <2>1, <2>2, <2>5 DEF List
    <3>6. parseFilter(t) = f /\ Meaning(f) = f
      BY <1>5, <2>3, <3>4, <3>5 DEF Meaning
    <3>7. ParsedValues(t) = items
      BY <1>2, <3>1, <3>3 DEF ParsedValues
    <3> QED BY <1>2, <3>6, <3>7
  <2> QED BY <2>4, <2>5
<1> QED BY <1>4, <1>5

\* Rows of chips stay rows of chips.
LEMMA RowsOfChips ==
  ASSUME NEW type, NEW s, ChipsOK(type, s)
  PROVE  /\ \A v : IsChip(type, v) => ChipsOK(type, Append(s, v))
         /\ \A i \in DOMAIN s : \A v : IsChip(type, v) => ChipsOK(type, [s EXCEPT ![i] = v])
         /\ \A i \in DOMAIN s : ChipsOK(type, RemoveAt(s, i))
         /\ s # <<>> => ChipsOK(type, Front(s))
<1> USE DEF ChipsOK, AreChips
<1>0. Len(s) \in Nat /\ DOMAIN s = 1..Len(s)
  BY SequencedIs
<1>1. ASSUME NEW v, IsChip(type, v) PROVE ChipsOK(type, Append(s, v))
  <2>1. PICK t : t = Append(s, v)
    OBVIOUS
  <2>2. Sequenced(t) /\ Len(t) = Len(s) + 1 /\ t[Len(s) + 1] = v /\ \A i \in 1..Len(s) : t[i] = s[i]
    BY <2>1, AppendedIs
  <2>3. DOMAIN t = 1..Len(s) + 1
    BY <2>2, SequencedIs
  <2>4. \A i \in 1..Len(s) + 1 : IsChip(type, t[i])
    BY <1>0, <1>1, <2>2
  <2> QED BY <2>1, <2>2, <2>3, <2>4
<1>2. ASSUME NEW i \in DOMAIN s, NEW v, IsChip(type, v) PROVE ChipsOK(type, [s EXCEPT ![i] = v])
  <2>1. PICK t : t = [s EXCEPT ![i] = v]
    OBVIOUS
  <2>2. /\ Sequenced(t) /\ DOMAIN t = DOMAIN s
        /\ t[i] = v /\ \A j \in DOMAIN s : j # i => t[j] = s[j]
    BY <2>1, ReplacedIs
  <2> QED BY <1>2, <2>1, <2>2
<1>3. ASSUME NEW i \in DOMAIN s PROVE ChipsOK(type, RemoveAt(s, i))
  <2>1. PICK t : t = RemoveAt(s, i)
    OBVIOUS
  <2>2. Sequenced(t) /\ \A j \in DOMAIN t : t[j] \in {s[k] : k \in DOMAIN s}
    BY <2>1, RemovedIs
  <2> QED BY <2>1, <2>2
<1>4. ASSUME s # <<>> PROVE ChipsOK(type, Front(s))
  <2>1. PICK t : t = Front(s)
    OBVIOUS
  <2>2. Sequenced(t) /\ DOMAIN t \subseteq DOMAIN s /\ \A j \in DOMAIN t : t[j] = s[j]
    BY <1>4, <2>1, FrontIs
  <2> QED BY <2>1, <2>2
<1> QED BY <1>1, <1>2, <1>3, <1>4

\* The filters that survive a change of the scope are chips there.
LEMMA SurvivorsAreChips ==
  ASSUME NEW type, NEW s, ChipsOK(type, s)
  PROVE  /\ ChipsOK(type, Survives(type, s))
         /\ ChipsOK(AllTypes, Survives(AllTypes, <<>>))
<1>0. ASSUME NEW other, NEW u, ChipsOK(other, u) PROVE ChipsOK(other, Survives(other, u))
  <2>1. CASE other \in Types
    BY <1>0, <2>1 DEF Survives
  <2>2. CASE other \notin Types
    <3> DEFINE places == {i \in DOMAIN u : u[i].field \in System}
    <3>1. PICK t : t = Kept(u, places)
      OBVIOUS
    <3>2. Len(u) \in Nat /\ places \in SUBSET (1..Len(u))
      BY <1>0, SequencedIs DEF ChipsOK
    <3>3. Sequenced(t) /\ Range(t) = {u[i] : i \in places}
      BY <3>1, <3>2, KeptIs
    <3>4. \A k \in DOMAIN t : \E i \in DOMAIN u : t[k] = u[i]
      BY <3>3, RangeIs
    <3>5. ChipsOK(other, t)
      BY <1>0, <3>3, <3>4 DEF ChipsOK, AreChips
    <3> QED BY <2>2, <3>1, <3>5 DEF Survives
  <2> QED BY <2>1, <2>2
<1>1. ChipsOK(AllTypes, <<>>)
  BY DEF ChipsOK, AreChips, Sequenced
<1> QED BY <1>0, <1>1

\* The URL of a row of chips.
LEMMA CompiledIsRead ==
  ASSUME NEW type, NEW q, NEW s, ChipsOK(type, s)
  PROVE  LET query == compileQuery(q, s)
         IN  /\ query.q = q /\ Sequenced(query.filters) /\ DOMAIN query.filters = DOMAIN s
             /\ ChipsOK(type, ChipsOf(query))
             /\ Meanings(ChipsOf(query)) = Meanings(s)
<1> DEFINE query == compileQuery(q, s)
           tokens == Mapped(serializeFilter, s)
           chips == ChipsOf(query)
<1>0. Sequenced(s) /\ \A i \in DOMAIN s : IsChip(type, s[i])
  BY DEF ChipsOK, AreChips
<1>1. query.q = q /\ query.filters = tokens
  BY DEF compileQuery
<1>2. tokens = [i \in DOMAIN s |-> serializeFilter(s[i])]
  BY DEF Mapped
<1>3. Sequenced(tokens) /\ DOMAIN tokens = DOMAIN s
  <2>1. Len(s) \in Nat /\ DOMAIN s = 1..Len(s)
    BY <1>0, SequencedIs
  <2>2. tokens = [i \in 1..Len(s) |-> tokens[i]]
    BY <1>2, <2>1
  <2> QED BY <2>1, <2>2, IsSequenced
<1>4. \A i \in DOMAIN s : tokens[i] = serializeFilter(s[i])
  BY <1>2
<1>5. chips = [i \in DOMAIN s |-> parseFilter(tokens[i])]
  BY <1>1, <1>3 DEF ChipsOf, Mapped
<1> HIDE DEF query, tokens, chips
<1>6. \A i \in DOMAIN s : chips[i] = Meaning(s[i]) /\ IsChip(type, chips[i])
  BY <1>0, <1>4, <1>5, RoundTrip
<1>7. Sequenced(chips) /\ DOMAIN chips = DOMAIN s
  <2>1. Len(s) \in Nat /\ DOMAIN s = 1..Len(s)
    BY <1>0, SequencedIs
  <2>2. chips = [i \in 1..Len(s) |-> chips[i]]
    BY <1>5, <2>1
  <2> QED BY <2>1, <2>2, IsSequenced
<1>8. ChipsOK(type, chips)
  BY <1>6, <1>7 DEF ChipsOK, AreChips
<1>9. \A i \in DOMAIN s : Meaning(chips[i]) = Meaning(s[i])
  <2>1. ASSUME NEW f, f = [field |-> f.field, op |-> f.op, value |-> f.value]
        PROVE  Meaning(Meaning(f)) = Meaning(f)
    <3>1. CASE f.op \in NullaryOps
      <4> DEFINE g == [f EXCEPT !.value = Null]
      <4>1. Meaning(f) = g
        BY <3>1 DEF Meaning
      <4>2. g.op = f.op /\ [g EXCEPT !.value = Null] = g
        BY <2>1
      <4> HIDE DEF g
      <4> QED BY <3>1, <4>1, <4>2 DEF Meaning
    <3>2. CASE f.op \notin NullaryOps
      BY <3>2 DEF Meaning
    <3> QED BY <3>1, <3>2
  <2> QED BY <1>0, <1>6, <2>1 DEF IsChip, IsDraft
<1>10. Meanings(chips) = Meanings(s)
  BY <1>7, <1>9 DEF Meanings
<1> QED BY <1>1, <1>3, <1>7, <1>8, <1>10 DEF query, chips

\* A chip as the compiler takes it.
Worded(f) == [field |-> f.field, op |-> f.op, values |-> Meaning(f).value.items]

\* The filters the server parses from that URL.
LEMMA ParsedIsWorded ==
  ASSUME NEW type, NEW q, NEW s, ChipsOK(type, s), NEW query, query = compileQuery(q, s)
  PROVE  \A i \in DOMAIN s : Parsed(query.filters[i]) = Worded(s[i])
<1>1. \A i \in DOMAIN s : query.filters[i] = serializeFilter(s[i])
  BY DEF compileQuery, Mapped
<1>2. \A i \in DOMAIN s : IsChip(type, s[i])
  BY DEF ChipsOK, AreChips
<1> QED BY <1>1, <1>2, RoundTrip DEF Parsed, Worded

-----------------------------------------------------------------------------
(* The palette. *)

HasDraft(s) == s.draft.field # NoField

(* A state of the palette: its filters are chips of its scope, what is being *)
(* made is a draft, and the index of an edited filter points at the one that *)
(* was opened.                                                               *)
BuilderOK(s, was) ==
  /\ DOMAIN s = {"open", "step", "scope", "q", "filters", "draft", "editing", "text", "locked"}
  /\ s.step \in Steps /\ s.scope \in Scopes /\ s.open \in BOOLEAN /\ s.locked \in BOOLEAN
  /\ ChipsOK(s.scope, s.filters)
  /\ s.editing \in 0..Len(s.filters)
  /\ s.editing # 0 => HasDraft(s) /\ s.filters[s.editing] = was
  /\ HasDraft(s) => IsDraft(s.scope, s.draft)
  /\ s.open /\ s.step \in {"operator", "value"} => HasDraft(s)
  /\ s.step = "contentType" => s.scope \notin Types
  /\ s.locked => s.scope \in Types

LEMMA HomeIsStep ==
  ASSUME NEW type
  PROVE  HomeStep(type) \in Steps /\ HomeStep(type) \notin {"operator", "value"}
         /\ (HomeStep(type) = "contentType" => type \notin Types)
BY DEF HomeStep, Steps

LEMMA NoDraftIsNone == NoDraft.field = NoField /\ Closed.draft = NoDraft
BY DEF NoDraft, Closed

\* Some of what a key may change.
LEMMA SmallEdits ==
  ASSUME NEW s, NEW was, BuilderOK(s, was)
  PROVE  /\ \A t : BuilderOK([s EXCEPT !.text = t], was)
         /\ \A q : BuilderOK([s EXCEPT !.q = q], was)
         /\ \A q, t : BuilderOK([s EXCEPT !.q = q, !.text = t], was)
         /\ \A t : BuilderOK([s EXCEPT !.text = t, !.q = "", !.step = HomeStep(s.scope)], was)
         /\ BuilderOK([s EXCEPT !.draft = NoDraft, !.editing = 0, !.step = HomeStep(s.scope)], was)
         /\ HasDraft(s) => BuilderOK([s EXCEPT !.step = "operator", !.text = ""], was)
<1> USE HomeIsStep DEF BuilderOK, HasDraft
<1>1. \A t : BuilderOK([s EXCEPT !.text = t], was)
  OBVIOUS
<1>2. \A q : BuilderOK([s EXCEPT !.q = q], was)
  OBVIOUS
<1>3. \A q, t : BuilderOK([s EXCEPT !.q = q, !.text = t], was)
  OBVIOUS
<1>4. \A t : BuilderOK([s EXCEPT !.text = t, !.q = "", !.step = HomeStep(s.scope)], was)
  OBVIOUS
<1>5. BuilderOK([s EXCEPT !.draft = NoDraft, !.editing = 0, !.step = HomeStep(s.scope)], was)
  <2>1. Len(s.filters) \in Nat
    BY SequencedIs DEF ChipsOK
  <2> QED BY <2>1, NoDraftIsNone
<1>6. HasDraft(s) => BuilderOK([s EXCEPT !.step = "operator", !.text = ""], was)
  BY DEF Steps
<1> QED BY <1>1, <1>2, <1>3, <1>4, <1>5, <1>6

\* A chip is committed: appended, or in the place of the edited one.
LEMMA CommitIs ==
  ASSUME NEW s, NEW was, BuilderOK(s, was), NEW f, IsChip(s.scope, f)
  PROVE  LET t == commitDraftFilter(s, f)
         IN  BuilderOK(t, was) /\ t.scope = s.scope /\ t.q = s.q
<1> DEFINE row == IF s.editing # 0 THEN [s.filters EXCEPT ![s.editing] = f] ELSE Append(s.filters, f)
           t == commitDraftFilter(s, f)
<1>1. /\ DOMAIN s = {"open", "step", "scope", "q", "filters", "draft", "editing", "text", "locked"}
      /\ ChipsOK(s.scope, s.filters) /\ s.editing \in 0..Len(s.filters)
  BY DEF BuilderOK
<1>2. Len(s.filters) \in Nat /\ DOMAIN s.filters = 1..Len(s.filters)
  BY <1>1, SequencedIs DEF ChipsOK
<1>3. ChipsOK(s.scope, row)
  <2>1. CASE s.editing # 0
    <3>1. s.editing \in DOMAIN s.filters
      BY <1>1, <1>2, <2>1
    <3> QED BY <1>1, <2>1, <3>1, RowsOfChips
  <2>2. CASE s.editing = 0
    BY <1>1, <2>2, RowsOfChips
  <2> QED BY <2>1, <2>2
<1>4. Len(row) \in Nat
  BY <1>3, SequencedIs DEF ChipsOK
<1>5. /\ DOMAIN t = DOMAIN s
      /\ t.open = s.open /\ t.scope = s.scope /\ t.locked = s.locked /\ t.q = s.q
      /\ t.filters = row /\ t.draft = NoDraft /\ t.editing = 0 /\ t.step = HomeStep(s.scope)
  BY <1>1 DEF commitDraftFilter
<1> HIDE DEF row, t
<1>6. BuilderOK(t, was)
  BY <1>1, <1>3, <1>4, <1>5, HomeIsStep, NoDraftIsNone DEF BuilderOK, HasDraft
<1> QED BY <1>5, <1>6 DEF t

-----------------------------------------------------------------------------
(* What the editors of a value give. *)

LEMMA NewValue ==
  ASSUME NEW f, f = [field |-> f.field, op |-> f.op, value |-> f.value], NEW v
  PROVE  LET g == [f EXCEPT !.value = v]
         IN  /\ g.field = f.field /\ g.op = f.op /\ g.value = v
             /\ g = [field |-> g.field, op |-> g.op, value |-> g.value]
<1> DEFINE g == [f EXCEPT !.value = v]
<1>1. DOMAIN f = {"field", "op", "value"}
  OBVIOUS
<1>2. DOMAIN g = {"field", "op", "value"} /\ g.field = f.field /\ g.op = f.op /\ g.value = v
  BY <1>1
<1>3. g = [field |-> f.field, op |-> f.op, value |-> v]
  BY <1>1
<1> QED BY <1>2, <1>3

\* A draft takes a value of its editor and is a chip.
LEMMA DraftTakes ==
  ASSUME NEW type, NEW f, IsDraft(type, f), NEW v,
         v = [list |-> v.list, items |-> v.items], v.list \in BOOLEAN, Sequenced(v.items),
         FieldType(type, f.field) \in {"RELATION", "MULTIRELATION"} => "" \notin Range(v.items),
         f.op \notin NullaryOps =>
           /\ v.list = (operatorArity(f.op) # "one")
           /\ Gives(FieldType(type, f.field), f.op, v.items)
  PROVE  IsChip(type, [f EXCEPT !.value = v])
<1> DEFINE g == [f EXCEPT !.value = v]
<1>1. f = [field |-> f.field, op |-> f.op, value |-> f.value]
  BY DEF IsDraft
<1>2. g.field = f.field /\ g.op = f.op /\ g.value = v /\ g = [field |-> g.field, op |-> g.op, value |-> g.value]
  BY <1>1, NewValue
<1> HIDE DEF g
<1>3. IsDraft(type, g)
  BY <1>2 DEF IsDraft, Sequenced
<1>4. IsChip(type, g)
  BY <1>2, <1>3 DEF IsChip
<1> QED BY <1>4 DEF g

LEMMA ScalarIs ==
  ASSUME NEW x
  PROVE  LET v == Scalar(x)
         IN  /\ v = [list |-> v.list, items |-> v.items] /\ v.list = FALSE /\ v.items = <<x>>
             /\ Sequenced(v.items) /\ Range(v.items) = {x} /\ Len(v.items) = 1 /\ v.items[1] = x
<1>1. Range(<<x>>) = {x}
  <2>1. DOMAIN <<x>> = {1} /\ <<x>>[1] = x
    OBVIOUS
  <2> QED BY <2>1, RangeIs
<1>2. <<x>> \in Seq({x})
  OBVIOUS
<1> QED BY <1>1, <1>2 DEF Scalar, Sequenced

\* A draft's field, its kind and the editor of its value.
LEMMA DraftIs ==
  ASSUME NEW type, NEW f, IsDraft(type, f)
  PROVE  LET kind == FieldType(type, f.field)
         IN  /\ f.field \in Fields(type) \cup System /\ kind \in FilterableTypes
             /\ f.op \in OperatorsOf(kind) /\ f.op \in availableOperators(f.field, kind)
             /\ f.op \in NullaryOps <=> operatorArity(f.op) = "zero"
BY Editors DEF IsDraft, Known, availableOperators

\* One item that its field takes makes a chip where one is asked for.
TakesOne(kind, op, x) ==
  /\ operatorArity(op) \in {"zero", "one"}
  /\ kind \in {"RELATION", "MULTIRELATION"} => x # ""
  /\ kind = "BOOLEAN" => x \in {"true", "false"}
  /\ kind = "DATETIME" => op # "between" /\ \E d \in Days : x = DayValue(d, op)
  /\ valueInputKind(kind, op) = "text" => x # ""

LEMMA OneItemGives ==
  ASSUME NEW type, NEW f, IsDraft(type, f), NEW x,
         TakesOne(FieldType(type, f.field), f.op, x),
         NEW g, g = [f EXCEPT !.value = Scalar(x)]
  PROVE  IsChip(type, g)
<1> DEFINE v == Scalar(x)
<1>1. /\ v = [list |-> v.list, items |-> v.items] /\ v.list = FALSE /\ v.items = <<x>>
      /\ Sequenced(v.items) /\ Range(v.items) = {x} /\ Len(v.items) = 1 /\ v.items[1] = x
  BY ScalarIs
<1> HIDE DEF v
<1>2. ASSUME f.op \notin NullaryOps PROVE operatorArity(f.op) = "one"
  BY <1>2, DraftIs DEF TakesOne
<1>3. ASSUME f.op \notin NullaryOps PROVE Gives(FieldType(type, f.field), f.op, v.items)
  BY <1>1, <1>2, <1>3 DEF Gives, RightCount, TakesOne
<1>4. IsChip(type, [f EXCEPT !.value = v])
  BY <1>1, <1>2, <1>3, DraftTakes DEF TakesOne
<1> QED BY <1>4 DEF v

LEMMA GreatestOf ==
  ASSUME NEW n \in Nat, NEW S \in SUBSET (0..n), S # {}
  PROVE  \E x \in S : \A y \in S : x >= y
<1> DEFINE D == {n - t : t \in S}
<1>1. \A t \in S : t \in Nat /\ t <= n
  OBVIOUS
<1>2. D \in SUBSET Nat /\ D # {}
  <2>1. \A t \in S : n - t \in Nat
    BY <1>1
  <2> QED BY <2>1
<1>3. PICK d \in D : \A u \in D : d <= u
  BY <1>2, LeastOf
<1>4. PICK t \in S : d = n - t
  OBVIOUS
<1>5. ASSUME NEW y \in S PROVE t >= y
  <2>1. d <= n - y
    BY <1>3
  <2> QED BY <1>1, <1>4, <2>1
<1> QED BY <1>5

\* The days of the calendar, and those of the presets.
LEMMA PresetsAreDays ==
  /\ Days \subseteq Nat /\ PickedDays \subseteq Days
  /\ \A preset \in Presets : PresetDays(preset, Today)[1] \in Days /\ PresetDays(preset, Today)[2] \in Days
<1>1. IsFiniteSet(Days) /\ Days = 0..Cardinality(Days) - 1 /\ Today - 29..Today \subseteq Days
  BY DayAssumption, PickedAssumption
<1>2. Cardinality(Days) \in Nat
  BY <1>1, FS_CardinalityType
<1> DEFINE n == Cardinality(Days) - 1
           month == {d \in Days : MonthOf[d] = MonthOf[Today]}
<1>3. n \in Int /\ Days = 0..n
  BY <1>1, <1>2
<1> HIDE DEF n
<1>4. Today \in Int /\ Today \in Days /\ {Today - 1, Today - 6, Today - 29} \subseteq Days
  BY <1>1, PickedAssumption
<1>5. n \in Nat
  BY <1>3, <1>4
<1>6. month \in SUBSET (0..n) /\ month # {} /\ month \subseteq Nat
  BY <1>3, <1>4
<1>7. (CHOOSE d \in month : \A e \in month : d <= e) \in Days
  <2>1. \E d \in month : \A e \in month : d <= e
    BY <1>6, LeastOf
  <2>2. (CHOOSE d \in month : \A e \in month : d <= e) \in month
    BY <2>1
  <2> QED BY <2>2
<1>8. (CHOOSE d \in month : \A e \in month : d >= e) \in Days
  <2>1. \E d \in month : \A e \in month : d >= e
    BY <1>5, <1>6, GreatestOf
  <2>2. (CHOOSE d \in month : \A e \in month : d >= e) \in month
    BY <2>1
  <2> QED BY <2>2
<1>9. ASSUME NEW preset \in Presets
      PROVE  PresetDays(preset, Today)[1] \in Days /\ PresetDays(preset, Today)[2] \in Days
  <2> HIDE DEF month
  <2>1. PresetDays(preset, Today) =
          CASE preset = "today"     -> <<Today, Today>>
            [] preset = "yesterday" -> <<Today - 1, Today - 1>>
            [] preset = "last7"     -> <<Today - 6, Today>>
            [] preset = "last30"    -> <<Today - 29, Today>>
            [] OTHER -> <<CHOOSE d \in month : \A e \in month : d <= e,
                          CHOOSE d \in month : \A e \in month : d >= e>>
    BY DEF PresetDays, month
  <2>2. CASE preset \in {"today", "yesterday", "last7", "last30"}
    BY <1>4, <2>1, <2>2
  <2>3. CASE preset \notin {"today", "yesterday", "last7", "last30"}
    <3>1. PresetDays(preset, Today) = <<CHOOSE d \in month : \A e \in month : d <= e,
                                        CHOOSE d \in month : \A e \in month : d >= e>>
      BY <2>1, <2>3
    <3> QED BY <1>7, <1>8, <3>1
  <2> QED BY <2>2, <2>3
<1>10. Days \subseteq Nat
  BY <1>3
<1> QED BY <1>9, <1>10, PickedAssumption

-----------------------------------------------------------------------------
(* The keys of the palette. *)

Palette == BuilderOK(builder, opened)

\* The steps that lead to a value.
LEMMA PickContentTypeKeeps ==
  ASSUME Palette, NEW c \in Types, PickContentType(c)
  PROVE  Palette'
<1> DEFINE s == [b EXCEPT !.step = "field", !.text = "", !.draft = NoDraft, !.editing = 0,
                          !.scope = c]
<1>1. builder' = s /\ opened' = opened /\ b.step = "contentType"
  BY DEF PickContentType, Key, Keeps
<1>2. /\ DOMAIN b = {"open", "step", "scope", "q", "filters", "draft", "editing", "text", "locked"}
      /\ b.step \in Steps /\ b.scope \in Scopes /\ b.open \in BOOLEAN /\ b.locked \in BOOLEAN
      /\ ChipsOK(b.scope, b.filters) /\ b.scope = AllTypes
  BY <1>1 DEF Palette, BuilderOK, b, Scopes
<1>3. ChipsOK(c, b.filters)
  BY <1>2, UnscopedChips, SystemChips DEF ChipsOK, AreChips, IsChip
<1>4. Len(b.filters) \in Nat
  BY <1>2, SequencedIs DEF ChipsOK
<1>5. /\ DOMAIN s = DOMAIN b
      /\ s.open = b.open /\ s.locked = b.locked /\ s.filters = b.filters
      /\ s.step = "field" /\ s.draft = NoDraft /\ s.editing = 0 /\ s.scope = c
  BY <1>2
<1> HIDE DEF s
<1>6. BuilderOK(s, opened)
  BY <1>2, <1>3, <1>4, <1>5, NoDraftIsNone DEF BuilderOK, HasDraft, Steps, Scopes
<1> QED BY <1>1, <1>6 DEF Palette

LEMMA PickFieldKeeps ==
  ASSUME Palette, NEW f, PickField(f)
  PROVE  Palette'
<1> DEFINE type == FieldType(b.scope, f)
           d == [field |-> f, op |-> FirstOperator(f, type), value |-> Null]
<1>1. \E step \in {"value", "operator"} :
        /\ builder' = [b EXCEPT !.text = "", !.draft = d, !.step = step]
        /\ opened' = opened /\ f \in Offered
  BY DEF PickField, Key, Keeps
<1>2. f \in Fields(b.scope) \cup System /\ type \in FilterableTypes
  <2>1. ASSUME f \in System PROVE type \in FilterableTypes
    <3>1. type = SystemType(f)
      BY <2>1, SystemFields
    <3> QED BY <3>1 DEF SystemType, FilterableTypes
  <2>2. ASSUME f \in Fields(b.scope) PROVE type = FieldsOf[b.scope][f]
    BY <2>2 DEF FieldType
  <2>3. f \in System \/ (f \in Fields(b.scope) /\ FieldsOf[b.scope][f] \in FilterableTypes)
    BY <1>1 DEF Offered, UnscopedSystem, System
  <2> QED BY <2>1, <2>2, <2>3
<1>3. FirstOperator(f, type) \in OperatorsOf(type) /\ FirstOperator(f, type) \notin NullaryOps
  BY <1>2 DEF FirstOperator, OperatorsOf, FilterableTypes, NullaryOps
<1>4. Sequenced(Null.items) /\ Null.list = FALSE /\ Null = [list |-> Null.list, items |-> Null.items]
      /\ "" \notin Range(Null.items)
  BY DEF Null, Range, Sequenced
<1>5. d.field = f /\ d.op = FirstOperator(f, type) /\ d.value = Null
      /\ d = [field |-> d.field, op |-> d.op, value |-> d.value]
  OBVIOUS
<1> HIDE DEF d
<1>6. IsDraft(b.scope, d)
  BY <1>2, <1>3, <1>4, <1>5 DEF IsDraft, Known, availableOperators, Sequenced
<1>7. d.field # NoField
  BY <1>2, <1>5, SystemFields DEF Known
<1>8. PICK step \in {"value", "operator"} : builder' = [b EXCEPT !.text = "", !.draft = d, !.step = step]
  BY <1>1
<1> DEFINE s == [b EXCEPT !.text = "", !.draft = d, !.step = step]
<1>9. /\ DOMAIN s = DOMAIN b
      /\ s.open = b.open /\ s.locked = b.locked /\ s.filters = b.filters /\ s.scope = b.scope
      /\ s.step = step /\ s.draft = d /\ s.editing = b.editing
  BY DEF Palette, BuilderOK, b
<1> HIDE DEF s
<1>10. BuilderOK(s, opened)
  BY <1>6, <1>7, <1>9 DEF Palette, BuilderOK, HasDraft, Steps, b
<1> QED BY <1>1, <1>8, <1>10 DEF Palette, s

\* An operator is picked for a draft.
LEMMA OperatorIs ==
  ASSUME NEW type, NEW f, IsDraft(type, f),
         NEW op \in availableOperators(f.field, FieldType(type, f.field))
  PROVE  LET g == [f EXCEPT !.op = op]
         IN  IsDraft(type, g) /\ g.field = f.field
<1> DEFINE g == [f EXCEPT !.op = op]
<1>1. DOMAIN f = {"field", "op", "value"}
  BY DEF IsDraft
<1>2. g.field = f.field /\ g.op = op /\ g.value = f.value
  BY <1>1
<1>3. g = [field |-> f.field, op |-> op, value |-> f.value]
  <2>1. f = [field |-> f.field, op |-> f.op, value |-> f.value]
    BY DEF IsDraft
  <2> QED BY <1>1, <2>1
<1> HIDE DEF g
<1>4. IsDraft(type, g)
  BY <1>2, <1>3 DEF IsDraft
<1> QED BY <1>2, <1>4 DEF g

LEMMA PresenceIs ==
  ASSUME NEW type, NEW f, IsDraft(type, f),
         NEW op \in availableOperators(f.field, FieldType(type, f.field)), op \in NullaryOps
  PROVE  IsChip(type, [f EXCEPT !.op = op, !.value = Null])
<1> DEFINE g == [f EXCEPT !.op = op]
<1>1. IsDraft(type, g) /\ g.op = op
  <2>1. DOMAIN f = {"field", "op", "value"}
    BY DEF IsDraft
  <2> QED BY <2>1, OperatorIs
<1>2. [f EXCEPT !.op = op, !.value = Null] = [g EXCEPT !.value = Null]
  OBVIOUS
<1> HIDE DEF g
<1>3. Sequenced(Null.items) /\ Null.list = FALSE /\ Null = [list |-> Null.list, items |-> Null.items]
      /\ "" \notin Range(Null.items)
  BY DEF Null, Range, Sequenced
<1>4. IsChip(type, [g EXCEPT !.value = Null])
  BY <1>1, <1>3, DraftTakes
<1> QED BY <1>2, <1>4

LEMMA PickOperatorKeeps ==
  ASSUME Palette, NEW op, PickOperator(op)
  PROVE  Palette'
<1> DEFINE type == FieldType(b.scope, b.draft.field)
<1>1. /\ Drafting /\ op \in availableOperators(b.draft.field, type) /\ opened' = opened
      /\ IsDraft(b.scope, b.draft)
  BY DEF PickOperator, Keeps, Palette, BuilderOK, Drafting, HasDraft, b
<1>2. CASE op \in NullaryOps
  <2>1. builder' = commitDraftFilter(b, [b.draft EXCEPT !.op = op, !.value = Null])
    BY <1>2 DEF PickOperator, Key
  <2>2. IsChip(b.scope, [b.draft EXCEPT !.op = op, !.value = Null])
    BY <1>1, <1>2, PresenceIs
  <2> QED BY <1>1, <2>1, <2>2, CommitIs DEF Palette, b
<1>3. CASE op \notin NullaryOps
  <2>1. PICK t : builder' = [b EXCEPT !.draft.op = op, !.step = "value", !.text = t]
    BY <1>3 DEF PickOperator, Key
  <2> DEFINE s == [b EXCEPT !.draft.op = op, !.step = "value", !.text = t]
  <2>2. /\ DOMAIN s = DOMAIN b
        /\ s.open = b.open /\ s.locked = b.locked /\ s.filters = b.filters /\ s.scope = b.scope
        /\ s.step = "value" /\ s.draft = [b.draft EXCEPT !.op = op] /\ s.editing = b.editing
    BY DEF Palette, BuilderOK, b
  <2> HIDE DEF s
  <2>3. IsDraft(b.scope, s.draft) /\ s.draft.field = b.draft.field
    BY <1>1, <2>2, OperatorIs
  <2>4. BuilderOK(s, opened)
    BY <1>1, <2>2, <2>3 DEF Palette, BuilderOK, HasDraft, Drafting, Steps, b
  <2> QED BY <1>1, <2>1, <2>4 DEF Palette, s
<1> QED BY <1>2, <1>3

\* The value is committed.
LEMMA ChooseKeeps ==
  ASSUME Palette, NEW v, Choose(v)
  PROVE  Palette'
<1> DEFINE type == FieldType(b.scope, b.draft.field)
<1>1. /\ DraftKind \in {"boolean", "select", "entry"} /\ v \in Options[b.draft.field]
      /\ builder' = commitDraftFilter(b, [b.draft EXCEPT !.value = Scalar(v)]) /\ opened' = opened
      /\ IsDraft(b.scope, b.draft) /\ b.scope \in Types \cup {AllTypes}
  BY DEF Choose, Key, Keeps, Palette, BuilderOK, Drafting, HasDraft, Scopes, b
<1>2. /\ b.draft.field \in Fields(b.scope) \cup System
      /\ type \in FilterableTypes /\ b.draft.op \in OperatorsOf(type)
  BY <1>1, DraftIs
<1>3. operatorArity(b.draft.op) \in {"zero", "one"} /\ type # "DATETIME"
      /\ valueInputKind(type, b.draft.op) # "text"
  BY <1>1, <1>2, Editors DEF DraftKind
<1>4. /\ type \in {"RELATION", "MULTIRELATION"} => v # ""
      /\ type = "BOOLEAN" => v \in {"true", "false"}
  BY <1>1, <1>2, OptionsAssumption
<1>5. PICK g : g = [b.draft EXCEPT !.value = Scalar(v)]
  OBVIOUS
<1>6. IsChip(b.scope, g)
  <2>1. TakesOne(type, b.draft.op, v)
    BY <1>3, <1>4 DEF TakesOne
  <2> QED BY <1>1, <1>5, <2>1, OneItemGives
<1> QED BY <1>1, <1>5, <1>6, CommitIs DEF Palette, b

LEMMA PickDayKeeps ==
  ASSUME Palette, NEW d \in PickedDays, PickDay(d)
  PROVE  Palette'
<1> DEFINE type == FieldType(b.scope, b.draft.field)
           x == DayValue(d, b.draft.op)
<1>1. /\ DraftKind = "date" /\ builder' = commitDraftFilter(b, [b.draft EXCEPT !.value = Scalar(x)])
      /\ opened' = opened /\ IsDraft(b.scope, b.draft)
  BY DEF PickDay, Key, Keeps, Palette, BuilderOK, Drafting, HasDraft, b
<1>2. type \in FilterableTypes /\ b.draft.op \in OperatorsOf(type)
  BY <1>1, DraftIs
<1>3. /\ operatorArity(b.draft.op) \in {"zero", "one"} /\ type = "DATETIME"
      /\ b.draft.op # "between" /\ valueInputKind(type, b.draft.op) # "text"
  BY <1>1, <1>2, Editors DEF DraftKind
<1>4. d \in Days
  BY PresetsAreDays
<1> HIDE DEF type
<1>5. \E e \in Days : x = DayValue(e, b.draft.op)
  BY <1>4
<1> HIDE DEF x
<1>6. PICK g : g = [b.draft EXCEPT !.value = Scalar(x)]
  OBVIOUS
<1>7. IsChip(b.scope, g)
  <2>1. TakesOne(type, b.draft.op, x)
    BY <1>3, <1>5 DEF TakesOne
  <2> QED BY <1>1, <1>6, <2>1, OneItemGives DEF type
<1> QED BY <1>1, <1>6, <1>7, CommitIs DEF Palette, b

LEMMA PickRangeKeeps ==
  ASSUME Palette, NEW d \in Days, NEW e \in Days, PickRange(d, e)
  PROVE  Palette'
<1> DEFINE type == FieldType(b.scope, b.draft.field)
           v == List(RangeValue(d, e))
<1>1. /\ DraftKind = "dateRange" /\ builder' = commitDraftFilter(b, [b.draft EXCEPT !.value = v])
      /\ opened' = opened /\ IsDraft(b.scope, b.draft)
  BY DEF PickRange, Key, Keeps, Palette, BuilderOK, Drafting, HasDraft, b
<1>2. type \in FilterableTypes /\ b.draft.op \in OperatorsOf(type)
  BY <1>1, DraftIs
<1>3. operatorArity(b.draft.op) = "two" /\ type = "DATETIME" /\ b.draft.op = "between"
  BY <1>1, <1>2, Editors DEF DraftKind
<1>4. /\ v = [list |-> v.list, items |-> v.items] /\ v.list = TRUE /\ v.items = RangeValue(d, e)
      /\ Len(v.items) = 2 /\ Sequenced(v.items)
  <2>1. \A x, y : <<x, y>> \in Seq({x, y}) /\ Range(<<x, y>>) = {x, y}
    <3> TAKE x, y
    <3>1. DOMAIN <<x, y>> = {1, 2} /\ <<x, y>>[1] = x /\ <<x, y>>[2] = y
      OBVIOUS
    <3> QED BY <3>1, RangeIs
  <2> QED BY <2>1 DEF List, RangeValue, Sequenced
<1> HIDE DEF v, type
<1>5. Gives(type, b.draft.op, v.items)
  BY <1>3, <1>4 DEF Gives, RightCount, valueInputKind
<1>6. IsChip(b.scope, [b.draft EXCEPT !.value = v])
  BY <1>1, <1>3, <1>4, <1>5, DraftTakes DEF type
<1> QED BY <1>1, <1>6, CommitIs DEF Palette, b

\* The text of the input, taken as the value of a draft.
LEMMA TypedIs ==
  ASSUME Palette, Drafting, Free(DraftKind), b.text # "",
         NEW g, g = [b.draft EXCEPT !.value = Scalar(b.text)]
  PROVE  IsChip(b.scope, g)
<1> DEFINE type == FieldType(b.scope, b.draft.field)
<1>1. IsDraft(b.scope, b.draft)
  BY DEF Palette, BuilderOK, Drafting, HasDraft, b
<1>2. type \in FilterableTypes /\ b.draft.op \in OperatorsOf(type)
  BY <1>1, DraftIs
<1>3. valueInputKind(type, b.draft.op) \in {"text", "number"}
  BY DEF Free, DraftKind
<1>4. /\ operatorArity(b.draft.op) \in {"zero", "one"}
      /\ type \notin {"BOOLEAN", "DATETIME", "RELATION", "MULTIRELATION"}
  <2>1. PICK kind, op : kind = type /\ op = b.draft.op
    OBVIOUS
  <2>2. kind \in FilterableTypes /\ op \in OperatorsOf(kind) /\ valueInputKind(kind, op) \in {"text", "number"}
    BY <1>2, <1>3, <2>1
  <2> HIDE DEF type
  <2>3. operatorArity(op) \in {"zero", "one"} /\ kind \notin {"BOOLEAN", "DATETIME", "RELATION", "MULTIRELATION"}
    BY <2>2, Editors
  <2> QED BY <2>1, <2>3
<1>5. TakesOne(type, b.draft.op, b.text)
  BY <1>4 DEF TakesOne
<1> QED BY <1>1, <1>5, OneItemGives

\* A list that is not empty, taken as it is.
LEMMA ListedIs ==
  ASSUME Palette, Drafting, DraftKind \in {"multiSelect", "multiEntry"},
         b.draft.value.list, b.draft.value.items # <<>>
  PROVE  IsChip(b.scope, b.draft)
<1> DEFINE type == FieldType(b.scope, b.draft.field)
           items == b.draft.value.items
<1>1. IsDraft(b.scope, b.draft)
  BY DEF Palette, BuilderOK, Drafting, HasDraft, b
<1>2. type \in FilterableTypes /\ b.draft.op \in OperatorsOf(type) /\ Sequenced(items)
  BY <1>1, DraftIs DEF IsDraft, Sequenced
<1>3. /\ operatorArity(b.draft.op) = "many" /\ type \notin {"BOOLEAN", "DATETIME"}
      /\ valueInputKind(type, b.draft.op) # "text"
  BY <1>2, Editors DEF DraftKind
<1>4. Len(items) >= 1
  BY <1>2, SequencedIs
<1>5. Gives(type, b.draft.op, items)
  BY <1>3, <1>4 DEF Gives, RightCount
<1>6. b.draft.value.list = TRUE
  BY <1>1 DEF IsDraft
<1> QED BY <1>1, <1>3, <1>5, <1>6 DEF IsChip

LEMMA CommitKeysKeep ==
  ASSUME Palette, EnterTyped \/ CommitList
  PROVE  Palette'
<1>1. CASE EnterTyped
  <2>1. PICK g : g = [b.draft EXCEPT !.value = Scalar(b.text)]
    OBVIOUS
  <2>2. IsChip(b.scope, g)
    BY <1>1, <2>1, TypedIs DEF EnterTyped
  <2>3. builder' = commitDraftFilter(b, g) /\ opened' = opened
    BY <1>1, <2>1 DEF EnterTyped, Key, Keeps
  <2> QED BY <2>2, <2>3, CommitIs DEF Palette, b
<1>2. CASE CommitList
  <2>1. IsChip(b.scope, b.draft)
    BY <1>2, ListedIs DEF CommitList
  <2>2. builder' = commitDraftFilter(b, b.draft) /\ opened' = opened
    BY <1>2 DEF CommitList, Key, Keeps
  <2> QED BY <2>1, <2>2, CommitIs DEF Palette, b
<1> QED BY <1>1, <1>2

\* A choice is added to a list or taken from it.
LEMMA ToggledItems ==
  ASSUME NEW s, Sequenced(s), NEW v
  PROVE  LET t == IF v \in Range(s) THEN Kept(s, {i \in DOMAIN s : s[i] # v}) ELSE Append(s, v)
         IN  Sequenced(t) /\ Range(t) \subseteq Range(s) \cup {v}
<1>1. Len(s) \in Nat /\ DOMAIN s = 1..Len(s) /\ Range(s) = {s[i] : i \in DOMAIN s}
  BY SequencedIs, RangeIs
<1>2. CASE v \in Range(s)
  <2> DEFINE places == {i \in DOMAIN s : s[i] # v}
  <2>1. PICK t : t = Kept(s, places)
    OBVIOUS
  <2>2. places \in SUBSET (1..Len(s))
    BY <1>1
  <2>3. Sequenced(t) /\ Range(t) = {s[i] : i \in places}
    BY <1>1, <2>1, <2>2, KeptIs
  <2>4. Range(t) \subseteq Range(s)
    BY <1>1, <2>3
  <2> QED BY <1>2, <2>1, <2>3, <2>4
<1>3. CASE v \notin Range(s)
  <2>1. PICK t : t = Append(s, v)
    OBVIOUS
  <2>2. Sequenced(t) /\ Len(t) = Len(s) + 1 /\ t[Len(s) + 1] = v /\ \A i \in 1..Len(s) : t[i] = s[i]
    BY <2>1, AppendedIs
  <2>3. DOMAIN t = 1..Len(s) + 1 /\ Range(t) = {t[i] : i \in DOMAIN t}
    BY <2>2, SequencedIs, RangeIs
  <2>4. \A i \in 1..Len(s) + 1 : t[i] \in Range(s) \cup {v}
    BY <1>1, <2>2
  <2> QED BY <1>3, <2>1, <2>2, <2>3, <2>4
<1> QED BY <1>2, <1>3

LEMMA ToggleValueKeeps ==
  ASSUME Palette, NEW v, ToggleValue(v)
  PROVE  Palette'
<1> DEFINE type == FieldType(b.scope, b.draft.field)
<1>1. /\ DraftKind \in {"multiSelect", "multiEntry"} /\ v \in Options[b.draft.field]
      /\ opened' = opened
      /\ IsDraft(b.scope, b.draft) /\ b.scope \in Types \cup {AllTypes}
  BY DEF ToggleValue, Keeps, Palette, BuilderOK, Drafting, HasDraft, Scopes, b
<1>2. /\ b.draft.field \in Fields(b.scope) \cup System
      /\ type \in FilterableTypes /\ b.draft.op \in OperatorsOf(type)
  BY <1>1, DraftIs
<1>3. type \in {"RELATION", "MULTIRELATION"} => v # ""
  BY <1>1, <1>2, OptionsAssumption
<1>4. Sequenced(Items) /\ (type \in {"RELATION", "MULTIRELATION"} => "" \notin Range(Items))
  <2>1. CASE b.draft.value.list
    BY <1>1, <2>1 DEF Items, IsDraft, Sequenced
  <2>2. CASE ~b.draft.value.list
    BY <2>2 DEF Items, Sequenced, Range
  <2> QED BY <2>1, <2>2
<1>5. PICK t : t = IF v \in Range(Items) THEN Kept(Items, {i \in DOMAIN Items : Items[i] # v})
                   ELSE Append(Items, v)
  OBVIOUS
<1>6. Sequenced(t) /\ Range(t) \subseteq Range(Items) \cup {v}
  BY <1>4, <1>5, ToggledItems
<1>7. PICK w : w = List(t)
  OBVIOUS
<1>8. w = [list |-> w.list, items |-> w.items] /\ w.list = TRUE /\ w.items = t
  BY <1>7 DEF List
<1>9. builder' = [b EXCEPT !.draft.value = w]
  BY <1>5, <1>7 DEF ToggleValue, Key
<1> DEFINE s == [b EXCEPT !.draft.value = w]
<1>10. /\ DOMAIN s = DOMAIN b
       /\ s.open = b.open /\ s.locked = b.locked /\ s.filters = b.filters /\ s.scope = b.scope
       /\ s.step = b.step /\ s.draft = [b.draft EXCEPT !.value = w] /\ s.editing = b.editing
  BY DEF Palette, BuilderOK, b
<1> HIDE DEF s
<1>11. b.draft = [field |-> b.draft.field, op |-> b.draft.op, value |-> b.draft.value]
  BY <1>1 DEF IsDraft
<1>12. /\ s.draft.field = b.draft.field /\ s.draft.op = b.draft.op /\ s.draft.value = w
       /\ s.draft = [field |-> s.draft.field, op |-> s.draft.op, value |-> s.draft.value]
  BY <1>10, <1>11, NewValue
<1>13. IsDraft(b.scope, s.draft)
  BY <1>1, <1>3, <1>4, <1>6, <1>8, <1>12 DEF IsDraft, Sequenced
<1>14. BuilderOK(s, opened)
  BY <1>10, <1>12, <1>13 DEF Palette, BuilderOK, HasDraft, b
<1> QED BY <1>1, <1>9, <1>14 DEF Palette, s

\* A chip is opened, or removed while another is edited.
LEMMA EditFilterKeeps ==
  ASSUME Palette, NEW i, NEW segment, EditFilter(i, segment)
  PROVE  Palette'
<1>8. PICK step : step = IF segment = "operator" THEN "operator" ELSE "value"
  OBVIOUS
<1>9. PICK t : t = IF /\ segment = "value"
                    /\ Free(valueInputKind(FieldType(b.scope, b.filters[i].field), b.filters[i].op))
                 THEN Text(b.filters[i].value) ELSE ""
  OBVIOUS
<1>1. /\ step \in {"operator", "value"}
      /\ builder' = [b EXCEPT !.draft = b.filters[i], !.editing = i, !.step = step, !.text = t]
  BY <1>8, <1>9 DEF EditFilter, Key
<1>2. i \in DOMAIN b.filters /\ opened' = b.filters[i]
  BY DEF EditFilter
<1> DEFINE s == [b EXCEPT !.draft = b.filters[i], !.editing = i, !.step = step, !.text = t]
<1>3. /\ DOMAIN s = DOMAIN b
      /\ s.open = b.open /\ s.locked = b.locked /\ s.filters = b.filters /\ s.scope = b.scope
      /\ s.step = step /\ s.draft = b.filters[i] /\ s.editing = i
  BY DEF Palette, BuilderOK, b
<1> HIDE DEF s
<1>4. IsDraft(b.scope, b.filters[i])
  BY <1>2 DEF Palette, BuilderOK, ChipsOK, AreChips, IsChip, b
<1>5. b.filters[i].field # NoField
  BY <1>4, SystemFields DEF IsDraft
<1>6. i \in 0..Len(b.filters)
  <2>1. Sequenced(b.filters)
    BY DEF Palette, BuilderOK, ChipsOK, b
  <2>2. Len(b.filters) \in Nat /\ DOMAIN b.filters = 1..Len(b.filters)
    BY <2>1, SequencedIs
  <2> QED BY <1>2, <2>2
<1>7. BuilderOK(s, b.filters[i])
  BY <1>1, <1>3, <1>4, <1>5, <1>6 DEF Palette, BuilderOK, HasDraft, Steps, b
<1> QED BY <1>1, <1>2, <1>7 DEF Palette, s

LEMMA RemoveFilterKeeps ==
  ASSUME Palette, NEW i, RemoveFilter(i)
  PROVE  Palette'
<1>1. /\ i \in DOMAIN b.filters /\ i # b.editing /\ opened' = opened
      /\ builder' = [b EXCEPT !.filters = RemoveAt(@, i), !.editing = EditingAfter(@, i)]
  BY DEF RemoveFilter, Key, Keeps
<1>2. PICK row : row = RemoveAt(b.filters, i)
  OBVIOUS
<1>3. PICK at : at = EditingAfter(b.editing, i)
  OBVIOUS
<1>4. /\ Sequenced(row) /\ Len(row) = Len(b.filters) - 1 /\ Len(row) \in Nat
      /\ \A j \in 1..Len(row) : row[j] = IF j < i THEN b.filters[j] ELSE b.filters[j + 1]
  BY <1>1, <1>2, RemovedIs DEF Palette, BuilderOK, ChipsOK, b
<1>5. ChipsOK(b.scope, row)
  BY <1>1, <1>2, RowsOfChips DEF Palette, BuilderOK, b
<1>6. /\ Len(b.filters) \in Nat /\ i \in 1..Len(b.filters) /\ b.editing \in 0..Len(b.filters)
      /\ b.editing # 0 => b.filters[b.editing] = opened
  BY <1>1, SequencedIs DEF Palette, BuilderOK, ChipsOK, b
<1>7. /\ at \in 0..Len(row) /\ (at # 0 <=> b.editing # 0)
      /\ at # 0 => row[at] = opened
  <2>1. CASE b.editing = 0
    BY <1>3, <1>4, <2>1 DEF EditingAfter
  <2>2. CASE b.editing # 0 /\ i < b.editing
    <3>1. at = b.editing - 1
      BY <1>3, <2>2 DEF EditingAfter
    <3>2. at \in 1..Len(row) /\ ~(at < i) /\ at + 1 = b.editing
      <4>1. Len(row) = Len(b.filters) - 1 /\ Len(row) \in Nat
        BY <1>4
      <4>2. Len(b.filters) \in Nat /\ i \in 1..Len(b.filters) /\ b.editing \in 0..Len(b.filters)
        BY <1>6
      <4> QED BY <2>2, <3>1, <4>1, <4>2
    <3>3. row[at] = b.filters[b.editing]
      BY <1>4, <3>2
    <3> QED BY <1>6, <2>2, <3>2, <3>3
  <2>3. CASE b.editing # 0 /\ ~(i < b.editing)
    <3>1. at = b.editing
      BY <1>3, <2>3 DEF EditingAfter
    <3>2. at \in 1..Len(row) /\ at < i
      BY <1>1, <1>4, <1>6, <2>3, <3>1
    <3>3. row[at] = b.filters[b.editing]
      BY <1>4, <3>1, <3>2
    <3> QED BY <1>6, <2>3, <3>2, <3>3
  <2> QED BY <2>1, <2>2, <2>3
<1> DEFINE s == [b EXCEPT !.filters = row, !.editing = at]
<1>8. builder' = s
  BY <1>1, <1>2, <1>3
<1>9. /\ DOMAIN s = DOMAIN b
      /\ s.open = b.open /\ s.locked = b.locked /\ s.filters = row /\ s.scope = b.scope
      /\ s.step = b.step /\ s.draft = b.draft /\ s.editing = at
  BY DEF Palette, BuilderOK, b
<1> HIDE DEF s
<1>10. BuilderOK(s, opened)
  BY <1>5, <1>7, <1>9 DEF Palette, BuilderOK, HasDraft, b
<1> QED BY <1>1, <1>8, <1>10 DEF Palette

LEMMA TextKeysKeep ==
  ASSUME Palette, (\E t : Type(t)) \/ EditDraft \/ EditFreeText \/ RemoveFreeText
  PROVE  Palette'
<1>0. opened' = opened /\ BuilderOK(b, opened)
  BY DEF Type, EditDraft, EditFreeText, RemoveFreeText, Keeps, Palette, b
<1>1. CASE \E t : Type(t)
  <2>1. PICK t : builder' = [b EXCEPT !.text = t]
    BY <1>1 DEF Type, Key
  <2> QED BY <1>0, <2>1, SmallEdits DEF Palette
<1>2. CASE EditDraft
  <2>1. builder' = [b EXCEPT !.step = "operator", !.text = ""] /\ HasDraft(b)
    BY <1>2 DEF EditDraft, Key, Drafting, HasDraft
  <2> QED BY <1>0, <2>1, SmallEdits DEF Palette
<1>3. CASE EditFreeText
  <2>1. PICK q : q = b.q
    OBVIOUS
  <2>2. builder' = [b EXCEPT !.text = q, !.q = "", !.step = HomeStep(b.scope)]
    BY <1>3, <2>1 DEF EditFreeText, Key
  <2> QED BY <1>0, <2>2, SmallEdits DEF Palette
<1>4. CASE RemoveFreeText
  <2>1. builder' = [b EXCEPT !.q = ""]
    BY <1>4 DEF RemoveFreeText, Key
  <2> QED BY <1>0, <2>1, SmallEdits DEF Palette
<1> QED BY <1>1, <1>2, <1>3, <1>4

LEMMA NoChips == \A type : ChipsOK(type, <<>>)
BY DEF ChipsOK, AreChips, Sequenced

LEMMA RemoveContentTypeKeeps ==
  ASSUME Palette, RemoveContentType
  PROVE  Palette'
<1> DEFINE s == [b EXCEPT !.step = "contentType", !.draft = NoDraft, !.editing = 0,
                          !.text = "", !.scope = AllTypes, !.filters = <<>>]
<1>1. builder' = s /\ opened' = opened /\ ~b.locked
  BY DEF RemoveContentType, Key, Keeps
<1>2. /\ DOMAIN s = DOMAIN b
      /\ s.open = b.open /\ s.locked = b.locked /\ s.filters = <<>> /\ s.scope = AllTypes
      /\ s.step = "contentType" /\ s.draft = NoDraft /\ s.editing = 0
  BY DEF Palette, BuilderOK, b
<1> HIDE DEF s
<1>3. BuilderOK(s, opened)
  BY <1>1, <1>2, NoChips, NoDraftIsNone, ScopeAssumption
     DEF Palette, BuilderOK, HasDraft, Steps, Scopes, b
<1> QED BY <1>1, <1>3 DEF Palette

LEMMA BackspaceKeeps ==
  ASSUME Palette, Backspace
  PROVE  Palette'
<1>0. opened' = opened /\ BuilderOK(b, opened)
  BY DEF Backspace, Keeps, Palette, b
<1>1. CASE builder' = [b EXCEPT !.draft = NoDraft, !.editing = 0, !.step = HomeStep(b.scope)]
  BY <1>0, <1>1, SmallEdits DEF Palette
<1>2. CASE builder' = [b EXCEPT !.q = ""]
  BY <1>0, <1>2, SmallEdits DEF Palette
<1>3. CASE ~Drafting /\ b.filters # <<>> /\ builder' = [b EXCEPT !.filters = Front(@)]
  <2>1. PICK row : row = Front(b.filters)
    OBVIOUS
  <2> DEFINE s == [b EXCEPT !.filters = row]
  <2>2. builder' = s
    BY <1>3, <2>1
  <2>3. ChipsOK(b.scope, row)
    BY <1>0, <1>3, <2>1, RowsOfChips DEF BuilderOK
  <2>4. Len(row) \in Nat
    BY <2>3, SequencedIs DEF ChipsOK
  <2>5. b.editing = 0
    BY <1>0, <1>3 DEF BuilderOK, Drafting, HasDraft
  <2>6. /\ DOMAIN s = DOMAIN b
        /\ s.open = b.open /\ s.locked = b.locked /\ s.filters = row /\ s.scope = b.scope
        /\ s.step = b.step /\ s.draft = b.draft /\ s.editing = 0
    BY <1>0, <2>5 DEF BuilderOK
  <2> HIDE DEF s
  <2>7. BuilderOK(s, opened)
    BY <1>0, <2>3, <2>4, <2>6 DEF BuilderOK, HasDraft
  <2> QED BY <1>0, <2>2, <2>7 DEF Palette
<1> QED BY <1>1, <1>2, <1>3 DEF Backspace, Key

\* Every key.
LEMMA KeysKeep ==
  ASSUME Palette, KeyPress
  PROVE  Palette'
<1>1. CASE (\E t \in Typed \cup {""} : Type(t)) \/ EditDraft \/ EditFreeText \/ RemoveFreeText
  BY <1>1, TextKeysKeep
<1>2. CASE \E c \in Types : PickContentType(c)
  BY <1>2, PickContentTypeKeeps
<1>3. CASE \E f \in Offered : PickField(f)
  BY <1>3, PickFieldKeeps
<1>4. CASE \E op \in OperatorsOf(FieldType(b.scope, b.draft.field)) : PickOperator(op)
  BY <1>4, PickOperatorKeeps
<1>5. CASE \E v \in Values : Choose(v) \/ ToggleValue(v)
  BY <1>5, ChooseKeeps, ToggleValueKeeps
<1>6. CASE \E d \in PickedDays : PickDay(d)
  BY <1>6, PickDayKeeps
<1>7. CASE \E d, e \in PickedDays : PickRange(d, e)
  BY <1>7, PickRangeKeeps, PresetsAreDays
<1>8. CASE \E preset \in Presets : PickRange(PresetDays(preset, Today)[1], PresetDays(preset, Today)[2])
  BY <1>8, PickRangeKeeps, PresetsAreDays
<1>9. CASE \E i \in DOMAIN b.filters :
              RemoveFilter(i) \/ \E segment \in {"operator", "value"} : EditFilter(i, segment)
  BY <1>9, RemoveFilterKeeps, EditFilterKeeps
<1>10. CASE EnterTyped \/ CommitList
  BY <1>10, CommitKeysKeep
<1>11. CASE RemoveContentType \/ Backspace
  BY <1>11, RemoveContentTypeKeeps, BackspaceKeeps
<1> QED BY <1>1, <1>2, <1>3, <1>4, <1>5, <1>6, <1>7, <1>8, <1>9, <1>10, <1>11 DEF KeyPress

-----------------------------------------------------------------------------
(* The palette, the URL and what was run. *)

RanIsTheUrl ==
  ran # NothingRan =>
    /\ scope = ran.scope /\ ChipsOK(scope, ran.chips)
    /\ url.query = compileQuery(ran.q, ran.chips)

PaletteIInv ==
  /\ scope \in Scopes
  /\ Sequenced(url.query.filters) /\ ChipsOK(scope, ChipsOf(url.query))
  /\ Palette
  /\ RanIsTheUrl

\* The page changes its query only by dropping it.
LEMMA PageKeepsItsQuery ==
  ASSUME Shapes, Next
  PROVE  scope' = scope /\ (url'.query = url.query \/ url'.query = NoQuery)
<1>0. DOMAIN url = {"after", "before", "query"}
  BY DEF Shapes
<1>1. CASE GoNext \/ GoPrev
  BY <1>0, <1>1 DEF GoNext, GoPrev, Navigate, Click
<1>2. CASE ResetCursor
  BY <1>0, <1>2 DEF ResetCursor, WithoutCursors, Navigate
<1>3. CASE ClearSearch
  BY <1>3 DEF ClearSearch, SearchUrl, Navigate, Click
<1>4. CASE \E f \in Filters : SetFilter(f)
  BY <1>4 DEF SetFilter, Navigate, Click
<1>5. CASE \E i \in 1..MaxInFlight : ReadPage(i) \/ AnswerBrowse(i) \/ AnswerSearch(i)
  BY <1>5 DEF ReadPage, AnswerBrowse, AnswerSearch, Display
<1>6. CASE \E ch \in Channels, i \in 1..MaxInFlight : Fail(ch, i)
  BY <1>6 DEF Fail, Display
<1>7. CASE (\E i \in 1..PerPage, shift \in BOOLEAN : Toggle(i, shift)) \/ ToggleAll \/ ClearTicks \/ PostBulk
  BY <1>7 DEF Toggle, ToggleAll, ClearTicks, PostBulk, Click
<1>8. CASE BulkAnswered \/ BulkFailed
  BY <1>8 DEF BulkAnswered, BulkFailed
<1>9. CASE \E e \in Entries : BulkPublishOne(e) \/ Write(e)
  BY <1>9 DEF BulkPublishOne, Write
<1> QED BY <1>1, <1>2, <1>3, <1>4, <1>5, <1>6, <1>7, <1>8, <1>9 DEF Next

LEMMA NoQueryIsFine ==
  /\ Sequenced(NoQuery.filters)
  /\ \A type : ChipsOK(type, ChipsOf(NoQuery))
<1>1. ChipsOf(NoQuery) = <<>>
  BY DEF ChipsOf, Mapped, NoQuery
<1> QED BY <1>1, NoChips DEF ChipsOK, NoQuery

LEMMA PageStepKeepsPalette ==
  ASSUME ListsIInv, PaletteIInv, Next, ran' = IF url' = url THEN ran ELSE NothingRan,
         UNCHANGED <<builder, opened>>
  PROVE  PaletteIInv'
<1>1. scope' = scope /\ (url'.query = url.query \/ url'.query = NoQuery)
  BY PageKeepsItsQuery DEF ListsIInv
<1>2. /\ scope \in Scopes /\ Sequenced(url'.query.filters)
      /\ ChipsOK(scope, ChipsOf(url'.query))
  BY <1>1, NoQueryIsFine DEF PaletteIInv
<1>3. RanIsTheUrl'
  BY <1>1 DEF PaletteIInv, RanIsTheUrl
<1>4. Palette'
  BY DEF PaletteIInv, Palette
<1> QED BY <1>1, <1>2, <1>3, <1>4 DEF PaletteIInv

\* The palette closed.
LEMMA ClosedIsOK == \A was : BuilderOK(Closed, was)
<1>1. Len(<<>>) = 0
  OBVIOUS
<1> QED BY <1>1, NoChips, NoDraftIsNone, ScopeAssumption
        DEF BuilderOK, Closed, HasDraft, Steps, Scopes

\* The palette opened on a page shows the chips of its URL.
LEMMA OpenedIsOK ==
  ASSUME PaletteIInv PROVE BuilderOK(initState, opened)
<1> DEFINE s == initState
<1>1. /\ DOMAIN s = {"open", "step", "scope", "q", "filters", "draft", "editing", "text", "locked"}
      /\ s.open = TRUE /\ s.locked = (scope \in Types) /\ s.scope = scope
      /\ s.filters = ChipsOf(url.query) /\ s.step = HomeStep(scope)
      /\ s.draft = NoDraft /\ s.editing = 0
  BY DEF initState, Closed
<1> HIDE DEF s
<1>2. Len(s.filters) \in Nat
  BY <1>1, SequencedIs DEF PaletteIInv, ChipsOK
<1>3. BuilderOK(s, opened)
  <2>1. s.locked \in BOOLEAN /\ (s.locked => s.scope \in Types) /\ s.open \in BOOLEAN
    <3>1. (scope \in Types) \in BOOLEAN
      OBVIOUS
    <3>2. s.locked \in BOOLEAN
      BY <1>1, <3>1, Zenon
    <3>3. s.locked => s.scope \in Types
      BY <1>1, Zenon
    <3>4. s.open \in BOOLEAN
      BY <1>1
    <3> QED BY <3>2, <3>3, <3>4
  <2>2. s.step \in Steps /\ s.step \notin {"operator", "value"}
        /\ (s.step = "contentType" => s.scope \notin Types)
    BY <1>1, HomeIsStep, Zenon
  <2>3. s.scope \in Scopes /\ ChipsOK(s.scope, s.filters) /\ s.editing \in 0..Len(s.filters)
    BY <1>1, <1>2 DEF PaletteIInv
  <2>4. s.editing = 0 /\ ~HasDraft(s)
    BY <1>1, NoDraftIsNone DEF HasDraft
  <2>5. DOMAIN s = {"open", "step", "scope", "q", "filters", "draft", "editing", "text", "locked"}
    BY <1>1, Zenon
  <2> QED BY <2>1, <2>2, <2>3, <2>4, <2>5, Zenon DEF BuilderOK
<1> QED BY <1>3 DEF s

\* A query is run: its chips are those of the URL it leads to.
LEMMA LeaveIsRead ==
  ASSUME NEW to, NEW q, NEW filters, ChipsOK(to, filters), Leave(to, q, filters)
  PROVE  LET chips == Survives(to, filters)
         IN  /\ scope' = to /\ url'.query = compileQuery(q, chips)
             /\ ChipsOK(to, chips)
             /\ Sequenced(url'.query.filters) /\ ChipsOK(to, ChipsOf(url'.query))
             /\ builder' = Closed /\ opened' = opened
<1> PICK chips : chips = Survives(to, filters)
  OBVIOUS
<1>1. ChipsOK(to, chips)
  BY SurvivorsAreChips
<1> PICK query : query = compileQuery(q, chips)
  OBVIOUS
<1>2. Search(to, query) /\ builder' = Closed /\ opened' = opened
  BY DEF Leave
<1>3. scope' = to /\ url' = SearchUrl(query)
  BY <1>2 DEF Search, Navigate, Mount
<1>4. url'.query = query
  BY <1>3 DEF SearchUrl
<1>5. Sequenced(query.filters) /\ ChipsOK(to, ChipsOf(query))
  BY <1>1, CompiledIsRead
<1> QED BY <1>1, <1>2, <1>3, <1>4, <1>5

\* What is submitted is chips: what was pending is one, or left out.
LEMMA SubmittedIs ==
  ASSUME Palette
  PROVE  ChipsOK(Submitted.scope, Submitted.filters) /\ Submitted.scope = b.scope
<1>0. BuilderOK(b, opened) /\ ChipsOK(b.scope, b.filters) /\ DOMAIN b =
        {"open", "step", "scope", "q", "filters", "draft", "editing", "text", "locked"}
  BY DEF Palette, BuilderOK, b
<1>1. CASE TicksPending
  <2>1. PICK s : s = commitDraftFilter(b, b.draft)
    OBVIOUS
  <2>2. IsChip(b.scope, b.draft)
    BY <1>1, ListedIs DEF TicksPending
  <2>3. BuilderOK(s, opened) /\ s.scope = b.scope
    BY <1>0, <2>1, <2>2, CommitIs
  <2>4. ~(b.step # "value" /\ b.text # "") /\ ~TextPending
    BY <1>1 DEF TicksPending, TextPending, Free
  <2>5. Submitted = s
    BY <1>1, <2>1, <2>4 DEF Submitted
  <2> QED BY <2>3, <2>5 DEF BuilderOK
<1>2. CASE TextPending /\ ~TicksPending
  <2>1. PICK g : g = [b.draft EXCEPT !.value = Scalar(b.text)]
    OBVIOUS
  <2>2. PICK s : s = commitDraftFilter(b, g)
    OBVIOUS
  <2>3. IsChip(b.scope, g)
    BY <1>2, <2>1, TypedIs DEF TextPending
  <2>4. BuilderOK(s, opened) /\ s.scope = b.scope
    BY <1>0, <2>2, <2>3, CommitIs
  <2>5. Submitted = s
    BY <1>2, <2>1, <2>2 DEF Submitted, TextPending
  <2> QED BY <2>4, <2>5 DEF BuilderOK
<1>3. CASE ~TextPending /\ ~TicksPending
  <2>1. Submitted = IF b.step # "value" /\ b.text # "" THEN [b EXCEPT !.q = b.text, !.text = ""] ELSE b
    BY <1>3 DEF Submitted
  <2>2. Submitted.scope = b.scope /\ Submitted.filters = b.filters
    BY <1>0, <2>1
  <2> QED BY <1>0, <2>2
<1> QED BY <1>1, <1>2, <1>3

\* The steps that open, run and leave the palette.
LEMMA RunsKeep ==
  ASSUME PaletteIInv, OpenPalette \/ ClosePalette \/ Submit \/ Broaden
  PROVE  PaletteIInv'
<1>1. CASE OpenPalette \/ ClosePalette
  <2>1. UNCHANGED <<scope, url, ran, opened>> /\ (builder' = initState \/ builder' = Closed)
    BY <1>1 DEF OpenPalette, ClosePalette, page
  <2>2. Palette'
    BY <2>1, OpenedIsOK, ClosedIsOK DEF Palette
  <2> QED BY <2>1, <2>2 DEF PaletteIInv, RanIsTheUrl
<1>2. CASE Submit
  <2>1. PICK to, q, filters : /\ to = Submitted.scope /\ q = Submitted.q /\ filters = Submitted.filters
                              /\ Leave(to, q, filters)
                              /\ ran' = [scope |-> to, q |-> q, chips |-> Survives(to, filters)]
    BY <1>2 DEF Submit
  <2>2. ChipsOK(to, filters)
    BY <2>1, SubmittedIs DEF PaletteIInv
  <2>3. to \in Scopes
    <3>1. Submitted.scope = b.scope
      BY SubmittedIs DEF PaletteIInv
    <3> QED BY <2>1, <3>1 DEF PaletteIInv, Palette, BuilderOK, b
  <2>4. PICK chips : chips = Survives(to, filters)
    OBVIOUS
  <2>5. /\ scope' = to /\ url'.query = compileQuery(q, chips) /\ ChipsOK(to, chips)
        /\ Sequenced(url'.query.filters) /\ ChipsOK(to, ChipsOf(url'.query))
        /\ builder' = Closed /\ opened' = opened
    BY <2>1, <2>2, <2>4, LeaveIsRead
  <2>6. Palette' /\ RanIsTheUrl'
    BY <2>1, <2>4, <2>5, ClosedIsOK DEF Palette, RanIsTheUrl
  <2> QED BY <2>3, <2>5, <2>6 DEF PaletteIInv
<1>3. CASE Broaden
  <2>1. PICK q : Leave(AllTypes, q, <<>>) /\ ran' = [scope |-> AllTypes, q |-> q, chips |-> <<>>]
    BY <1>3 DEF Broaden
  <2>2. PICK chips : chips = Survives(AllTypes, <<>>)
    OBVIOUS
  <2>3. /\ scope' = AllTypes /\ url'.query = compileQuery(q, chips) /\ ChipsOK(AllTypes, chips)
        /\ Sequenced(url'.query.filters) /\ ChipsOK(AllTypes, ChipsOf(url'.query))
        /\ builder' = Closed /\ opened' = opened
    BY <2>1, <2>2, LeaveIsRead, NoChips
  <2>4. chips = <<>>
    <3> DEFINE places == {i \in DOMAIN <<>> : <<>>[i].field \in System}
    <3>1. chips = Kept(<<>>, places)
      BY <2>2, ScopeAssumption DEF Survives
    <3>2. places = {} /\ places \in SUBSET (1..0)
      OBVIOUS
    <3>3. Sequenced(chips) /\ Len(chips) = Cardinality(places)
      BY <3>1, <3>2, KeptIs
    <3>4. Cardinality(places) = 0
      BY <3>2, FS_EmptySet
    <3> QED BY <3>3, <3>4, SequencedIs
  <2>5. Palette' /\ RanIsTheUrl'
    BY <2>1, <2>3, <2>4, ClosedIsOK DEF Palette, RanIsTheUrl
  <2> QED BY <2>3, <2>5 DEF PaletteIInv, Scopes
<1> QED BY <1>1, <1>2, <1>3

LEMMA DropChipKeepsPalette ==
  ASSUME PaletteIInv, NEW i, DropChip(i)
  PROVE  PaletteIInv'
<1> PICK chips : chips = ChipsOf(url.query)
  OBVIOUS
<1> PICK row : row = RemoveAt(chips, i)
  OBVIOUS
<1> PICK query : query = compileQuery(url.query.q, row)
  OBVIOUS
<1>1. ChipsOK(scope, chips) /\ i \in DOMAIN chips
  BY DEF PaletteIInv, DropChip
<1>2. ChipsOK(scope, row)
  BY <1>1, RowsOfChips
<1>3. Sequenced(query.filters) /\ ChipsOK(scope, ChipsOf(query))
  BY <1>2, CompiledIsRead
<1>4. url' = SearchUrl(query) /\ ran' = NothingRan /\ UNCHANGED <<scope, builder, opened>>
  BY DEF DropChip, Navigate, Click
<1>5. url'.query = query
  BY <1>4 DEF SearchUrl
<1>6. Palette' /\ RanIsTheUrl'
  BY <1>4 DEF PaletteIInv, Palette, RanIsTheUrl
<1> QED BY <1>3, <1>4, <1>5, <1>6 DEF PaletteIInv

LEMMA PaletteStep ==
  ASSUME ListsIInv, PaletteIInv, [SearchNext]_<<vars, builderVars>>
  PROVE  PaletteIInv'
<1>1. CASE /\ ~b.open /\ Next
           /\ ran' = IF url' = url THEN ran ELSE NothingRan
           /\ UNCHANGED <<builder, opened>>
  BY <1>1, PageStepKeepsPalette
<1>2. CASE KeyPress
  <2>1. UNCHANGED <<scope, url, ran>>
    BY <1>2, KeyPressIsKey DEF Key, page
  <2>2. Palette'
    BY <1>2, KeysKeep DEF PaletteIInv
  <2> QED BY <2>1, <2>2 DEF PaletteIInv, RanIsTheUrl
<1>3. CASE OpenPalette \/ ClosePalette \/ Submit \/ Broaden
  BY <1>3, RunsKeep
<1>4. CASE \E i \in DOMAIN url.query.filters : DropChip(i)
  BY <1>4, DropChipKeepsPalette
<1>5. CASE UNCHANGED <<vars, builderVars>>
  BY <1>5 DEF vars, builderVars, page, PaletteIInv, Palette, RanIsTheUrl
<1> QED BY <1>1, <1>2, <1>3, <1>4, <1>5 DEF SearchNext

LEMMA PaletteBegins == SearchInit => PaletteIInv
<1> SUFFICES ASSUME SearchInit PROVE PaletteIInv
  OBVIOUS
<1>1. PICK start \in Starts : scope = start.scope /\ url = SearchUrl(start.query)
  BY DEF SearchInit, Init
<1>2. url.query = start.query
  BY <1>1 DEF SearchUrl
<1>3. /\ start.scope \in Scopes /\ Sequenced(start.query.filters)
      /\ AreChips(start.scope, ChipsOf(start.query))
  BY QueryAssumption DEF Scopes, Sequenced
<1>4. Sequenced(ChipsOf(start.query))
  <2> PICK tokens : tokens = start.query.filters
    OBVIOUS
  <2>1. Len(tokens) \in Nat /\ DOMAIN tokens = 1..Len(tokens)
    BY <1>3, SequencedIs
  <2>2. PICK chips : chips = ChipsOf(start.query)
    OBVIOUS
  <2>3. chips = [i \in 1..Len(tokens) |-> parseFilter(tokens[i])]
    BY <2>1, <2>2 DEF ChipsOf, Mapped
  <2>4. chips = [i \in 1..Len(tokens) |-> chips[i]]
    BY <2>3
  <2> QED BY <2>1, <2>2, <2>4, IsSequenced
<1>5. Palette /\ RanIsTheUrl
  BY ClosedIsOK DEF SearchInit, Palette, RanIsTheUrl
<1> QED BY <1>1, <1>2, <1>3, <1>4, <1>5 DEF PaletteIInv, ChipsOK

\* The values of a chip are literals of its field's type, or a text behind a
\* number.
LEMMA ChipLiterals ==
  ASSUME NEW kind \in FilterableTypes, NEW op \in OperatorsOf(kind) \ NullaryOps,
         NEW items, Sequenced(items), Gives(kind, op, items)
  PROVE  Literals(kind, items) \/ (kind = "NUMBER" /\ items[1] \notin Numbers)
<1>1. Range(items) = {items[i] : i \in DOMAIN items} /\ DOMAIN items = 1..Len(items)
  BY RangeIs, SequencedIs
<1>2. ASSUME operatorArity(op) = "one" PROVE Range(items) = {items[1]}
  <2>1. Len(items) = 1
    BY <1>2 DEF Gives, RightCount
  <2> QED BY <1>1, <2>1
<1>3. CASE kind = "NUMBER"
  <2>1. operatorArity(op) = "one"
    BY <1>3 DEF operatorArity, OperatorsOf, NullaryOps, RangeOps, ListOps
  <2> QED BY <1>2, <1>3, <2>1 DEF Literals
<1>4. CASE kind = "BOOLEAN"
  <2>1. operatorArity(op) = "one"
    BY <1>4 DEF operatorArity, OperatorsOf, NullaryOps, RangeOps, ListOps
  <2>2. items[1] \in {"true", "false"}
    BY <1>4 DEF Gives
  <2> QED BY <1>2, <1>4, <2>1, <2>2 DEF Literals
<1>5. CASE kind = "DATETIME"
  <2>1. CASE op = "between"
    <3>1. PICK d, e \in Days : items = <<Iso[d].start, Iso[e].end>>
      BY <1>5, <2>1 DEF Gives, RangeValue
    <3>2. Range(items) = {Iso[d].start, Iso[e].end}
      BY <1>1, <3>1
    <3>3. Iso[d].start \in DOMAIN EpochOf /\ Iso[e].end \in DOMAIN EpochOf
      BY DayAssumption
    <3> QED BY <1>5, <3>2, <3>3 DEF Literals
  <2>2. CASE op # "between"
    <3>1. PICK d \in Days : items = <<Iso[d][Edge(op)]>>
      BY <1>5, <2>2 DEF Gives, DayValue
    <3>2. Range(items) = {Iso[d][Edge(op)]} /\ Edge(op) \in {"start", "end"}
      BY <1>1, <3>1 DEF Edge
    <3>3. Iso[d][Edge(op)] \in DOMAIN EpochOf
      BY <3>2, DayAssumption
    <3> QED BY <1>5, <3>2, <3>3 DEF Literals
  <2> QED BY <2>1, <2>2
<1> QED BY <1>3, <1>4, <1>5 DEF Literals

\* The compiler takes the filter of a chip, but for a text behind a number.
LEMMA ChipCompiles ==
  ASSUME NEW type, NEW f, IsChip(type, f), NEW t,
         t = Worded(f)
  PROVE  compileSearchFilter(type, t) # {}
           \/ (FieldType(type, t.field) = "NUMBER" /\ t.values[1] \notin Numbers)
<1> DEFINE kind == FieldType(type, f.field)
<1>1. /\ t.field = f.field /\ t.op = f.op /\ t.values = Meaning(f).value.items
      /\ Known(type, f.field) /\ kind \in FilterableTypes
      /\ f.op \in OperatorsOf(kind) /\ (f.field \in System => f.op \notin NullaryOps)
      /\ Sequenced(f.value.items)
  BY DEF IsChip, IsDraft, availableOperators, Sequenced, Worded
<1>2. f.op \in NullaryOps <=> operatorArity(f.op) = "zero"
  BY <1>1, Editors
<1>3. /\ RightCount(f.op, Len(t.values))
      /\ Literals(kind, t.values) \/ (kind = "NUMBER" /\ t.values[1] \notin Numbers)
  <2>1. CASE f.op \in NullaryOps
    <3>1. f = [field |-> f.field, op |-> f.op, value |-> f.value]
      BY DEF IsChip, IsDraft
    <3>2. Meaning(f) = [f EXCEPT !.value = Null]
      BY <2>1 DEF Meaning
    <3>3. t.values = <<>>
      BY <1>1, <3>1, <3>2 DEF Null
    <3>4. Range(t.values) = {}
      BY <3>3, RangeIs
    <3>5. Literals(kind, t.values)
      BY <3>4 DEF Literals
    <3>6. operatorArity(f.op) = "zero" /\ Len(t.values) = 0
      BY <1>2, <2>1, <3>3
    <3>7. RightCount(f.op, Len(t.values))
      BY <3>6, Zenon DEF RightCount
    <3> QED BY <3>5, <3>7
  <2>2. CASE f.op \notin NullaryOps
    <3>1. Meaning(f) = f /\ t.values = f.value.items
      BY <1>1, <2>2 DEF Meaning
    <3>2. Gives(kind, f.op, t.values)
      BY <2>2, <3>1 DEF IsChip
    <3>3. Literals(kind, t.values) \/ (kind = "NUMBER" /\ t.values[1] \notin Numbers)
      BY <1>1, <2>2, <3>1, <3>2, ChipLiterals
    <3> QED BY <3>2, <3>3 DEF Gives
  <2> QED BY <2>1, <2>2
<1>4. ASSUME Literals(kind, t.values) PROVE compileSearchFilter(type, t) # {}
  BY <1>1, <1>3, <1>4 DEF compileSearchFilter
<1> QED BY <1>1, <1>3, <1>4

\* The palette, its URL and what it last ran stay in step.
THEOREM PaletteInvariance == SearchSpec => []PaletteIInv
<1>1. SearchInit => PaletteIInv
  BY PaletteBegins
<1>2. ListsIInv /\ PaletteIInv /\ [SearchNext]_<<vars, builderVars>> => PaletteIInv'
  BY PaletteStep
<1> QED BY <1>1, <1>2, ListsInvariance, PTL DEF SearchSpec

\* While a filter is re-edited its index points at it, whatever chips are
\* removed and re-edited meanwhile (removeFilter, editFilter, commitFilter
\* of machine.ts).
THEOREM EditsPointAtOpened == SearchSpec => []EditingPointsAtOpened
<1>1. PaletteIInv => EditingPointsAtOpened
  <2> SUFFICES ASSUME PaletteIInv PROVE EditingPointsAtOpened
    OBVIOUS
  <2>1. /\ Sequenced(b.filters) /\ b.editing \in 0..Len(b.filters)
        /\ b.editing # 0 => b.filters[b.editing] = opened
    BY DEF PaletteIInv, Palette, BuilderOK, ChipsOK, b
  <2>2. DOMAIN b.filters = 1..Len(b.filters) /\ Len(b.filters) \in Nat
    BY <2>1, SequencedIs
  <2> QED BY <2>1, <2>2 DEF EditingPointsAtOpened
<1> QED BY <1>1, PaletteInvariance, PTL

\* What is run is what the chips say: their URL is read back as the same
\* chips and the server compiles the same values (compile.ts, navigation.ts,
\* parseFilters of search.get.ts, compileSearchFilter.ts).
THEOREM SearchesRunTheChips == SearchSpec => []SearchRunsTheChips
<1>1. PaletteIInv => SearchRunsTheChips
  <2> SUFFICES ASSUME PaletteIInv, ran # NothingRan
               PROVE  /\ scope = ran.scope /\ url.query.q = ran.q
                      /\ Meanings(ChipsOf(url.query)) = Meanings(ran.chips)
                      /\ \A i \in DOMAIN ran.chips :
                           LET t == Parsed(url.query.filters[i])
                           IN  /\ t.values = Meaning(ran.chips[i]).value.items
                               /\ \/ compileSearchFilter(scope, t) # {}
                                  \/ FieldType(scope, t.field) = "NUMBER" /\ t.values[1] \notin Numbers
    BY DEF SearchRunsTheChips
  <2> PICK chips : chips = ran.chips
    OBVIOUS
  <2>1. scope = ran.scope /\ ChipsOK(scope, chips) /\ url.query = compileQuery(ran.q, chips)
    BY DEF PaletteIInv, RanIsTheUrl
  <2>2. /\ url.query.q = ran.q
        /\ Meanings(ChipsOf(url.query)) = Meanings(chips)
        /\ \A i \in DOMAIN chips :
             Parsed(url.query.filters[i]) = Worded(chips[i])
    <3> PICK q : q = ran.q
      OBVIOUS
    <3> PICK query : query = compileQuery(q, chips)
      OBVIOUS
    <3>1. /\ query.q = q /\ Meanings(ChipsOf(query)) = Meanings(chips)
          /\ \A i \in DOMAIN chips :
               Parsed(query.filters[i]) = Worded(chips[i])
      <4>1. ChipsOK(scope, chips)
        BY <2>1
      <4>2. query.q = q
        BY <4>1, CompiledIsRead
      <4>3. Meanings(ChipsOf(query)) = Meanings(chips)
        BY <4>1, CompiledIsRead
      <4>4. \A i \in DOMAIN chips :
               Parsed(query.filters[i]) = Worded(chips[i])
        BY <4>1, ParsedIsWorded
      <4> QED BY <4>2, <4>3, <4>4
    <3>2. url.query = query
      BY <2>1
    <3> QED BY <3>1, <3>2
  <2>3. ASSUME NEW i \in DOMAIN chips, NEW t, t = Parsed(url.query.filters[i])
        PROVE  /\ t.values = Meaning(chips[i]).value.items
               /\ \/ compileSearchFilter(scope, t) # {}
                  \/ FieldType(scope, t.field) = "NUMBER" /\ t.values[1] \notin Numbers
    <3>1. IsChip(scope, chips[i])
      BY <2>1 DEF ChipsOK, AreChips
    <3>2. t = Worded(chips[i])
      BY <2>2, <2>3
    <3>3. t.values = Meaning(chips[i]).value.items
      BY <3>2 DEF Worded
    <3>4. \/ compileSearchFilter(scope, t) # {}
          \/ FieldType(scope, t.field) = "NUMBER" /\ t.values[1] \notin Numbers
      BY <3>1, <3>2, ChipCompiles
    <3> QED BY <3>3, <3>4
  <2> QED BY <2>1, <2>2, <2>3
<1> QED BY <1>1, PaletteInvariance, PTL

-----------------------------------------------------------------------------
(* What is on screen: its rows are few, its cursors are of entries, and the  *)
(* anchor of the selection is one of its rows.                               *)

FoundOK(found) ==
  found.info \in Infos /\ found.rows \in Seq(Entries) /\ Len(found.rows) <= PerPage
TableOK(answer) ==
  /\ answer.info \in Infos /\ Len(answer.rows) \in 0..PerPage
  /\ DOMAIN answer.rows = 1..Len(answer.rows)
  /\ \A i \in DOMAIN answer.rows : answer.rows[i].id \in Entries

ScreenIInv ==
  /\ clock \in 0..MaxTime
  /\ url.after \in Cursors /\ url.before \in Cursors
  /\ \A i \in DOMAIN fetches["browse"] : FoundOK(fetches["browse"][i].found)
  /\ \A ch \in Channels : TableOK(shown[ch])
  /\ ticked.anchor \in 0..Len(ActiveRows)
  /\ bulk.todo \subseteq bulk.ids /\ bulk.done \subseteq bulk.ids

LEMMA NothingIsFine == FoundOK(Unread) /\ TableOK(Blank) /\ Blank.info = EmptyPageInfo
<1>1. EmptyPageInfo \in Infos
  BY DEF EmptyPageInfo, Infos, Cursors
<1>2. Len(<<>>) = 0 /\ <<>> \in Seq(Entries) /\ 0 \in 0..PerPage
  BY PageAssumption
<1>3. Unread.rows = <<>> /\ Unread.info = EmptyPageInfo
  BY DEF Unread
<1>4. Blank.rows = <<>> /\ Blank.info = EmptyPageInfo
  BY DEF Blank
<1>5. FoundOK(Unread)
  BY <1>1, <1>2, <1>3, PageAssumption DEF FoundOK
<1> QED BY <1>1, <1>2, <1>4, <1>5 DEF TableOK

\* The requests of a fetch that asks again have found nothing yet.
LEMMA AskedFound ==
  ASSUME NEW s, FetchOK(s), NEW ask, NEW t, t = Append(Overtaken(s), Request(ask))
  PROVE  \A i \in DOMAIN t : FoundOK(t[i].found)
<1> DEFINE n == Len(s)
           o == Overtaken(s)
<1>1. n \in Nat /\ DOMAIN s = 1..n
  BY FetchIsSequence
<1>2. o = [i \in 1..n |-> [Request(s[i].ask) EXCEPT !.late = TRUE]]
  BY <1>1 DEF Overtaken
<1>3. \A i \in 1..n : o[i].found = Unread
  BY <1>2 DEF Request
<1>4. o = [i \in 1..n |-> o[i]]
  BY <1>2
<1> HIDE DEF o, n
<1>5. Sequenced(o) /\ Len(o) = n /\ DOMAIN o = 1..n
  BY <1>1, <1>4, IsSequenced
<1>6. Sequenced(t) /\ Len(t) = n + 1 /\ t[n + 1] = Request(ask) /\ \A i \in 1..n : t[i] = o[i]
  BY <1>5, AppendedIs DEF o
<1>7. DOMAIN t = 1..n + 1
  BY <1>6, SequencedIs
<1>8. Request(ask).found = Unread
  BY DEF Request
<1>9. \A i \in 1..n + 1 : i = n + 1 \/ i \in 1..n
  BY <1>1 DEF n
<1> QED BY <1>3, <1>6, <1>7, <1>8, <1>9, NothingIsFine

\* The route changes.
LEMMA NavigationKeepsScreen ==
  ASSUME ListsIInv, ScreenIInv, NEW u, NEW f, Navigate(u, f),
         u.after \in Cursors, u.before \in Cursors, UNCHANGED <<clock, shown, bulk>>
  PROVE  ScreenIInv'
<1>1. url' = u /\ OnRows((u.query # NoQuery) # IsSearchMode)
  BY DEF Navigate
<1>2. DOMAIN fetches = Channels /\ FetchOK(fetches["browse"]) /\ "browse" \in Channels
  BY DEF ListsIInv, Shapes, Channels
<1>3. \A i \in DOMAIN fetches'["browse"] : FoundOK(fetches'["browse"][i].found)
  <2>1. PICK t : t = Append(Overtaken(fetches["browse"]), Request(BrowseAsk(u, f)))
    OBVIOUS
  <2>2. PICK browse : browse = IF BrowseAsk(u, f) # BrowseAsk(url, filter)
                               THEN Ask(fetches, "browse", BrowseAsk(u, f)) ELSE fetches
    OBVIOUS
  <2>3. browse["browse"] = t \/ browse["browse"] = fetches["browse"]
    BY <1>2, <2>1, <2>2 DEF Ask
  <2>4. DOMAIN browse = Channels
    BY <1>2, <2>2 DEF Ask
  <2>5. fetches' = IF u # url /\ u.query # NoQuery THEN Ask(browse, "search", SearchAsk(u)) ELSE browse
    BY <2>2 DEF Navigate
  <2>6. fetches'["browse"] = browse["browse"]
    BY <1>2, <2>4, <2>5 DEF Ask
  <2>7. \A i \in DOMAIN t : FoundOK(t[i].found)
    BY <1>2, <2>1, AskedFound
  <2> QED BY <2>3, <2>6, <2>7 DEF ScreenIInv
<1>4. (ticked.anchor \in 0..Len(ActiveRows))'
  <2>1. CASE (u.query # NoQuery) # IsSearchMode
    <3>1. ticked'.anchor = 0
      BY <1>1, <2>1 DEF OnRows, Cleared
    <3>2. Len(ActiveRows') \in Nat
      BY DEF ScreenIInv, TableOK, ActiveRows, Mode, Channels
    <3> QED BY <3>1, <3>2
  <2>2. CASE ~((u.query # NoQuery) # IsSearchMode)
    <3>1. ticked' = ticked
      BY <1>1, <2>2 DEF OnRows
    <3>2. ActiveRows' = ActiveRows
      BY <1>1, <2>2 DEF ActiveRows, Mode, IsSearchMode
    <3> QED BY <3>1, <3>2 DEF ScreenIInv
  <2> QED BY <2>1, <2>2
<1> QED BY <1>1, <1>3, <1>4 DEF ScreenIInv

LEMMA NoCursorIsOne == NoCursor \in Cursors
BY DEF Cursors

\* A search on this page, or on another.
LEMMA SearchUrlKeepsScreen ==
  ASSUME ListsIInv, ScreenIInv, NEW query, Navigate(SearchUrl(query), filter),
         UNCHANGED <<clock, shown, bulk>>
  PROVE  ScreenIInv'
<1>1. PICK u : u = SearchUrl(query)
  OBVIOUS
<1>2. u.after \in Cursors /\ u.before \in Cursors
  BY <1>1, NoCursorIsOne DEF SearchUrl
<1>3. PICK f : f = filter
  OBVIOUS
<1>4. Navigate(u, f)
  BY <1>1, <1>3
<1> QED BY <1>2, <1>4, NavigationKeepsScreen

LEMMA MountKeepsScreen ==
  ASSUME ListsIInv, ScreenIInv, NEW to, NEW query, Mount(to, query), clock' = clock
  PROVE  ScreenIInv'
<1>1. url'.after = NoCursor /\ url'.before = NoCursor
  BY DEF Mount, SearchUrl
<1>2. fetches'["browse"] = <<Request(BrowseAsk(SearchUrl(query), "active"))>>
  BY DEF Mount, Channels
<1>3. \A i \in DOMAIN fetches'["browse"] : fetches'["browse"][i].found = Unread
  BY <1>2 DEF Request
<1>4. \A ch \in Channels : shown'[ch] = Blank
  BY DEF Mount
<1>5. ticked'.anchor = 0
  BY DEF Mount, Cleared
<1>6. Len(ActiveRows') \in Nat
  BY <1>4, NothingIsFine DEF TableOK, ActiveRows, Mode, Channels
<1>7. bulk'.todo = {} /\ bulk'.done = {}
  BY DEF Mount, NoBulk
<1> QED BY <1>1, <1>3, <1>4, <1>5, <1>6, <1>7, NothingIsFine, NoCursorIsOne DEF ScreenIInv

LEMMA LeaveKeepsScreen ==
  ASSUME ListsIInv, ScreenIInv, NEW to, NEW q, NEW filters, Leave(to, q, filters)
  PROVE  ScreenIInv'
<1>1. PICK query : query = compileQuery(q, Survives(to, filters))
  OBVIOUS
<1>2. Search(to, query) /\ clock' = clock
  BY <1>1 DEF Leave, db
<1>3. CASE to = scope
  BY <1>2, <1>3, SearchUrlKeepsScreen DEF Search
<1>4. CASE to # scope
  BY <1>2, <1>4, MountKeepsScreen DEF Search
<1> QED BY <1>3, <1>4

\* What is read is a page of entries, between cursors of theirs.
LEMMA PageIsFound ==
  ASSUME RowsTyped, NEW who, NEW f, NEW after, NEW before
  PROVE  FoundOK(KeysetPage(who, f, after, before))
<1> DEFINE backward == before # NoCursor /\ after = NoCursor
           cursor == IF backward THEN before ELSE after
           S == {e \in Listed(who, f) : Beyond(cursor, e, backward)}
           q == InOrder(S, backward)
           n == IF Len(q) > PerPage THEN PerPage + 1 ELSE Len(q)
           fetched == SubSeq(q, 1, n)
           extra == Len(fetched) > PerPage
           kept == IF extra THEN SubSeq(fetched, 1, PerPage) ELSE fetched
           rows == IF backward THEN Reverse(kept) ELSE kept
           start == IF rows = <<>> THEN NoCursor ELSE CursorOf(rows[1])
           end == IF rows = <<>> THEN NoCursor ELSE CursorOf(Last(rows))
           pg == KeysetPage(who, f, after, before)
<1>1. S \in SUBSET Entries /\ backward \in BOOLEAN
  BY DEF Listed
<1>2. q \in Seq(S) /\ Len(q) \in Nat
  <2>1. PICK way \in BOOLEAN : way = backward
    OBVIOUS
  <2>2. PICK set \in SUBSET Entries : set = S
    BY <1>1
  <2>3. InOrder(set, way) \in Seq(set) /\ Len(InOrder(set, way)) \in Nat
    BY ListIsInOrder
  <2> QED BY <2>1, <2>2, <2>3
<1>3. pg.rows = rows
  BY DEF KeysetPage
<1>4. pg.info = [next |-> IF backward THEN TRUE ELSE extra,
                 prev |-> IF backward THEN extra ELSE after # NoCursor,
                 start |-> start, end |-> end]
  BY DEF KeysetPage
<1> HIDE DEF pg, q, S
<1>5. q \in Seq(Entries) /\ PerPage \in Nat /\ PerPage > 0
  <2>1. Len(q) \in Nat /\ \A k \in 1..Len(q) : q[k] \in S
    BY <1>2
  <2>2. q = [k \in 1..Len(q) |-> q[k]]
    BY <1>2
  <2>3. \A k \in 1..Len(q) : q[k] \in Entries
    BY <1>1, <2>1
  <2>4. q \in Seq(Entries)
    BY <2>1, <2>2, <2>3
  <2> QED BY <2>4, PageAssumption
<1>6. kept \in Seq(Entries) /\ Len(kept) \in Nat /\ Len(kept) <= PerPage
  <2>1. n \in 0..Len(q)
    BY <1>2, <1>5
  <2> HIDE DEF n
  <2>2. fetched \in Seq(Entries) /\ Len(fetched) = n
    BY <1>5, <2>1
  <2> HIDE DEF fetched
  <2>3. CASE extra
    <3>1. kept = SubSeq(fetched, 1, PerPage) /\ PerPage <= Len(fetched)
      BY <1>2, <1>5, <2>1, <2>2, <2>3
    <3> QED BY <1>5, <2>2, <3>1
  <2>4. CASE ~extra
    <3>1. kept = fetched /\ ~(n > PerPage)
      BY <2>2, <2>4
    <3> QED BY <1>2, <1>5, <2>1, <2>2, <3>1
  <2> QED BY <2>3, <2>4
<1>7. extra \in BOOLEAN
  OBVIOUS
<1> HIDE DEF kept, extra
<1>8. rows \in Seq(Entries) /\ Len(rows) = Len(kept)
  <2>1. Reverse(kept) = [k \in 1..Len(kept) |-> kept[(Len(kept) - k) + 1]]
    BY DEF Reverse
  <2>2. \A k \in 1..Len(kept) : kept[(Len(kept) - k) + 1] \in Entries
    BY <1>6
  <2>3. Reverse(kept) \in Seq(Entries) /\ Len(Reverse(kept)) = Len(kept)
    BY <1>6, <2>1, <2>2
  <2> QED BY <1>6, <2>3
<1> HIDE DEF rows
<1>9. \A e \in Entries : CursorOf(e) \in Cursors
  <2> TAKE e \in Entries
  <2>1. table[e].at \in 0..MaxTime
    BY DEF RowsTyped, Rows
  <2> QED BY <2>1 DEF Cursors, CursorOf
<1>10. start \in Cursors /\ end \in Cursors
  <2>1. CASE rows = <<>>
    BY <2>1, NoCursorIsOne
  <2>2. CASE rows # <<>>
    <3>1. rows[1] \in Entries /\ rows[Len(rows)] \in Entries
      BY <1>8, <2>2
    <3>2. start = CursorOf(rows[1]) /\ end = CursorOf(rows[Len(rows)])
      BY <2>2 DEF Last
    <3> QED BY <1>9, <3>1, <3>2
  <2> QED BY <2>1, <2>2
<1> HIDE DEF start, end
<1>11. pg.info \in Infos
  <2> PICK next, prev : /\ next = IF backward THEN TRUE ELSE extra
                        /\ prev = IF backward THEN extra ELSE after # NoCursor
    OBVIOUS
  <2>1. next \in BOOLEAN /\ prev \in BOOLEAN
    BY <1>7
  <2>2. pg.info = [next |-> next, prev |-> prev, start |-> start, end |-> end]
    BY <1>4
  <2>3. \A a, c \in BOOLEAN : \A s, t \in Cursors :
          [next |-> a, prev |-> c, start |-> s, end |-> t] \in Infos
    BY DEF Infos
  <2> QED BY <1>10, <2>1, <2>2, <2>3, ZenonT(60)
<1> QED BY <1>3, <1>6, <1>8, <1>11 DEF FoundOK, pg

\* The page's own links.
LEMMA PagingKeepsScreen ==
  ASSUME ListsIInv, ScreenIInv,
         \/ GoNext \/ GoPrev \/ ResetCursor \/ ClearSearch
         \/ \E f \in Filters : SetFilter(f)
  PROVE  ScreenIInv'
<1>1. /\ shown["browse"].info.start \in Cursors /\ shown["browse"].info.end \in Cursors
      /\ url.after \in Cursors /\ url.before \in Cursors /\ DOMAIN url = {"after", "before", "query"}
  BY DEF ScreenIInv, TableOK, Infos, Channels, ListsIInv, Shapes
<1>2. UNCHANGED <<clock, shown, bulk>>
  BY DEF GoNext, GoPrev, ResetCursor, ClearSearch, SetFilter, Click, db
<1>3. CASE ClearSearch
  BY <1>2, <1>3, SearchUrlKeepsScreen DEF ClearSearch
<1>4. ASSUME NEW u, u.after \in Cursors, u.before \in Cursors, NEW f, Navigate(u, f)
      PROVE  ScreenIInv'
  BY <1>2, <1>4, NavigationKeepsScreen
<1>5. CASE GoNext
  <2>1. PICK u : u = [url EXCEPT !.after = shown["browse"].info.end, !.before = NoCursor]
    OBVIOUS
  <2>2. u.after \in Cursors /\ u.before \in Cursors
    BY <1>1, <2>1, NoCursorIsOne
  <2>3. PICK f : f = filter
    OBVIOUS
  <2> QED BY <1>4, <1>5, <2>1, <2>2, <2>3 DEF GoNext
<1>6. CASE GoPrev
  <2>1. PICK u : u = [url EXCEPT !.before = shown["browse"].info.start, !.after = NoCursor]
    OBVIOUS
  <2>2. u.after \in Cursors /\ u.before \in Cursors
    BY <1>1, <2>1, NoCursorIsOne
  <2>3. PICK f : f = filter
    OBVIOUS
  <2> QED BY <1>4, <1>6, <2>1, <2>2, <2>3 DEF GoPrev
<1>7. CASE ResetCursor
  <2>1. PICK u : u = WithoutCursors(url)
    OBVIOUS
  <2>2. u.after \in Cursors /\ u.before \in Cursors
    BY <1>1, <2>1, NoCursorIsOne DEF WithoutCursors
  <2>3. PICK f : f = filter
    OBVIOUS
  <2> QED BY <1>4, <1>7, <2>1, <2>2, <2>3 DEF ResetCursor
<1>8. CASE \E f \in Filters : SetFilter(f)
  <2>1. PICK u : u = url
    OBVIOUS
  <2>2. PICK f : Navigate(u, f)
    BY <1>8, <2>1 DEF SetFilter
  <2> QED BY <1>1, <1>4, <2>1, <2>2
<1> QED BY <1>3, <1>5, <1>6, <1>7, <1>8

\* A request is read.
LEMMA ReadPageKeepsScreen ==
  ASSUME ListsIInv, ScreenIInv, NEW i, ReadPage(i)
  PROVE  ScreenIInv'
<1>1. UNCHANGED <<clock, url, shown, ticked, bulk>>
  BY DEF ReadPage, db
<1>2. PICK s : s = fetches["browse"]
  OBVIOUS
<1>3. PICK pg, still : /\ pg = KeysetPage(surface, s[i].ask.filter, s[i].ask.after, s[i].ask.before)
                       /\ still = Listed(surface, s[i].ask.filter)
  OBVIOUS
<1>4. FoundOK(pg)
  BY <1>3, PageIsFound DEF ListsIInv, Shapes
<1>5. /\ DOMAIN fetches = Channels /\ "browse" \in Channels /\ FetchOK(s) /\ i \in DOMAIN s
  BY <1>2 DEF ListsIInv, Shapes, Channels, ReadPage
<1>6. RequestOK(s[i])
  BY <1>5, FetchIsSequence DEF FetchOK
<1>7. PICK r : r = [s[i] EXCEPT !.read = TRUE, !.found = pg, !.still = still]
  OBVIOUS
<1>8. r.found = pg
  BY <1>6, <1>7 DEF RequestOK
<1>9. fetches' = [fetches EXCEPT !["browse"] = [s EXCEPT ![i] = r]]
  BY <1>2, <1>3, <1>7 DEF ReadPage
<1>10. fetches'["browse"] = [s EXCEPT ![i] = r]
  BY <1>5, <1>9
<1>11. \A j \in DOMAIN fetches'["browse"] : FoundOK(fetches'["browse"][j].found)
  BY <1>2, <1>4, <1>8, <1>10 DEF ScreenIInv
<1>12. ActiveRows' = ActiveRows
  BY <1>1 DEF ActiveRows, Mode, IsSearchMode
<1> QED BY <1>1, <1>11, <1>12 DEF ScreenIInv

\* No more is shown than was read.
LEMMA ShownAreFew ==
  ASSUME NEW rows \in Seq(Entries), NEW f
  PROVE  Len(Resolved(rows, f)) <= Len(rows)
<1> DEFINE live == {i \in DOMAIN rows : StatusOf(rows[i], f) # "none"}
           order == InPlaces(live, [i \in live |-> Cardinality({j \in live : j <= i})])
           n == Len(rows)
<1>1. n \in Nat /\ live \in SUBSET (1..n)
  OBVIOUS
<1>2. Len(order) = Cardinality(live) /\ order \in Seq(live) /\ IsFiniteSet(live)
  BY <1>1, NumbersInARow
<1>3. Cardinality(live) <= n
  <2>1. IsFiniteSet(1..n) /\ Cardinality(1..n) = n
    BY <1>1, FS_Interval, SMTT(40)
  <2> QED BY <1>1, <2>1, FS_Subset
<1>4. Resolved(rows, f) = [k \in DOMAIN order |-> [id |-> rows[order[k]], status |-> StatusOf(rows[order[k]], f)]]
  BY DEF Resolved
<1> HIDE DEF order, live
<1>5. Len(order) \in Nat /\ DOMAIN order = 1..Len(order)
  BY <1>2
<1>6. Len(Resolved(rows, f)) = Len(order)
  BY <1>4, <1>5
<1> QED BY <1>2, <1>3, <1>6

\* An answer, or a failure, is displayed.
LEMMA DisplayKeepsScreen ==
  ASSUME ListsIInv, ScreenIInv, NEW ch \in Channels, NEW i \in DOMAIN fetches[ch], NEW answer,
         TableOK(answer), Display(ch, i, answer)
  PROVE  ScreenIInv'
<1>1. UNCHANGED <<clock, url, bulk>> /\ OnRows(Counts(ch, i) /\ ch = Mode)
  BY DEF Display, db
<1>2. /\ DOMAIN fetches = Channels /\ DOMAIN shown = Channels /\ "browse" \in Channels
      /\ FetchOK(fetches["browse"]) /\ Mode \in Channels
  BY DEF ListsIInv, Shapes, Channels, Mode
<1>3. fetches' = [fetches EXCEPT ![ch] = RemoveAt(fetches[ch], i)]
  BY DEF Display
<1>4. shown' = IF Counts(ch, i) THEN [shown EXCEPT ![ch] = answer] ELSE shown
  BY DEF Display
<1>5. \A j \in DOMAIN fetches'["browse"] : FoundOK(fetches'["browse"][j].found)
  <2>1. CASE ch = "browse"
    <3>1. PICK s : s = fetches["browse"]
      OBVIOUS
    <3>2. PICK t : t = RemoveAt(s, i)
      OBVIOUS
    <3>3. Sequenced(s) /\ i \in DOMAIN s
      BY <1>2, <2>1, <3>1, RangeIs DEF FetchOK, Sequenced
    <3>4. \A j \in DOMAIN t : t[j] \in {s[k] : k \in DOMAIN s}
      BY <3>2, <3>3, RemovedIs
    <3>5. fetches'["browse"] = t
      BY <1>2, <1>3, <2>1, <3>1, <3>2
    <3> QED BY <3>1, <3>4, <3>5 DEF ScreenIInv
  <2>2. CASE ch # "browse"
    <3>1. fetches'["browse"] = fetches["browse"]
      BY <1>2, <1>3, <2>2
    <3> QED BY <3>1 DEF ScreenIInv
  <2> QED BY <2>1, <2>2
<1>6. \A c \in Channels : TableOK(shown'[c])
  BY <1>2, <1>4 DEF ScreenIInv
<1>7. Mode' = Mode
  BY <1>1 DEF Mode, IsSearchMode
<1>8. (ticked.anchor \in 0..Len(ActiveRows))'
  <2>1. CASE Counts(ch, i) /\ ch = Mode
    <3>1. ticked'.anchor = 0
      BY <1>1, <2>1 DEF OnRows, Cleared
    <3>2. Len(ActiveRows') \in Nat
      BY <1>2, <1>6, <1>7 DEF TableOK, ActiveRows
    <3> QED BY <3>1, <3>2
  <2>2. CASE ~(Counts(ch, i) /\ ch = Mode)
    <3>1. ticked' = ticked
      BY <1>1, <2>2 DEF OnRows
    <3>2. shown'[Mode] = shown[Mode]
      BY <1>2, <1>4, <2>2
    <3>3. ActiveRows' = ActiveRows
      BY <1>7, <3>2 DEF ActiveRows
    <3> QED BY <3>1, <3>3 DEF ScreenIInv
  <2> QED BY <2>1, <2>2
<1> QED BY <1>1, <1>5, <1>6, <1>8 DEF ScreenIInv

LEMMA AnswersKeepScreen ==
  ASSUME ListsIInv, ScreenIInv, NEW ch \in Channels, NEW i,
         AnswerBrowse(i) \/ AnswerSearch(i) \/ Fail(ch, i)
  PROVE  ScreenIInv'
<1>0. "browse" \in Channels /\ "search" \in Channels
  BY DEF Channels
<1>1. CASE AnswerBrowse(i)
  <2>1. PICK r : r = fetches["browse"][i]
    OBVIOUS
  <2>2. PICK found : found = r.found
    OBVIOUS
  <2>3. i \in DOMAIN fetches["browse"] /\ FoundOK(found)
    BY <1>1, <2>1, <2>2 DEF AnswerBrowse, ScreenIInv
  <2>4. PICK rows : rows = Resolved(found.rows, r.ask.filter)
    OBVIOUS
  <2>5. Len(rows) \in Nat /\ Len(rows) <= Len(found.rows) /\ DOMAIN rows = 1..Len(rows)
        /\ \A k \in DOMAIN rows : rows[k].id \in Entries
    <3>1. PICK f : f = r.ask.filter
      OBVIOUS
    <3> QED BY <2>3, <2>4, <3>1, ShownAreTheLive, ShownAreFew DEF FoundOK
  <2>6. PICK answer : answer = [rows |-> rows, info |-> found.info, ask |-> r.ask]
    OBVIOUS
  <2>7. Len(rows) \in 0..PerPage
    <3>1. Len(found.rows) \in Nat /\ Len(found.rows) <= PerPage /\ PerPage \in Nat
      BY <2>3, PageAssumption DEF FoundOK
    <3> QED BY <2>5, <3>1
  <2>8. TableOK(answer)
    BY <2>3, <2>5, <2>6, <2>7 DEF TableOK, FoundOK
  <2>9. Display("browse", i, answer)
    BY <1>1, <2>1, <2>2, <2>4, <2>6 DEF AnswerBrowse
  <2> QED BY <1>0, <2>3, <2>8, <2>9, DisplayKeepsScreen
<1>2. CASE AnswerSearch(i)
  <2>1. PICK hits \in HitLists :
          Display("search", i, [rows |-> hits, info |-> EmptyPageInfo,
                                ask |-> fetches["search"][i].ask])
    BY <1>2 DEF AnswerSearch
  <2>2. PICK answer : answer = [rows |-> hits, info |-> EmptyPageInfo,
                                ask |-> fetches["search"][i].ask]
    OBVIOUS
  <2>3. Len(hits) \in 0..PerPage /\ DOMAIN hits = 1..Len(hits)
        /\ \A k \in DOMAIN hits : hits[k].id \in Entries
    <3>1. hits \in Seq([id : Entries, status : Statuses]) /\ Len(hits) <= PerPage
      BY HitsAssumption
    <3>2. PICK shapes : shapes = [id : Entries, status : Statuses]
      OBVIOUS
    <3>5. hits \in Seq(shapes)
      BY <3>1, <3>2
    <3>3. Len(hits) \in Nat /\ DOMAIN hits = 1..Len(hits) /\ \A k \in 1..Len(hits) : hits[k] \in shapes
      BY <3>5
    <3>4. \A shape \in shapes : shape.id \in Entries
      BY <3>2
    <3> QED BY <3>1, <3>3, <3>4, PageAssumption
  <2>4. TableOK(answer)
    BY <2>2, <2>3, NothingIsFine DEF TableOK
  <2>5. i \in DOMAIN fetches["search"] /\ Display("search", i, answer)
    BY <1>2, <2>1, <2>2 DEF AnswerSearch
  <2> QED BY <1>0, <2>4, <2>5, DisplayKeepsScreen
<1>3. CASE Fail(ch, i)
  <2>1. PICK answer : answer = Blank
    OBVIOUS
  <2>2. i \in DOMAIN fetches[ch] /\ Display(ch, i, answer) /\ TableOK(answer)
    BY <1>3, <2>1, NothingIsFine DEF Fail
  <2> QED BY <2>2, DisplayKeepsScreen
<1> QED BY <1>1, <1>2, <1>3

\* The reader ticks rows.
LEMMA TickingKeepsScreen ==
  ASSUME ListsIInv, ScreenIInv,
         (\E i \in Nat, shift \in BOOLEAN : Toggle(i, shift)) \/ ToggleAll \/ ClearTicks
  PROVE  ScreenIInv'
<1>1. UNCHANGED <<clock, url, fetches, shown, bulk>>
  BY DEF Toggle, ToggleAll, ClearTicks, Click, db
<1>2. ActiveRows' = ActiveRows
  BY <1>1 DEF ActiveRows, Mode, IsSearchMode
<1>3. /\ Len(ActiveRows) \in Nat /\ DOMAIN ticked = {"ids", "anchor"}
      /\ ticked.anchor \in 0..Len(ActiveRows)
  BY DEF ScreenIInv, TableOK, ActiveRows, Mode, Channels, ListsIInv, Shapes
<1>4. ticked'.anchor \in 0..Len(ActiveRows)
  <2>1. CASE ToggleAll
    BY <1>3, <2>1 DEF ToggleAll
  <2>2. CASE ClearTicks
    BY <1>3, <2>2 DEF ClearTicks, Cleared
  <2>3. ASSUME NEW i \in Nat, NEW shift \in BOOLEAN, Toggle(i, shift)
        PROVE  ticked'.anchor \in 0..Len(ActiveRows)
    <3>1. CASE shift /\ ticked.anchor # 0
      <4>1. ticked' = [ticked EXCEPT !.ids = @ \cup {ActiveRows[k].id : k \in Between(ticked.anchor, i)}]
        BY <2>3, <3>1 DEF Toggle
      <4>2. ticked'.anchor = ticked.anchor
        BY <1>3, <4>1
      <4> QED BY <1>3, <4>2
    <3>2. CASE ~(shift /\ ticked.anchor # 0)
      <4>1. ticked'.anchor = i /\ i \in DOMAIN ActiveRows
        BY <2>3, <3>2 DEF Toggle
      <4>2. DOMAIN ActiveRows = 1..Len(ActiveRows)
        BY DEF ScreenIInv, TableOK, ActiveRows, Mode, Channels
      <4> QED BY <1>3, <4>1, <4>2
    <3> QED BY <3>1, <3>2
  <2> QED BY <2>1, <2>2, <2>3
<1> QED BY <1>1, <1>2, <1>4 DEF ScreenIInv

\* The bulk publish, and the writers.
LEMMA WritersKeepScreen ==
  ASSUME ListsIInv, ScreenIInv, NEW e \in Entries, BulkPublishOne(e) \/ Write(e)
  PROVE  ScreenIInv'
<1>1. UNCHANGED <<url, shown, ticked>>
  BY DEF BulkPublishOne, Write
<1>2. ActiveRows' = ActiveRows
  BY <1>1 DEF ActiveRows, Mode, IsSearchMode
<1>3. clock' \in 0..MaxTime
  <2>1. \A t \in Ticks : t \in 0..MaxTime
    BY EntriesAssumption DEF Ticks, ScreenIInv
  <2> QED BY <2>1 DEF BulkPublishOne, Write, Put, db, ScreenIInv
<1>4. bulk'.todo \subseteq bulk'.ids /\ bulk'.done \subseteq bulk'.ids
  <2>1. DOMAIN bulk = {"busy", "ids", "todo", "done"} /\ bulk.todo \subseteq bulk.ids /\ bulk.done \subseteq bulk.ids
    BY DEF ListsIInv, Shapes, ScreenIInv
  <2>2. CASE BulkPublishOne(e)
    <3>1. \/ bulk' = [bulk EXCEPT !.todo = @ \ {e}, !.done = @ \cup {e}]
          \/ bulk' = [bulk EXCEPT !.todo = @ \ {e}]
      BY <2>2 DEF BulkPublishOne
    <3>2. e \in bulk.todo
      BY <2>2 DEF BulkPublishOne
    <3> QED BY <2>1, <3>1, <3>2
  <2>3. CASE Write(e)
    <3>1. bulk' = [bulk EXCEPT !.done = @ \ {e}]
      BY <2>3 DEF Write
    <3> QED BY <2>1, <3>1
  <2> QED BY <2>2, <2>3
<1>5. \A i \in DOMAIN fetches'["browse"] : FoundOK(fetches'["browse"][i].found)
  <2>1. fetches' = fetches \/ Unstill(e)
    BY DEF BulkPublishOne, Write
  <2>2. CASE Unstill(e)
    <3>1. PICK s : s = fetches["browse"]
      OBVIOUS
    <3>2. DOMAIN fetches = Channels /\ "browse" \in Channels /\ FetchOK(s)
      BY <3>1 DEF ListsIInv, Shapes, Channels
    <3>3. fetches'["browse"] = [i \in DOMAIN s |-> Without(s[i], e)]
      BY <2>2, <3>1, <3>2 DEF Unstill
    <3>4. \A i \in DOMAIN s : RequestOK(s[i])
      BY <3>2, FetchIsSequence DEF FetchOK
    <3>5. \A i \in DOMAIN s : Without(s[i], e).found = s[i].found
      BY <3>4 DEF RequestOK, Without
    <3> QED BY <3>1, <3>3, <3>5 DEF ScreenIInv
  <2> QED BY <2>1, <2>2 DEF ScreenIInv
<1> QED BY <1>1, <1>2, <1>3, <1>4, <1>5 DEF ScreenIInv

LEMMA BulkKeepsScreen ==
  ASSUME ListsIInv, ScreenIInv, PostBulk \/ BulkAnswered \/ BulkFailed
  PROVE  ScreenIInv'
<1>1. UNCHANGED <<clock, url, shown>>
  BY DEF PostBulk, BulkAnswered, BulkFailed, Click, db
<1>2. ActiveRows' = ActiveRows /\ Len(ActiveRows) \in Nat
  BY <1>1 DEF ActiveRows, Mode, IsSearchMode, ScreenIInv, TableOK, Channels
<1>3. bulk'.todo \subseteq bulk'.ids /\ bulk'.done \subseteq bulk'.ids
  BY DEF PostBulk, BulkAnswered, BulkFailed, NoBulk
<1>4. ticked'.anchor \in 0..Len(ActiveRows)
  BY <1>2 DEF PostBulk, BulkAnswered, BulkFailed, Cleared, ScreenIInv
<1>5. \A i \in DOMAIN fetches'["browse"] : FoundOK(fetches'["browse"][i].found)
  <2>1. CASE PostBulk \/ BulkFailed
    BY <2>1 DEF PostBulk, BulkFailed, ScreenIInv
  <2>2. CASE BulkAnswered
    <3>1. PICK ask : fetches' = Ask(fetches, Mode, ask)
      BY <2>2 DEF BulkAnswered, Refresh
    <3>2. PICK t : t = Append(Overtaken(fetches["browse"]), Request(ask))
      OBVIOUS
    <3>3. DOMAIN fetches = Channels /\ "browse" \in Channels /\ FetchOK(fetches["browse"])
      BY DEF ListsIInv, Shapes, Channels
    <3>4. fetches'["browse"] = t \/ fetches'["browse"] = fetches["browse"]
      BY <3>1, <3>2, <3>3 DEF Ask
    <3>5. \A i \in DOMAIN t : FoundOK(t[i].found)
      BY <3>2, <3>3, AskedFound
    <3> QED BY <3>4, <3>5 DEF ScreenIInv
  <2> QED BY <2>1, <2>2
<1> QED BY <1>1, <1>2, <1>3, <1>4, <1>5 DEF ScreenIInv

LEMMA SameScreen ==
  ASSUME ScreenIInv, UNCHANGED <<db, page>> PROVE ScreenIInv'
<1>1. UNCHANGED <<clock, url, fetches, shown, ticked, bulk>>
  BY DEF db, page
<1>2. ActiveRows' = ActiveRows
  BY <1>1 DEF ActiveRows, Mode, IsSearchMode
<1> QED BY <1>1, <1>2 DEF ScreenIInv

LEMMA ScreenStep ==
  ASSUME ListsIInv, ScreenIInv, [SearchNext]_<<vars, builderVars>>
  PROVE  ScreenIInv'
<1>1. CASE Next
  <2>1. CASE GoNext \/ GoPrev \/ ResetCursor \/ ClearSearch \/ \E f \in Filters : SetFilter(f)
    BY <2>1, PagingKeepsScreen
  <2>2. CASE \E i \in 1..MaxInFlight : ReadPage(i)
    BY <2>2, ReadPageKeepsScreen
  <2>3. CASE \E i \in 1..MaxInFlight : AnswerBrowse(i) \/ AnswerSearch(i)
    BY <2>3, AnswersKeepScreen DEF Channels
  <2>4. CASE \E ch \in Channels, i \in 1..MaxInFlight : Fail(ch, i)
    BY <2>4, AnswersKeepScreen
  <2>5. CASE (\E i \in 1..PerPage, shift \in BOOLEAN : Toggle(i, shift)) \/ ToggleAll \/ ClearTicks
    <3>1. \A i \in 1..PerPage : i \in Nat
      OBVIOUS
    <3> QED BY <2>5, <3>1, TickingKeepsScreen
  <2>6. CASE PostBulk \/ BulkAnswered \/ BulkFailed
    BY <2>6, BulkKeepsScreen
  <2>7. CASE \E e \in Entries : BulkPublishOne(e) \/ Write(e)
    BY <2>7, WritersKeepScreen
  <2> QED BY <1>1, <2>1, <2>2, <2>3, <2>4, <2>5, <2>6, <2>7 DEF Next
<1>2. CASE KeyPress
  <2>1. UNCHANGED <<db, page>>
    BY <1>2, KeyPressIsKey DEF Key
  <2> QED BY <2>1, SameScreen
<1>3. CASE OpenPalette \/ ClosePalette
  <2>1. UNCHANGED <<db, page>>
    BY <1>3 DEF OpenPalette, ClosePalette
  <2> QED BY <2>1, SameScreen
<1>4. CASE Submit \/ Broaden
  <2>1. \E to, q, filters : Leave(to, q, filters)
    BY <1>4 DEF Submit, Broaden
  <2> QED BY <2>1, LeaveKeepsScreen
<1>5. CASE \E i \in DOMAIN url.query.filters : DropChip(i)
  <2>1. \E query : Navigate(SearchUrl(query), filter)
    BY <1>5 DEF DropChip
  <2>2. UNCHANGED <<clock, shown, bulk>>
    BY <1>5 DEF DropChip, Click, db
  <2> QED BY <2>1, <2>2, SearchUrlKeepsScreen
<1>6. CASE UNCHANGED <<vars, builderVars>>
  BY <1>6, SameScreen DEF vars
<1> QED BY <1>1, <1>2, <1>3, <1>4, <1>5, <1>6 DEF SearchNext

LEMMA ScreenBegins ==
  ASSUME SearchInit PROVE ScreenIInv
<1>1. PICK start \in Starts :
        /\ table = start.table /\ clock = Max({table[e].at : e \in Entries})
        /\ url = SearchUrl(start.query)
        /\ fetches = [ch \in Channels |->
              IF ch = "browse" THEN <<Request(BrowseAsk(url, "active"))>>
              ELSE IF IsSearchMode THEN <<Request(SearchAsk(url))>> ELSE <<>>]
        /\ shown = [ch \in Channels |-> Blank]
        /\ ticked = [ids |-> {}, anchor |-> 0] /\ bulk = NoBulk
  BY DEF SearchInit, Init
<1>2. clock \in 0..MaxTime
  <2>1. PICK times : times = {table[e].at : e \in Entries}
    OBVIOUS
  <2>2. \A e \in Entries : table[e].at \in 0..MaxTime
    BY <1>1, StartAssumption DEF Rows
  <2>3. times \in SUBSET (0..MaxTime) /\ times # {}
    BY <2>1, <2>2, EntriesAssumption
  <2>4. Max(times) \in times
    BY <2>3, LatestInstant
  <2> QED BY <1>1, <2>1, <2>3, <2>4
<1>3. url.after = NoCursor /\ url.before = NoCursor
  BY <1>1 DEF SearchUrl
<1>4. \A i \in DOMAIN fetches["browse"] : fetches["browse"][i].found = Unread
  BY <1>1 DEF Channels, Request
<1>5. \A ch \in Channels : shown[ch] = Blank
  BY <1>1
<1>6. ticked.anchor = 0 /\ Len(ActiveRows) \in Nat
  BY <1>1, <1>5, NothingIsFine DEF TableOK, ActiveRows, Mode, Channels
<1>7. bulk.todo = {} /\ bulk.done = {}
  BY <1>1 DEF NoBulk
<1> QED BY <1>2, <1>3, <1>4, <1>5, <1>6, <1>7, NothingIsFine, NoCursorIsOne DEF ScreenIInv

\* The page and the palette keep their types: the clock and the cursors are
\* within the table's, a page is no longer than it may be, the anchor of the
\* selection is a row, and the palette asks for an operator or a value of a
\* draft only.
THEOREM ScreenInvariance == SearchSpec => []ScreenIInv
<1>1. SearchInit => ScreenIInv
  BY ScreenBegins
<1>2. ListsIInv /\ ScreenIInv /\ [SearchNext]_<<vars, builderVars>> => ScreenIInv'
  BY ScreenStep
<1> QED BY <1>1, <1>2, ListsInvariance, PTL DEF SearchSpec

THEOREM TypeCorrect == SearchSpec => []TypeOK
<1>1. ListsIInv /\ ScreenIInv => ListsTypeOK
  <2> SUFFICES ASSUME ListsIInv, ScreenIInv PROVE ListsTypeOK
    OBVIOUS
  <2>1. table \in [Entries -> Rows]
    BY DEF ListsIInv, Shapes, RowsTyped
  <2>2. \A ch \in Channels : shown[ch].info \in Infos /\ Len(shown[ch].rows) <= PerPage
    BY PageAssumption DEF ScreenIInv, TableOK
  <2>3. ticked.ids \subseteq Entries
    <3>1. \A i \in DOMAIN ActiveRows : ActiveRows[i].id \in Entries
      BY DEF ScreenIInv, TableOK, ActiveRows, Mode, Channels
    <3> QED BY <3>1 DEF ListsIInv, TickedRowsAreOnScreen, IdsOf
  <2>4. clock \in 0..MaxTime /\ {url.after, url.before} \subseteq Cursors
        /\ ticked.anchor \in 0..Len(ActiveRows) /\ bulk.todo \cup bulk.done \subseteq bulk.ids
    BY DEF ScreenIInv
  <2> QED BY <2>1, <2>2, <2>3, <2>4 DEF ListsTypeOK
<1>2. ListsTypeOK /\ PaletteIInv => TypeOK
  <2> SUFFICES ASSUME ListsTypeOK, PaletteIInv PROVE TypeOK
    OBVIOUS
  <2>1. /\ b.step \in Steps
        /\ b.editing \in 0..Len(b.filters)
        /\ b.open /\ b.step \in {"operator", "value"} => Drafting
        /\ b.scope \in Types \cup {AllTypes}
        /\ b.locked => b.scope \in Types
    BY DEF PaletteIInv, Palette, BuilderOK, Scopes, HasDraft, Drafting, b
  <2> QED BY <2>1 DEF TypeOK
<1> QED BY <1>1, <1>2, ListsInvariance, ScreenInvariance, PaletteInvariance, PTL

-----------------------------------------------------------------------------
(* What the engine makes of a value, and what a filter says of it. *)

\* The comparisons of the engine, by operator.
LEMMA EngineEquates ==
  ASSUME NEW op, NEW clause, clause.sym = Symbol(op), NEW doc,
         NEW w, w = ValueAt(doc, clause), NEW l, l = clause.lits
  PROVE  /\ op = "eq" => (Holds(clause, doc) <=> Same(w, l[1]))
         /\ op = "neq" => (Holds(clause, doc) <=> ~Same(w, l[1]))
         /\ op \in {"in", "containsAny"} => (Holds(clause, doc) <=> \E x \in Range(l) : Same(w, x))
         /\ op = "containsAll" => (Holds(clause, doc) <=> \A x \in Range(l) : Same(w, x))
<1>1. /\ op = "eq" => clause.sym = "="
      /\ op = "neq" => clause.sym = "!="
      /\ op \in {"in", "containsAny"} => clause.sym = "IN"
      /\ op = "containsAll" => clause.sym = "ALL"
  BY DEF Symbol
<1> QED BY <1>1 DEF Holds

\* Texts.
LEMMA EngineSearches ==
  ASSUME NEW op, NEW clause, clause.sym = Symbol(op), NEW doc,
         NEW w, w = ValueAt(doc, clause), NEW l, l = clause.lits
  PROVE  /\ op = "contains" => (Holds(clause, doc) <=> w.is = "text" /\ <<l[1], w.items[1]>> \in Within)
         /\ op = "startsWith" => (Holds(clause, doc) <=> w.is = "text" /\ <<l[1], w.items[1]>> \in Leads)
<1>1. /\ op = "contains" => clause.sym = "CONTAINS"
      /\ op = "startsWith" => clause.sym = "STARTS WITH"
  BY DEF Symbol
<1> QED BY <1>1 DEF Holds

\* Numbers and instants.
LEMMA EngineMeasures ==
  ASSUME NEW op, NEW clause, clause.sym = Symbol(op), NEW doc,
         NEW w, w = ValueAt(doc, clause), NEW l, l = clause.lits
  PROVE  /\ op \in {"gt", "after"} =>
              (Holds(clause, doc) <=> w.is \in Measured /\ Measure(w.is, w.items[1]) > Measure(w.is, l[1]))
         /\ op = "gte" =>
              (Holds(clause, doc) <=> w.is \in Measured /\ Measure(w.is, w.items[1]) >= Measure(w.is, l[1]))
         /\ op \in {"lt", "before"} =>
              (Holds(clause, doc) <=> w.is \in Measured /\ Measure(w.is, w.items[1]) < Measure(w.is, l[1]))
         /\ op = "lte" =>
              (Holds(clause, doc) <=> w.is \in Measured /\ Measure(w.is, w.items[1]) <= Measure(w.is, l[1]))
         /\ op = "between" =>
              (Holds(clause, doc) <=>
                 /\ w.is \in Measured /\ Measure(w.is, l[1]) <= Measure(w.is, w.items[1])
                 /\ Measure(w.is, w.items[1]) <= Measure(w.is, l[2]))
<1>1. /\ op \in {"gt", "after"} => clause.sym = ">"
      /\ op = "gte" => clause.sym = ">="
      /\ op \in {"lt", "before"} => clause.sym = "<"
      /\ op = "lte" => clause.sym = "<="
      /\ op = "between" => clause.sym = "TO"
  BY DEF Symbol
<1> QED BY <1>1 DEF Holds

\* Presence.
LEMMA EngineFinds ==
  ASSUME NEW op, NEW clause, clause.sym = Symbol(op), NEW doc,
         NEW w, w = ValueAt(doc, clause)
  PROVE  /\ op = "isSet" => (Holds(clause, doc) <=> w.items \notin {<<>>, <<"">>})
         /\ op = "isNotSet" => (Holds(clause, doc) <=> w.items \in {<<>>, <<"">>})
<1>1. /\ op = "isSet" => clause.sym = "SET"
      /\ op = "isNotSet" => clause.sym = "NOT SET"
  BY DEF Symbol
<1> QED BY <1>1 DEF Holds

\* What a document holds of a value: the value itself when it fits its field;
\* of an array of relations what is well formed.
Textual == {"TEXT", "TEXTAREA", "SLUG", "SELECT", "ENTRY_TITLE"}
Held(kind, v) == IF kind = "ENTRY_TITLE" THEN Value("text", v.items) ELSE Indexed(kind, v)
IsHeld(kind, v) == IsStored(v) /\ (kind = "ENTRY_TITLE" => v.json = "string")

Malformed(v) == v.items = <<"">>
Scalars == FilterableTypes \ {"MULTIRELATION"}
Kind(kind) == CASE kind = "NUMBER" -> "number" [] kind = "DATETIME" -> "instant" [] OTHER -> "text"

LEMMA StoredScalar ==
  ASSUME NEW v, IsStored(v), v.json \in {"string", "number", "boolean", "object", "doc"}
  PROVE  /\ v.items = <<v.items[1]>>
         /\ v.json = "number" => v.items[1] \in Numbers \ {""}
         /\ v.json = "boolean" => v.items[1] \in {"true", "false"}
<1>1. v # Missing
  BY DEF Missing
<1>2. v.json # "array"
  OBVIOUS
<1> QED BY <1>1, <1>2 DEF IsStored

\* A value that fits a field of one value has one, of its type.
LEMMA FittingScalar ==
  ASSUME NEW kind \in Scalars, NEW v, IsHeld(kind, v), Fits(kind, v)
  PROVE  /\ v.items = <<v.items[1]>>
         /\ kind = "NUMBER" => v.items[1] \in Numbers \ {""}
         /\ kind = "BOOLEAN" => v.items[1] \in {"true", "false"}
         /\ kind = "DATETIME" => v.items[1] \in DOMAIN EpochOf /\ v.items[1] # ""
<1>1. /\ v.json \in {"string", "number", "boolean", "object"}
      /\ kind = "NUMBER" => v.json = "number"
      /\ kind = "BOOLEAN" => v.json = "boolean"
      /\ kind = "DATETIME" => v.items[1] \in DOMAIN EpochOf
  BY DEF Fits, Scalars
<1>2. "" \notin DOMAIN EpochOf
  BY DayAssumption
<1> QED BY <1>1, <1>2, StoredScalar DEF IsHeld

\* What the document holds of it.
LEMMA HeldScalar ==
  ASSUME NEW kind \in Scalars, NEW v, IsHeld(kind, v), NEW w, w = Held(kind, v)
  PROVE  /\ Fits(kind, v) /\ (kind = "RELATION" => ~Malformed(v)) =>
              w.is = Kind(kind) /\ w.items = v.items
         /\ ~Fits(kind, v) => w = NoValue
         /\ kind = "RELATION" /\ Malformed(v) => w = NoValue
<1> USE DEF IsHeld, Scalars
<1>1. CASE kind \in Textual \ {"ENTRY_TITLE"}
  <2>1. /\ w = IF v.json = "string" THEN Value("text", v.items) ELSE NoValue
        /\ Fits(kind, v) <=> v.json = "string"
        /\ Kind(kind) = "text" /\ kind \notin {"NUMBER", "BOOLEAN", "DATETIME", "RELATION"}
    BY <1>1 DEF Textual, Held, Indexed, Fits, Kind
  <2>3. (v.json = "string") => w.is = "text" /\ w.items = v.items
    BY <2>1 DEF Value
  <2>4. ~(v.json = "string") => w = NoValue
    BY <2>1
  <2> QED BY <1>1, <2>1, <2>3, <2>4
<1>2. CASE kind = "ENTRY_TITLE"
  <2>1. /\ w = Value("text", v.items) /\ v.json = "string"
        /\ Fits(kind, v) <=> v.json = "string"
        /\ Kind(kind) = "text" /\ kind \notin {"NUMBER", "BOOLEAN", "DATETIME", "RELATION"}
    BY <1>2 DEF Held, Fits, Kind
  <2>3. w.is = "text" /\ w.items = v.items
    BY <2>1 DEF Value
  <2> QED BY <1>2, <2>1, <2>3
<1>3. CASE kind = "NUMBER"
  <2>1. /\ w = IF v.json = "number" THEN Value("number", v.items) ELSE NoValue
        /\ Fits(kind, v) <=> v.json = "number"
        /\ Kind(kind) = "number"
    BY <1>3 DEF Held, Indexed, Fits, Kind
  <2>3. (v.json = "number") => w.is = "number" /\ w.items = v.items
    BY <2>1 DEF Value
  <2>4. ~(v.json = "number") => w = NoValue
    BY <2>1
  <2> QED BY <1>3, <2>1, <2>3, <2>4
<1>4. CASE kind = "BOOLEAN"
  <2>1. /\ w = IF v.json = "boolean" THEN Value("text", v.items) ELSE NoValue
        /\ Fits(kind, v) <=> v.json = "boolean"
        /\ Kind(kind) = "text"
    BY <1>4 DEF Held, Indexed, Fits, Kind
  <2>3. (v.json = "boolean") => w.is = "text" /\ w.items = v.items
    BY <2>1 DEF Value
  <2>4. ~(v.json = "boolean") => w = NoValue
    BY <2>1
  <2> QED BY <1>4, <2>1, <2>3, <2>4
<1>5. CASE kind = "DATETIME"
  <2>1. /\ w = IF Fits(kind, v) THEN Value("instant", v.items) ELSE NoValue
        /\ Fits(kind, v) => v.json = "string" /\ v.items[1] \in DOMAIN EpochOf
        /\ Kind(kind) = "instant"
    BY <1>5 DEF Held, Indexed, Fits, Kind, datetimeToEpoch
  <2>3. (Fits(kind, v)) => w.is = "instant" /\ w.items = v.items
    BY <2>1 DEF Value
  <2>4. ~(Fits(kind, v)) => w = NoValue
    BY <2>1
  <2> QED BY <1>5, <2>1, <2>3, <2>4
<1>6. CASE kind = "RELATION"
  <2>1. /\ v.json = "object" /\ ~Malformed(v) => w = Value("text", v.items)
        /\ v.json # "object" \/ Malformed(v) => w = NoValue
        /\ Fits(kind, v) <=> v.json = "object"
        /\ Kind(kind) = "text"
    BY <1>6 DEF Held, Indexed, Fits, Kind, relationEntryId, Malformed
  <2>3. ASSUME v.json = "object", ~Malformed(v) PROVE w.is = "text" /\ w.items = v.items
    <3>1. w = Value("text", v.items)
      BY <2>1, <2>3
    <3> QED BY <3>1 DEF Value
  <2>4. ASSUME v.json # "object" \/ Malformed(v) PROVE w = NoValue
    BY <2>1, <2>4
  <2> QED BY <1>6, <2>1, <2>3, <2>4
<1> QED BY <1>1, <1>2, <1>3, <1>4, <1>5, <1>6 DEF FilterableTypes, Textual

\* The well-formed relations of an array.
LEMMA WellFormedIs ==
  ASSUME NEW items, Sequenced(items), NEW t, t = WellFormed(items)
  PROVE  Sequenced(t) /\ Range(t) = Range(items) \ {""}
<1>1. PICK proper : proper = {i \in DOMAIN items : items[i] # ""}
  OBVIOUS
<1>2. Len(items) \in Nat /\ proper \in SUBSET (1..Len(items))
  BY <1>1, SequencedIs
<1>3. t = Kept(items, proper)
  BY <1>1 DEF WellFormed
<1>4. Sequenced(t) /\ Range(t) = {items[i] : i \in proper}
  BY <1>2, <1>3, KeptIs
<1>5. Range(items) = {items[i] : i \in DOMAIN items}
  BY RangeIs
<1>6. {items[i] : i \in proper} = Range(items) \ {""}
  BY <1>1, <1>5
<1> QED BY <1>4, <1>6

LEMMA HeldArray ==
  ASSUME NEW v, IsStored(v), NEW w, w = Held("MULTIRELATION", v)
  PROVE  /\ Fits("MULTIRELATION", v) <=> v.json = "array"
         /\ w.is = "list" /\ Sequenced(w.items)
         /\ v.json = "array" => Sequenced(v.items) /\ Range(w.items) = Range(v.items) \ {""}
         /\ v.json # "array" => w.items = <<>>
<1>1. Fits("MULTIRELATION", v) <=> v.json = "array"
  BY DEF Fits
<1>2. w = Value("list", IF v.json = "array" THEN WellFormed(v.items) ELSE <<>>)
  BY DEF Held, Indexed
<1>3. w.is = "list" /\ w.items = IF v.json = "array" THEN WellFormed(v.items) ELSE <<>>
  BY <1>2 DEF Value
<1>4. CASE v.json = "array"
  <2>1. Sequenced(v.items)
    <3>1. v # Missing
      BY <1>4 DEF Missing
    <3> QED BY <1>4, <3>1 DEF IsStored, Sequenced
  <2>2. w.items = WellFormed(v.items)
    BY <1>3, <1>4
  <2>3. Sequenced(w.items) /\ Range(w.items) = Range(v.items) \ {""}
    BY <2>1, <2>2, WellFormedIs
  <2> QED BY <1>1, <1>3, <1>4, <2>1, <2>3
<1>5. CASE v.json # "array"
  <2>1. Sequenced(<<>>)
    BY DEF Sequenced
  <2> QED BY <1>1, <1>3, <1>5, <2>1
<1> QED BY <1>4, <1>5

\* Rows of one and of none.
LEMMA SmallRanges == Range(<<>>) = {} /\ \A x : Range(<<x>>) = {x}
<1>1. Range(<<>>) = {}
  BY DEF Range
<1>2. ASSUME NEW x PROVE Range(<<x>>) = {x}
  BY DEF Range
<1> QED BY <1>1, <1>2

MayBe(kind, x) == kind \in {"RELATION", "MULTIRELATION"} => x # ""

LEMMA NothingIsSame == ASSUME NEW x PROVE ~Same(NoValue, x)
BY SmallRanges DEF Same, Measured, NoValue

\* The engine's equality is that of the stored values.
LEMMA SameIs ==
  ASSUME NEW kind \in FilterableTypes \ {"DATETIME"}, NEW v, IsHeld(kind, v),
         NEW w, w = Held(kind, v), NEW x, MayBe(kind, x)
  PROVE  Same(w, x) <=> \/ kind = "NUMBER" /\ Fits(kind, v) /\ NumberOf[v.items[1]] = NumberOf[x]
                        \/ kind # "NUMBER" /\ Fits(kind, v) /\ x \in Range(v.items)
<1>1. CASE kind = "MULTIRELATION"
  <2>1. /\ w.is = "list" /\ Sequenced(w.items)
        /\ Fits(kind, v) => Range(w.items) = Range(v.items) \ {""}
        /\ ~Fits(kind, v) => w.items = <<>>
    BY <1>1, HeldArray DEF IsHeld
  <2>2. Same(w, x) <=> x \in Range(w.items)
    BY <2>1 DEF Same, Measured
  <2>3. CASE Fits(kind, v)
    <3>1. x \in Range(w.items) <=> x \in Range(v.items)
      BY <1>1, <2>1, <2>3 DEF MayBe
    <3> QED BY <1>1, <2>2, <2>3, <3>1
  <2>4. CASE ~Fits(kind, v)
    <3>1. x \notin Range(<<>>)
      BY SmallRanges
    <3> QED BY <1>1, <2>1, <2>2, <2>4, <3>1
  <2> QED BY <2>3, <2>4
<1>2. CASE kind \in Scalars
  <2>1. CASE ~Fits(kind, v)
    <3>1. w = NoValue
      BY <1>2, <2>1, HeldScalar
    <3>2. ~Same(w, x)
      BY <3>1, NothingIsSame
    <3> QED BY <2>1, <3>2
  <2>2. CASE Fits(kind, v) /\ kind = "RELATION" /\ Malformed(v)
    <3>1. w = NoValue
      BY <1>2, <2>2, HeldScalar
    <3>2. ~Same(w, x)
      BY <3>1, NothingIsSame
    <3>3. Range(v.items) = {""}
      BY <2>2, SmallRanges DEF Malformed
    <3> QED BY <2>2, <3>2, <3>3 DEF MayBe
  <2>3. CASE Fits(kind, v) /\ (kind = "RELATION" => ~Malformed(v))
    <3>1. w.is = Kind(kind) /\ w.items = v.items
      BY <1>2, <2>3, HeldScalar
    <3>2. kind = "NUMBER" => (Same(w, x) <=> NumberOf[v.items[1]] = NumberOf[x])
      BY <3>1 DEF Same, Measured, Measure, Kind
    <3>3. kind # "NUMBER" => (Same(w, x) <=> x \in Range(v.items))
      BY <3>1 DEF Same, Measured, Kind
    <3> QED BY <2>3, <3>2, <3>3
  <2> QED BY <2>1, <2>2, <2>3
<1> QED BY <1>1, <1>2 DEF Scalars

\* A value is set in the engine when the version has one that fits.
LEMMA SetIs ==
  ASSUME NEW kind \in FilterableTypes, NEW v, IsHeld(kind, v), NEW w, w = Held(kind, v)
  PROVE  /\ w.items \notin {<<>>, <<"">>} <=> (Fits(kind, v) /\ \E i \in DOMAIN v.items : v.items[i] # "")
         /\ (kind \in {"NUMBER", "BOOLEAN", "DATETIME"} /\ Fits(kind, v)) =>
              \E i \in DOMAIN v.items : v.items[i] # ""
<1>1. CASE kind = "MULTIRELATION"
  <2>1. /\ Sequenced(w.items)
        /\ Fits(kind, v) => Range(w.items) = Range(v.items) \ {""}
        /\ ~Fits(kind, v) => w.items = <<>>
    BY <1>1, HeldArray DEF IsHeld
  <2>2. /\ w.items = <<>> <=> Range(w.items) = {}
        /\ w.items = <<"">> => Range(w.items) = {""}
    <3>1. Range(w.items) = {w.items[i] : i \in DOMAIN w.items}
      BY RangeIs
    <3>2. DOMAIN w.items = 1..Len(w.items) /\ Len(w.items) \in Nat /\ (w.items = <<>> <=> Len(w.items) = 0)
      BY <2>1, SequencedIs
    <3>3. w.items # <<>> => w.items[1] \in Range(w.items)
      BY <3>1, <3>2
    <3>4. w.items = <<>> => Range(w.items) = {}
      BY SmallRanges
    <3>5. w.items = <<"">> => Range(w.items) = {""}
      BY SmallRanges
    <3> QED BY <3>3, <3>4, <3>5
  <2>3. (\E i \in DOMAIN v.items : v.items[i] # "") <=> Range(v.items) \ {""} # {}
    <3>1. Range(v.items) = {v.items[i] : i \in DOMAIN v.items}
      BY RangeIs
    <3> QED BY <3>1
  <2>4. Fits(kind, v) => w.items # <<"">>
    BY <2>1, <2>2
  <2> QED BY <1>1, <2>1, <2>2, <2>3, <2>4
<1>2. CASE kind \in Scalars
  <2>1. CASE ~Fits(kind, v)
    <3>1. w.items = <<>>
      <4>1. w = NoValue
        BY <1>2, <2>1, HeldScalar
      <4> QED BY <4>1 DEF NoValue
    <3> QED BY <2>1, <3>1
  <2>2. CASE Fits(kind, v)
    <3> PICK x : x = v.items[1]
      OBVIOUS
    <3>1. v.items = <<x>>
      BY <1>2, <2>2, FittingScalar
    <3>2. (\E i \in DOMAIN v.items : v.items[i] # "") <=> x # ""
      <4>1. DOMAIN v.items = {1} /\ v.items[1] = x
        BY <3>1
      <4> QED BY <4>1
    <3>3. <<x>> # <<>> /\ (<<x>> = <<"">> <=> x = "")
      <4>1. Len(<<x>>) = 1 /\ Len(<<>>) = 0 /\ <<x>>[1] = x
        OBVIOUS
      <4> QED BY <4>1
    <3>4. CASE kind = "RELATION" /\ x = ""
      <4>1. w.items = <<>>
        <5>1. Malformed(v)
          BY <3>1, <3>4 DEF Malformed
        <5>2. w = NoValue
          BY <1>2, <3>4, <5>1, HeldScalar
        <5> QED BY <5>2 DEF NoValue
      <4> QED BY <3>2, <3>4, <4>1
    <3>5. CASE ~(kind = "RELATION" /\ x = "")
      <4>1. kind = "RELATION" => ~Malformed(v)
        BY <3>1, <3>3, <3>5 DEF Malformed
      <4>2. w.items = v.items
        BY <1>2, <2>2, <4>1, HeldScalar
      <4>3. kind \in {"NUMBER", "BOOLEAN", "DATETIME"} => x # ""
        BY <1>2, <2>2, FittingScalar
      <4> QED BY <2>2, <3>1, <3>2, <3>3, <4>2, <4>3
    <3> QED BY <3>4, <3>5
  <2> QED BY <2>1, <2>2
<1> QED BY <1>1, <1>2 DEF Scalars

\* Days are whole: an instant is before the start of a day when its day is
\* before it, and after the end of a day when its day is after it.
LEMMA Growing ==
  ASSUME NEW k \in Nat \ {0}, NEW x \in Int, NEW y \in Int, x <= y
  PROVE  x * k <= y * k
OBVIOUS

LEMMA DaysAreWhole ==
  ASSUME NEW k \in Nat \ {0}, NEW e \in Int, NEW d \in Int
  PROVE  /\ e \div k \in Int
         /\ e < d * k <=> e \div k < d
         /\ e > d * k + k - 1 <=> e \div k > d
<1> PICK q \in Int : q = e \div k /\ q * k <= e /\ e < (q + 1) * k
  OBVIOUS
<1>1. q < d => (q + 1) * k <= d * k
  BY Growing
<1>2. q >= d => d * k <= q * k
  BY Growing
<1>3. q <= d => (q + 1) * k <= (d + 1) * k
  BY Growing
<1>4. q > d => (d + 1) * k <= q * k
  BY Growing
<1>5. (d + 1) * k = d * k + k /\ d * k \in Int /\ q * k \in Int /\ (q + 1) * k \in Int
  OBVIOUS
<1> QED BY <1>1, <1>2, <1>3, <1>4, <1>5

\* The first and the last instant of a day are of that day.
LEMMA DayOfEdge ==
  ASSUME NEW d \in Days, NEW text \in DOMAIN EpochOf
  PROVE  /\ d \in Int /\ DayOf(text) \in Int /\ EpochOf[text] \in Int
         /\ EpochOf[Iso[d].start] \in Int /\ EpochOf[Iso[d].end] \in Int
         /\ DayOf(Iso[d].start) = d /\ DayOf(Iso[d].end) = d
         /\ EpochOf[text] < EpochOf[Iso[d].start] <=> DayOf(text) < d
         /\ EpochOf[text] > EpochOf[Iso[d].end] <=> DayOf(text) > d
<1>1. d \in Int
  <2>1. Cardinality(Days) \in Nat
    BY DayAssumption, FS_CardinalityType
  <2>2. Days = 0..Cardinality(Days) - 1
    BY DayAssumption
  <2> HIDE DEF DayAssumption
  <2> QED BY <2>1, <2>2
<1>2. /\ DayMs \in Nat \ {0} /\ EpochOf[text] \in Int
      /\ EpochOf[Iso[d].start] = d * DayMs
      /\ EpochOf[Iso[d].end] = d * DayMs + DayMs - 1
  BY DayAssumption
<1>3. d * DayMs \in Int /\ d * DayMs + DayMs - 1 \in Int
  BY <1>1, <1>2
<1>4. (d * DayMs) \div DayMs = d /\ (d * DayMs + DayMs - 1) \div DayMs = d
  <2>1. ASSUME NEW e \in {d * DayMs, d * DayMs + DayMs - 1} PROVE e \div DayMs = d
    <3>1. e \in Int /\ ~(e < d * DayMs) /\ ~(e > d * DayMs + DayMs - 1)
      BY <1>2, <1>3
    <3> QED BY <1>1, <1>2, <3>1, DaysAreWhole
  <2> QED BY <2>1
<1> QED BY <1>1, <1>2, <1>3, <1>4, DaysAreWhole DEF DayOf

\* What a filter needs for the engine to understand it as the user does: the
\* values the editor of its field gives, that are literals of its type.
Asks(kind, op, l) ==
  op \notin NullaryOps =>
    /\ Gives(kind, op, l) /\ Literals(kind, l)
    /\ Sequenced(l)
    /\ kind \in {"RELATION", "MULTIRELATION"} => "" \notin Range(l)

\* Presence operators.
LEMMA PresenceIsSaid ==
  ASSUME NEW kind \in FilterableTypes, NEW op \in NullaryOps,
         NEW v, IsHeld(kind, v), NEW l, NEW clause, clause.sym = Symbol(op),
         NEW doc, ValueAt(doc, clause) = Held(kind, v)
  PROVE  Holds(clause, doc) <=> Says(kind, op, l, v)
<1> PICK w : w = Held(kind, v)
  OBVIOUS
<1> PICK has \in BOOLEAN : has <=> Fits(kind, v) /\ \E i \in DOMAIN v.items : v.items[i] # ""
  OBVIOUS
<1>1. w.items \notin {<<>>, <<"">>} <=> has
  BY SetIs
<1>2. op = "isSet" \/ op = "isNotSet"
  BY DEF NullaryOps
<1>0. w = ValueAt(doc, clause)
  OBVIOUS
<1>3. /\ op = "isSet" => (Holds(clause, doc) <=> w.items \notin {<<>>, <<"">>})
      /\ op = "isNotSet" => (Holds(clause, doc) <=> w.items \in {<<>>, <<"">>})
  BY <1>0, EngineFinds
<1>4. /\ op = "isSet" => (Says(kind, op, l, v) <=> has)
      /\ op = "isNotSet" => (Says(kind, op, l, v) <=> ~has)
  BY DEF Says
<1> QED BY <1>1, <1>2, <1>3, <1>4

\* Equalities and lists.
LEMMA EqualityIsSaid ==
  ASSUME NEW kind \in FilterableTypes \ {"DATETIME"}, 
         NEW op \in {"eq", "neq", "in", "containsAny", "containsAll"},
         op \in OperatorsOf(kind),
         NEW v, IsHeld(kind, v), NEW l, Asks(kind, op, l),
         NEW clause, clause.sym = Symbol(op), clause.lits = l,
         NEW doc, ValueAt(doc, clause) = Held(kind, v)
  PROVE  Holds(clause, doc) <=> Says(kind, op, l, v)
<1> PICK w : w = Held(kind, v)
  OBVIOUS
<1>1. /\ Sequenced(l) /\ RightCount(op, Len(l))
      /\ kind \in {"RELATION", "MULTIRELATION"} => "" \notin Range(l)
  BY DEF Asks, Gives, NullaryOps
<1>2. Len(l) >= 1
  <2>1. operatorArity(op) \in {"one", "many"}
    BY DEF operatorArity, NullaryOps, RangeOps, ListOps
  <2>2. operatorArity(op) = "one" => Len(l) = 1
    BY <1>1 DEF RightCount
  <2>3. operatorArity(op) = "many" => Len(l) >= 1
    BY <1>1 DEF RightCount
  <2>4. Len(l) \in Nat
    BY <1>1, SequencedIs
  <2> QED BY <2>1, <2>2, <2>3, <2>4, SMTT(40)
<1>3. l[1] \in Range(l)
  <2>1. DOMAIN l = 1..Len(l) /\ Len(l) \in Nat
    BY <1>1, SequencedIs
  <2>2. 1 \in DOMAIN l
    BY <1>2, <2>1
  <2>3. Range(l) = {l[i] : i \in DOMAIN l}
    BY RangeIs
  <2> QED BY <2>2, <2>3
<1>4. ASSUME NEW x \in Range(l)
      PROVE  Same(w, x) <=> \/ kind = "NUMBER" /\ Fits(kind, v) /\ NumberOf[v.items[1]] = NumberOf[x]
                            \/ kind # "NUMBER" /\ Fits(kind, v) /\ x \in Range(v.items)
  <2>1. MayBe(kind, x)
    BY <1>1 DEF MayBe
  <2> QED BY <2>1, SameIs
<1>0. w = ValueAt(doc, clause)
  OBVIOUS
<1>5. /\ op = "eq" => (Holds(clause, doc) <=> Same(w, l[1]))
      /\ op = "neq" => (Holds(clause, doc) <=> ~Same(w, l[1]))
      /\ op \in {"in", "containsAny"} => (Holds(clause, doc) <=> \E x \in Range(l) : Same(w, x))
      /\ op = "containsAll" => (Holds(clause, doc) <=> \A x \in Range(l) : Same(w, x))
  BY <1>0, EngineEquates
<1>6. CASE op \in {"eq", "neq"}
  <2>1. kind = "NUMBER" /\ Fits(kind, v) => \E i \in DOMAIN v.items : v.items[i] # ""
    BY SetIs
  <2>2. Same(w, l[1]) <=> \/ kind = "NUMBER" /\ Fits(kind, v) /\ NumberOf[v.items[1]] = NumberOf[l[1]]
                          \/ kind # "NUMBER" /\ Fits(kind, v) /\ l[1] \in Range(v.items)
    BY <1>3, <1>4
  <2>3. op = "eq" => (Says(kind, op, l, v) <=> Same(w, l[1]))
    BY <2>1, <2>2 DEF Says
  <2>4. op = "neq" => (Says(kind, op, l, v) <=> ~Same(w, l[1]))
    BY <2>1, <2>2 DEF Says
  <2> QED BY <1>5, <1>6, <2>3, <2>4
<1>7. CASE op \in {"in", "containsAny", "containsAll"}
  <2>1. kind # "NUMBER"
    BY <1>7 DEF OperatorsOf, NullaryOps
  <2>2. \A x \in Range(l) : Same(w, x) <=> Fits(kind, v) /\ x \in Range(v.items)
    BY <1>4, <2>1
  <2>3. op \in {"in", "containsAny"} =>
          (Says(kind, op, l, v) <=> Fits(kind, v) /\ Range(l) \cap Range(v.items) # {})
    BY DEF Says
  <2>4. op = "containsAll" => (Says(kind, op, l, v) <=> Fits(kind, v) /\ Range(l) \subseteq Range(v.items))
    BY DEF Says
  <2>5. (\E x \in Range(l) : Same(w, x)) <=> Fits(kind, v) /\ Range(l) \cap Range(v.items) # {}
    BY <2>2
  <2>6. (\A x \in Range(l) : Same(w, x)) <=> Fits(kind, v) /\ Range(l) \subseteq Range(v.items)
    BY <1>3, <2>2
  <2> QED BY <1>5, <1>7, <2>3, <2>4, <2>5, <2>6
<1> QED BY <1>6, <1>7

\* A text that contains one that is not empty is not empty.
LEMMA PartOfText ==
  ASSUME NEW t, t # "", NEW u, <<t, u>> \in Within \cup Leads
  PROVE  u # ""
<1> PICK pair \in Within \cup Leads : pair = <<t, u>>
  OBVIOUS
<1>1. pair[1] = t /\ pair[2] = u
  OBVIOUS
<1>2. pair[2] = "" => pair[1] = ""
  BY TextAssumption
<1> QED BY <1>1, <1>2

\* Searches in a text.
LEMMA TextIsSaid ==
  ASSUME NEW kind \in Textual \ {"SELECT"}, NEW op \in {"contains", "startsWith"},
         NEW v, IsHeld(kind, v), NEW l, Asks(kind, op, l),
         NEW clause, clause.sym = Symbol(op), clause.lits = l,
         NEW doc, ValueAt(doc, clause) = Held(kind, v)
  PROVE  Holds(clause, doc) <=> Says(kind, op, l, v)
<1> PICK w : w = Held(kind, v)
  OBVIOUS
<1>0. w = ValueAt(doc, clause)
  OBVIOUS
<1>1. kind \in Scalars /\ kind # "RELATION" /\ Kind(kind) = "text"
  BY DEF Textual, Scalars, FilterableTypes, Kind
<1>2. l[1] # ""
  BY DEF Asks, Gives, NullaryOps, valueInputKind, Textual
<1>3. /\ op = "contains" => (Holds(clause, doc) <=> w.is = "text" /\ <<l[1], w.items[1]>> \in Within)
      /\ op = "startsWith" => (Holds(clause, doc) <=> w.is = "text" /\ <<l[1], w.items[1]>> \in Leads)
  BY <1>0, EngineSearches
<1>9. PICK has \in BOOLEAN : has <=> Fits(kind, v) /\ \E i \in DOMAIN v.items : v.items[i] # ""
  OBVIOUS
<1>4. /\ op = "contains" => (Says(kind, op, l, v) <=> has /\ <<l[1], v.items[1]>> \in Within)
      /\ op = "startsWith" => (Says(kind, op, l, v) <=> has /\ <<l[1], v.items[1]>> \in Leads)
  BY <1>9 DEF Says
<1>5. CASE ~Fits(kind, v)
  <2>1. w = NoValue
    BY <1>1, <1>5, HeldScalar
  <2>2. w.is # "text"
    BY <2>1 DEF NoValue
  <2> QED BY <1>3, <1>4, <1>5, <1>9, <2>2
<1>6. CASE Fits(kind, v)
  <2>1. w.is = "text" /\ w.items = v.items
    BY <1>1, <1>6, HeldScalar
  <2>2. 1 \in DOMAIN v.items
    <3> PICK x : x = v.items[1]
      OBVIOUS
    <3>1. v.items = <<x>>
      BY <1>1, <1>6, FittingScalar
    <3> QED BY <3>1
  <2>3. <<l[1], v.items[1]>> \in Within \cup Leads => has
    BY <1>9, <1>2, <1>6, <2>2, PartOfText
  <2> QED BY <1>3, <1>4, <2>1, <2>3
<1> QED BY <1>5, <1>6

\* Comparisons of numbers.
LEMMA NumberIsSaid ==
  ASSUME NEW op \in {"gt", "gte", "lt", "lte"}, NEW v, IsHeld("NUMBER", v), NEW l,
         NEW clause, clause.sym = Symbol(op), clause.lits = l,
         NEW doc, ValueAt(doc, clause) = Held("NUMBER", v)
  PROVE  Holds(clause, doc) <=> Says("NUMBER", op, l, v)
<1> PICK w : w = Held("NUMBER", v)
  OBVIOUS
<1>0. w = ValueAt(doc, clause)
  OBVIOUS
<1>1. "NUMBER" \in Scalars /\ Kind("NUMBER") = "number" /\ "NUMBER" \in FilterableTypes
  BY DEF Scalars, FilterableTypes, Kind
<1>9. PICK has \in BOOLEAN : has <=> Fits("NUMBER", v) /\ \E i \in DOMAIN v.items : v.items[i] # ""
  OBVIOUS
<1>2. has <=> Fits("NUMBER", v)
  BY <1>1, <1>9, SetIs
<1>3. /\ op = "gt" => (Says("NUMBER", op, l, v) <=> has /\ NumberOf[v.items[1]] > NumberOf[l[1]])
      /\ op = "gte" => (Says("NUMBER", op, l, v) <=> has /\ NumberOf[v.items[1]] >= NumberOf[l[1]])
      /\ op = "lt" => (Says("NUMBER", op, l, v) <=> has /\ NumberOf[v.items[1]] < NumberOf[l[1]])
      /\ op = "lte" => (Says("NUMBER", op, l, v) <=> has /\ NumberOf[v.items[1]] <= NumberOf[l[1]])
  BY <1>9 DEF Says
<1>4. CASE ~Fits("NUMBER", v)
  <2>1. w = NoValue
    BY <1>1, <1>4, HeldScalar
  <2>2. w.is \notin Measured
    BY <2>1 DEF NoValue, Measured
  <2>3. ~Holds(clause, doc)
    BY <1>0, <2>2, EngineMeasures
  <2> QED BY <1>2, <1>3, <1>4, <2>3
<1>5. CASE Fits("NUMBER", v)
  <2>1. w.is = "number" /\ w.items = v.items
    BY <1>1, <1>5, HeldScalar
  <2>2. w.is \in Measured /\ \A x : Measure(w.is, x) = NumberOf[x]
    BY <2>1 DEF Measured, Measure
  <2>3. /\ op = "gt" => (Holds(clause, doc) <=> NumberOf[v.items[1]] > NumberOf[l[1]])
        /\ op = "gte" => (Holds(clause, doc) <=> NumberOf[v.items[1]] >= NumberOf[l[1]])
        /\ op = "lt" => (Holds(clause, doc) <=> NumberOf[v.items[1]] < NumberOf[l[1]])
        /\ op = "lte" => (Holds(clause, doc) <=> NumberOf[v.items[1]] <= NumberOf[l[1]])
    BY <1>0, <2>1, <2>2, EngineMeasures
  <2> QED BY <1>2, <1>3, <1>5, <2>3
<1> QED BY <1>4, <1>5

\* Days.
LEMMA DateIsSaid ==
  ASSUME NEW op \in {"before", "after", "between"}, NEW v, IsHeld("DATETIME", v),
         NEW l, Asks("DATETIME", op, l),
         NEW clause, clause.sym = Symbol(op), clause.lits = l,
         NEW doc, ValueAt(doc, clause) = Held("DATETIME", v)
  PROVE  Holds(clause, doc) <=> Says("DATETIME", op, l, v)
<1> PICK w : w = Held("DATETIME", v)
  OBVIOUS
<1>0. w = ValueAt(doc, clause)
  OBVIOUS
<1>1. "DATETIME" \in Scalars /\ Kind("DATETIME") = "instant" /\ "DATETIME" \in FilterableTypes
  BY DEF Scalars, FilterableTypes, Kind
<1>9. PICK has \in BOOLEAN : has <=> Fits("DATETIME", v) /\ \E i \in DOMAIN v.items : v.items[i] # ""
  OBVIOUS
<1>2. has <=> Fits("DATETIME", v)
  BY <1>1, <1>9, SetIs
<1> PICK text : text = v.items[1]
  OBVIOUS
<1>3. /\ op = "before" => (Says("DATETIME", op, l, v) <=> has /\ DayOf(text) < DayOf(l[1]))
      /\ op = "after" => (Says("DATETIME", op, l, v) <=> has /\ DayOf(text) > DayOf(l[1]))
      /\ op = "between" => (Says("DATETIME", op, l, v) <=> has /\ DayOf(text) \in DayOf(l[1])..DayOf(l[2]))
  BY <1>9 DEF Says
<1>4. CASE ~Fits("DATETIME", v)
  <2>1. w = NoValue
    BY <1>1, <1>4, HeldScalar
  <2>2. w.is \notin Measured
    BY <2>1 DEF NoValue, Measured
  <2>3. ~Holds(clause, doc)
    BY <1>0, <2>2, EngineMeasures
  <2> QED BY <1>2, <1>3, <1>4, <2>3
<1>5. CASE Fits("DATETIME", v)
  <2>1. w.is = "instant" /\ w.items = v.items
    BY <1>1, <1>5, HeldScalar
  <2>2. text \in DOMAIN EpochOf
    BY <1>1, <1>5, FittingScalar
  <2>3. w.is \in Measured /\ \A x : Measure(w.is, x) = EpochOf[x]
    BY <2>1 DEF Measured, Measure
  <2>4. /\ op = "before" => (Holds(clause, doc) <=> EpochOf[text] < EpochOf[l[1]])
        /\ op = "after" => (Holds(clause, doc) <=> EpochOf[text] > EpochOf[l[1]])
        /\ op = "between" => (Holds(clause, doc) <=>
                                EpochOf[l[1]] <= EpochOf[text] /\ EpochOf[text] <= EpochOf[l[2]])
    BY <1>0, <2>1, <2>3, EngineMeasures
  <2>5. /\ op = "between" => \E d, e \in Days : l = RangeValue(d, e)
        /\ op # "between" => \E d \in Days : l = <<DayValue(d, op)>>
    BY DEF Asks, Gives, NullaryOps
  <2>6. CASE op = "between"
    <3> PICK d \in Days, e \in Days : l = RangeValue(d, e)
      BY <2>5, <2>6
    <3>1. l[1] = Iso[d].start /\ l[2] = Iso[e].end
      BY DEF RangeValue
    <3>2. /\ EpochOf[text] < EpochOf[l[1]] <=> DayOf(text) < d
          /\ DayOf(l[1]) = d /\ d \in Int /\ DayOf(text) \in Int
          /\ EpochOf[text] \in Int /\ EpochOf[l[1]] \in Int
      BY <2>2, <3>1, DayOfEdge
    <3>3. /\ EpochOf[text] > EpochOf[l[2]] <=> DayOf(text) > e
          /\ DayOf(l[2]) = e /\ e \in Int /\ EpochOf[l[2]] \in Int
      BY <2>2, <3>1, DayOfEdge
    <3> HIDE DEF DayOf
    <3> QED BY <1>2, <1>3, <1>5, <2>4, <2>6, <3>2, <3>3
  <2>7. CASE op = "before"
    <3> PICK d \in Days : l = <<DayValue(d, op)>>
      BY <2>5, <2>7
    <3>1. l[1] = Iso[d].start
      BY <2>7 DEF DayValue, Edge
    <3>2. /\ EpochOf[text] < EpochOf[l[1]] <=> DayOf(text) < d
          /\ DayOf(l[1]) = d
      BY <2>2, <3>1, DayOfEdge
    <3> QED BY <1>2, <1>3, <1>5, <2>4, <2>7, <3>2
  <2>8. CASE op = "after"
    <3> PICK d \in Days : l = <<DayValue(d, op)>>
      BY <2>5, <2>8
    <3>1. l[1] = Iso[d].end
      BY <2>8 DEF DayValue, Edge
    <3>2. /\ EpochOf[text] > EpochOf[l[1]] <=> DayOf(text) > d
          /\ DayOf(l[1]) = d
      BY <2>2, <3>1, DayOfEdge
    <3> QED BY <1>2, <1>3, <1>5, <2>4, <2>8, <3>2
  <2> QED BY <2>6, <2>7, <2>8
<1> QED BY <1>4, <1>5

\* Whatever the field and the operator, the engine answers what the filter says.
LEMMA HoldsIsSaid ==
  ASSUME NEW kind \in FilterableTypes, NEW op \in OperatorsOf(kind),
         NEW v, IsHeld(kind, v), NEW l, Asks(kind, op, l),
         NEW clause, clause.sym = Symbol(op), clause.lits = l,
         NEW doc, ValueAt(doc, clause) = Held(kind, v)
  PROVE  Holds(clause, doc) <=> Says(kind, op, l, v)
<1>1. \/ op \in NullaryOps
      \/ op \in {"eq", "neq", "in", "containsAny", "containsAll"} /\ kind # "DATETIME"
      \/ op \in {"contains", "startsWith"} /\ kind \in Textual \ {"SELECT"}
      \/ op \in {"gt", "gte", "lt", "lte"} /\ kind = "NUMBER"
      \/ op \in {"before", "after", "between"} /\ kind = "DATETIME"
  BY DEF OperatorsOf, FilterableTypes, NullaryOps, Textual
<1>2. CASE op \in NullaryOps
  BY <1>2, PresenceIsSaid
<1>3. CASE op \in {"eq", "neq", "in", "containsAny", "containsAll"} /\ kind # "DATETIME"
  BY <1>3, EqualityIsSaid
<1>4. CASE op \in {"contains", "startsWith"} /\ kind \in Textual \ {"SELECT"}
  BY <1>4, TextIsSaid
<1>5. CASE op \in {"gt", "gte", "lt", "lte"} /\ kind = "NUMBER"
  BY <1>5, NumberIsSaid
<1>6. CASE op \in {"before", "after", "between"} /\ kind = "DATETIME"
  BY <1>6, DateIsSaid
<1> QED BY <1>1, <1>2, <1>3, <1>4, <1>5, <1>6

-----------------------------------------------------------------------------
(* The documents of an entry. *)

LEMMA DocumentIs ==
  ASSUME NEW e, NEW status, NEW doc, doc = toSearchDocument(e, status)
  PROVE  /\ doc.entryId = e.id /\ doc.status = status /\ doc.entryKey = e.key
         /\ doc.contentType = e.type /\ doc.entryTitle = e.versions[status].title
         /\ doc.isWorkingVersion <=> status = Working(e)
<1>1. PICK fields : doc =
        [entryId |-> e.id, status |-> status, isWorkingVersion |-> status = Working(e),
         entryKey |-> e.key, contentType |-> e.type, entryTitle |-> e.versions[status].title,
         fields |-> fields]
  BY DEF toSearchDocument
<1>2. /\ doc.entryId = e.id /\ doc.status = status /\ doc.entryKey = e.key
      /\ doc.contentType = e.type /\ doc.entryTitle = e.versions[status].title
  BY <1>1
<1>3. doc.isWorkingVersion <=> status = Working(e)
  <2> PICK w : w = (status = Working(e))
    OBVIOUS
  <2>1. doc.isWorkingVersion = w
    BY <1>1
  <2> QED BY <2>1, Zenon
<1> QED BY <1>2, <1>3, Zenon

LEMMA FieldOfDocument ==
  ASSUME NEW e, NEW status, NEW doc, doc = toSearchDocument(e, status),
         NEW types, types = FieldsOf[e.type], NEW f \in DOMAIN types,
         NEW kind, kind = types[f], kind \notin {"ENTRY_TITLE", "IMAGE"},
         NEW v, v = StoredIn(e.versions[status].data, f)
  PROVE  f \in DOMAIN doc.fields /\ doc.fields[f] = Indexed(kind, v)
<1> DEFINE given == {g \in DOMAIN types : types[g] \notin {"ENTRY_TITLE", "IMAGE"}}
           fields == [g \in given |-> Indexed(types[g], StoredIn(e.versions[status].data, g))]
<1>1. doc.fields = fields
  BY DEF toSearchDocument
<1>2. f \in DOMAIN fields /\ fields[f] = Indexed(kind, v)
  OBVIOUS
<1> QED BY <1>1, <1>2

\* A text of the system, or what the version stores.
TextOf(t) == [json |-> "string", items |-> <<t>>]

LEMMA TextIsStored ==
  ASSUME NEW t, NEW v, v = TextOf(t)
  PROVE  IsStored(v) /\ v.json = "string" /\ Value("text", v.items) = Value("text", <<t>>)
<1>1. v.json = "string" /\ v.items = <<t>>
  BY DEF TextOf
<1>2. v.items[1] = t
  BY <1>1
<1> QED BY <1>1, <1>2 DEF IsStored

LEMMA StoredIsStored ==
  ASSUME NEW e \in Samples, NEW status \in DOMAIN e.versions, NEW f
  PROVE  IsStored(StoredIn(e.versions[status].data, f))
<1>1. \A g \in DOMAIN e.versions[status].data : IsStored(e.versions[status].data[g])
  BY SamplesAssumption
<1>2. IsStored(Missing)
  BY DEF IsStored
<1> HIDE DEF IsStored
<1> QED BY <1>1, <1>2 DEF StoredIn

\* A clause reads the field it was compiled from.
InScope(type, e) == type \in Types => e.type = type

LEMMA ValueIsHeld ==
  ASSUME NEW type \in Scopes, NEW e \in Samples, InScope(type, e),
         NEW status \in DOMAIN e.versions, NEW doc, doc = toSearchDocument(e, status),
         NEW f, Known(type, f), NEW kind \in FilterableTypes, kind = FieldType(type, f),
         NEW clause, clause.field = f, clause.path = PathOf(type, f),
         NEW v, v = Reads(e, status, f)
  PROVE  IsHeld(kind, v) /\ ValueAt(doc, clause) = Held(kind, v)
<1>1. /\ doc.entryId = e.id /\ doc.status = status /\ doc.entryKey = e.key
      /\ doc.entryTitle = e.versions[status].title
  BY DocumentIs
<1>2. CASE f \in System
  <2>1. kind = SystemType(f) /\ clause.path = EnginePath(f)
    BY <1>2, SystemFields DEF PathOf
  <2> PICK t : t = CASE f = "$status" -> status [] f = "$id" -> e.id [] OTHER -> e.key
    OBVIOUS
  <2>2. v = TextOf(t)
    BY <1>2 DEF Reads, TextOf, System
  <2>3. kind \in Textual \ {"ENTRY_TITLE"} /\ kind \in {"SELECT", "TEXT", "SLUG"}
    BY <2>1 DEF SystemType, Textual
  <2>4. ValueAt(doc, clause) = Value("text", <<t>>)
    BY <1>1, <1>2, <2>1 DEF EnginePath, ValueAt, System
  <2>5. IsStored(v) /\ v.json = "string" /\ Value("text", v.items) = Value("text", <<t>>)
    BY <2>2, TextIsStored
  <2>6. Held(kind, v) = Value("text", v.items)
    BY <2>3, <2>5 DEF Held, Indexed
  <2> QED BY <2>3, <2>4, <2>5, <2>6 DEF IsHeld
<1>3. CASE f \notin System
  <2>1. type \in Types /\ f \in DOMAIN FieldsOf[e.type] /\ kind = FieldsOf[e.type][f]
    <3>1. f \in Fields(type)
      BY <1>3 DEF Known
    <3>2. type \in Types
      BY <1>3, SystemFields DEF Scopes
    <3>3. Fields(type) = DOMAIN FieldsOf[type] /\ e.type = type
      BY <3>2, SystemFields DEF InScope
    <3> QED BY <3>1, <3>2, <3>3 DEF FieldType
  <2>2. CASE kind = "ENTRY_TITLE"
    <3> PICK t : t = e.versions[status].title
      OBVIOUS
    <3>1. v = TextOf(t)
      BY <1>3, <2>1, <2>2 DEF Reads, TextOf, System
    <3>2. clause.path = "entryTitle"
      BY <1>3, <2>2 DEF PathOf
    <3>3. ValueAt(doc, clause) = Value("text", <<t>>)
      BY <1>1, <3>2 DEF ValueAt
    <3>4. IsStored(v) /\ v.json = "string" /\ Value("text", v.items) = Value("text", <<t>>)
      BY <3>1, TextIsStored
    <3> QED BY <2>2, <3>3, <3>4 DEF IsHeld, Held
  <2>3. CASE kind # "ENTRY_TITLE"
    <3>1. v = StoredIn(e.versions[status].data, f)
      BY <1>3, <2>1, <2>3 DEF Reads, System
    <3>2. IsHeld(kind, v)
      BY <2>3, <3>1, StoredIsStored DEF IsHeld
    <3>3. clause.path = "fields"
      BY <1>3, <2>3 DEF PathOf
    <3>4. kind # "IMAGE"
      BY DEF FilterableTypes
    <3>5. f \in DOMAIN doc.fields /\ doc.fields[f] = Indexed(kind, v)
      BY <2>1, <2>3, <3>1, <3>4, FieldOfDocument
    <3>6. ValueAt(doc, clause) = doc.fields[f]
      BY <3>3, <3>5 DEF ValueAt
    <3> QED BY <2>3, <3>2, <3>5, <3>6 DEF Held
  <2> QED BY <2>2, <2>3
<1> QED BY <1>2, <1>3

-----------------------------------------------------------------------------
(* The clauses of a search and its hits. *)

\* A filter the compiler takes is one clause of it.
LEMMA ClauseIs ==
  ASSUME NEW type, NEW t, NEW clause \in compileSearchFilter(type, t)
  PROVE  /\ clause.field = t.field /\ clause.path = PathOf(type, t.field)
         /\ clause.sym = Symbol(t.op) /\ clause.lits = t.values
         /\ Known(type, t.field) => Literals(FieldType(type, t.field), t.values)
<1>1. clause = [field |-> t.field, path |-> PathOf(type, t.field), sym |-> Symbol(t.op),
                lits |-> t.values]
  BY DEF compileSearchFilter
<1>2. Known(type, t.field) => Literals(FieldType(type, t.field), t.values)
  BY DEF compileSearchFilter
<1> QED BY <1>1, <1>2

\* A chip's clause holds of a document when the chip is true of the version
\* the document was made from.
TrueOf(type, f, e, status) ==
  Says(FieldType(type, f.field), f.op, Meaning(f).value.items, Reads(e, status, f.field))

LEMMA ChipIsAnswered ==
  ASSUME NEW type \in Scopes, NEW f, IsChip(type, f), NEW t, t = Worded(f),
         NEW clause \in compileSearchFilter(type, t),
         NEW e \in Samples, InScope(type, e), NEW status \in DOMAIN e.versions,
         NEW doc, doc = toSearchDocument(e, status)
  PROVE  Holds(clause, doc) <=> TrueOf(type, f, e, status)
<1> PICK kind : kind = FieldType(type, f.field)
  OBVIOUS
<1> PICK l : l = Meaning(f).value.items
  OBVIOUS
<1> PICK v : v = Reads(e, status, f.field)
  OBVIOUS
<1>1. /\ t.field = f.field /\ t.op = f.op /\ t.values = l
      /\ Known(type, f.field) /\ kind \in FilterableTypes
      /\ f.op \in OperatorsOf(kind)
      /\ Sequenced(f.value.items)
      /\ kind \in {"RELATION", "MULTIRELATION"} => "" \notin Range(f.value.items)
  BY DEF IsChip, IsDraft, availableOperators, Sequenced, Worded
<1>2. /\ clause.field = f.field /\ clause.path = PathOf(type, f.field)
      /\ clause.sym = Symbol(f.op) /\ clause.lits = l /\ Literals(kind, l)
  <2>1. /\ clause.field = t.field /\ clause.path = PathOf(type, t.field)
        /\ clause.sym = Symbol(t.op) /\ clause.lits = t.values
        /\ Known(type, t.field) => Literals(FieldType(type, t.field), t.values)
    BY ClauseIs
  <2> QED BY <1>1, <2>1
<1>3. IsHeld(kind, v) /\ ValueAt(doc, clause) = Held(kind, v)
  <2> PICK field : field = f.field
    OBVIOUS
  <2>1. /\ Known(type, field) /\ kind = FieldType(type, field) /\ kind \in FilterableTypes
        /\ clause.field = field /\ clause.path = PathOf(type, field)
        /\ v = Reads(e, status, field)
    BY <1>1, <1>2
  <2> HIDE DEF Known, FieldType, Reads, InScope, IsHeld
  <2> QED BY <2>1, ValueIsHeld, SMTT(40)
<1>4. Asks(kind, f.op, l)
  <2> SUFFICES ASSUME f.op \notin NullaryOps PROVE Asks(kind, f.op, l)
    BY DEF Asks
  <2>1. l = f.value.items
    BY DEF Meaning
  <2>2. Gives(kind, f.op, l)
    BY <2>1 DEF IsChip
  <2> QED BY <1>1, <1>2, <2>1, <2>2 DEF Asks
<1>5. Holds(clause, doc) <=> Says(kind, f.op, l, v)
  BY <1>1, <1>2, <1>3, <1>4, HoldsIsSaid
<1> QED BY <1>5 DEF TrueOf

\* A search that is answered finds what all its clauses hold of.
LEMMA RunIs ==
  ASSUME NEW type, NEW filters, NEW documents, NEW found,
         found = runSearch(type, filters, documents), found.answer = 200
  PROVE  /\ \A t \in Range(filters) : compileSearchFilter(type, t) # {}
         /\ found.hits = {doc \in documents :
              /\ Scoped(type) => doc.contentType = type
              /\ \A t \in Range(filters) : \A c \in compileSearchFilter(type, t) : Holds(c, doc)}
<1> DEFINE clauses == [i \in DOMAIN filters |-> compileSearchFilter(type, filters[i])]
<1>1. /\ {} \notin Range(clauses)
      /\ found.hits = {doc \in documents :
              /\ Scoped(type) => doc.contentType = type
              /\ \A c \in UNION Range(clauses) : Holds(c, doc)}
  BY DEF runSearch, Refused
<1>2. Range(clauses) = {compileSearchFilter(type, filters[i]) : i \in DOMAIN filters}
  BY RangeIs
<1>3. Range(filters) = {filters[i] : i \in DOMAIN filters}
  BY RangeIs
<1> HIDE DEF clauses
<1>4. \A t \in Range(filters) : compileSearchFilter(type, t) # {}
  BY <1>1, <1>2, <1>3
<1>5. ASSUME NEW doc
      PROVE  (\A c \in UNION Range(clauses) : Holds(c, doc))
               <=> \A t \in Range(filters) : \A c \in compileSearchFilter(type, t) : Holds(c, doc)
  BY <1>2, <1>3
<1> QED BY <1>1, <1>4, <1>5

\* The filters a search compiles of the chips in its URL: under a key, and
\* through GraphQL, not those on the status.
Asked(session, chips) == {f \in Range(chips) : session \/ f.field # "$status"}
Compiled(session, filters) == IF session THEN filters ELSE WithoutStatus(filters)

LEMMA ParsedRows ==
  ASSUME NEW type, NEW q, NEW chips, ChipsOK(type, chips), NEW query, query = compileQuery(q, chips),
         NEW filters, filters = Mapped(Parsed, query.filters)
  PROVE  DOMAIN filters = DOMAIN chips /\ \A i \in DOMAIN chips : filters[i] = Worded(chips[i])
<1>1. DOMAIN filters = DOMAIN chips
  <2>1. query.filters = Mapped(serializeFilter, chips)
    BY DEF compileQuery
  <2>2. DOMAIN query.filters = DOMAIN chips
    BY <2>1 DEF Mapped
  <2> QED BY <2>2 DEF Mapped
<1>2. ASSUME NEW i \in DOMAIN chips PROVE filters[i] = Worded(chips[i])
  <2>1. filters[i] = Parsed(query.filters[i])
    BY <1>1 DEF Mapped
  <2>2. Parsed(query.filters[i]) = Worded(chips[i])
    BY ParsedIsWorded
  <2> QED BY <2>1, <2>2
<1> QED BY <1>1, <1>2

LEMMA CompiledAreAsked ==
  ASSUME NEW type, NEW chips, ChipsOK(type, chips), NEW filters, DOMAIN filters = DOMAIN chips,
         \A i \in DOMAIN chips : filters[i] = Worded(chips[i]), NEW session \in BOOLEAN
  PROVE  \A t : t \in Range(Compiled(session, filters)) <=> \E f \in Asked(session, chips) : t = Worded(f)
<1>1. Len(chips) \in Nat /\ DOMAIN chips = 1..Len(chips)
  BY SequencedIs DEF ChipsOK
<1>2. DOMAIN filters = DOMAIN chips
  OBVIOUS
<1>3. \A i \in DOMAIN chips : filters[i] = Worded(chips[i]) /\ filters[i].field = chips[i].field
  BY DEF Worded
<1>4. Range(chips) = {chips[i] : i \in DOMAIN chips}
  BY RangeIs
<1>5. CASE session
  <2>1. Range(filters) = {filters[i] : i \in DOMAIN filters}
    BY RangeIs
  <2>2. Compiled(session, filters) = filters /\ \A f : f \in Asked(session, chips) <=> f \in Range(chips)
    BY <1>5 DEF Compiled, Asked
  <2> QED BY <1>2, <1>3, <1>4, <2>1, <2>2
<1>6. CASE ~session
  <2> DEFINE places == {i \in DOMAIN filters : filters[i].field # "$status"}
  <2>1. PICK kept : kept = Kept(filters, places)
    OBVIOUS
  <2>2. Compiled(session, filters) = kept
    BY <1>6, <2>1 DEF Compiled, WithoutStatus
  <2>3. places \in SUBSET (1..Len(chips))
    BY <1>1, <1>2
  <2> HIDE DEF places
  <2>4. Range(kept) = {filters[i] : i \in places}
    BY <1>1, <2>1, <2>3, KeptIs
  <2>5. \A f : f \in Asked(session, chips) <=> \E i \in places : f = chips[i]
    BY <1>2, <1>3, <1>4, <1>6 DEF Asked, places
  <2> QED BY <1>2, <1>3, <2>2, <2>4, <2>5 DEF places
<1> QED BY <1>5, <1>6

\* The documents a search sees.
LEMMA SeenOnce ==
  ASSUME NEW session \in BOOLEAN, NEW e, NEW s \in SeenAs(session, e), NEW t \in SeenAs(session, e)
  PROVE  s = t
BY DEF SeenAs

LEMMA DocumentsSeen ==
  ASSUME NEW session \in BOOLEAN, NEW doc
  PROVE  doc \in Seen(session, Indexes)
           <=> \E e \in Samples : \E status \in SeenAs(session, e) : doc = toSearchDocument(e, status)
<1>1. doc \in Indexes <=> \E e \in Samples : \E status \in DOMAIN e.versions \cap IndexableStatuses :
                            doc = toSearchDocument(e, status)
  BY DEF Indexes, DocumentsOf
<1>2. ASSUME NEW e \in Samples, NEW status \in DOMAIN e.versions \cap IndexableStatuses,
             doc = toSearchDocument(e, status)
      PROVE  doc \in Seen(session, Indexes) <=> status \in SeenAs(session, e)
  <2>1. doc.status = status /\ (doc.isWorkingVersion <=> status = Working(e))
    BY <1>2, DocumentIs
  <2>2. doc \in Indexes
    BY <1>1, <1>2
  <2>3. CASE session
    <3>1. Seen(session, Indexes) = {d \in Indexes : d.isWorkingVersion}
      BY <2>3 DEF Seen
    <3>2. doc \in Seen(session, Indexes) <=> doc.isWorkingVersion
      BY <2>2, <3>1, Zenon
    <3>3. status \in SeenAs(session, e) <=> status = Working(e)
      BY <2>3 DEF SeenAs
    <3> QED BY <2>1, <3>2, <3>3, Zenon
  <2>4. CASE ~session
    <3>1. Seen(session, Indexes) = {d \in Indexes : d.status = "PUBLISHED"}
      BY <2>4 DEF Seen, Published
    <3>2. status \in SeenAs(session, e) <=> status = "PUBLISHED"
      BY <2>4 DEF SeenAs
    <3> QED BY <2>1, <2>2, <3>1, <3>2, Zenon
  <2> QED BY <2>3, <2>4
<1>3. doc \in Seen(session, Indexes) => doc \in Indexes
  BY DEF Seen, Published
<1>4. \A e : SeenAs(session, e) \subseteq DOMAIN e.versions \cap IndexableStatuses
  BY DEF SeenAs, IndexableStatuses
<1> QED BY <1>1, <1>2, <1>3, <1>4

\* The hits of a search are the documents of the versions its chips are true of.
AllTrue(session, type, chips, e, status) ==
  InScope(type, e) /\ \A f \in Asked(session, chips) : TrueOf(type, f, e, status)

LEMMA HitIs ==
  ASSUME NEW session \in BOOLEAN, NEW type \in Scopes, NEW chips, ChipsOK(type, chips),
         NEW asked, \A t : t \in Range(asked) <=> \E f \in Asked(session, chips) : t = Worded(f),
         NEW found, found = runSearch(type, asked, Seen(session, Indexes)), found.answer = 200,
         NEW e \in Samples, NEW status \in SeenAs(session, e), NEW doc, doc = toSearchDocument(e, status)
  PROVE  doc \in found.hits <=> AllTrue(session, type, chips, e, status)
<1>1. /\ \A t \in Range(asked) : compileSearchFilter(type, t) # {}
      /\ found.hits = {d \in Seen(session, Indexes) :
              /\ Scoped(type) => d.contentType = type
              /\ \A t \in Range(asked) : \A c \in compileSearchFilter(type, t) : Holds(c, d)}
  <2> PICK documents : documents = Seen(session, Indexes)
    OBVIOUS
  <2> QED BY RunIs
<1>2. doc \in Seen(session, Indexes)
  BY DocumentsSeen
<1>3. (Scoped(type) => doc.contentType = type) <=> InScope(type, e)
  <2>1. doc.contentType = e.type
    BY DocumentIs
  <2>2. Scoped(type) <=> type \in Types
    BY OptionsAssumption DEF Scoped
  <2> QED BY <2>1, <2>2 DEF InScope
<1>4. status \in DOMAIN e.versions
  BY DEF SeenAs
<1>5. ASSUME InScope(type, e), NEW f \in Asked(session, chips)
      PROVE  (\A c \in compileSearchFilter(type, Worded(f)) : Holds(c, doc)) <=> TrueOf(type, f, e, status)
  <2>1. IsChip(type, f)
    <3>1. Range(chips) = {chips[i] : i \in DOMAIN chips}
      BY RangeIs
    <3> QED BY <3>1 DEF ChipsOK, AreChips, Asked
  <2> PICK t : t = Worded(f)
    OBVIOUS
  <2>2. t \in Range(asked)
    OBVIOUS
  <2>3. \A c \in compileSearchFilter(type, t) : Holds(c, doc) <=> TrueOf(type, f, e, status)
    BY <1>4, <1>5, <2>1, ChipIsAnswered
  <2>4. compileSearchFilter(type, t) # {}
    BY <1>1, <2>2
  <2> QED BY <2>3, <2>4
<1>6. ASSUME InScope(type, e)
      PROVE  (\A t \in Range(asked) : \A c \in compileSearchFilter(type, t) : Holds(c, doc))
               <=> \A f \in Asked(session, chips) : TrueOf(type, f, e, status)
  BY <1>5, <1>6
<1> QED BY <1>1, <1>2, <1>3, <1>6 DEF AllTrue

\* As many values of a set's elements as there are elements, when they tell
\* the elements apart.
LEMMA AsManyNames ==
  ASSUME NEW X, IsFiniteSet(X), NEW made, DOMAIN made = X,
         NEW H, H = {made[x] : x \in X}, NEW name, DOMAIN name = H,
         \A x, y \in X : name[made[x]] = name[made[y]] => made[x] = made[y]
  PROVE  Cardinality(H) = Cardinality({name[h] : h \in H})
<1> DEFINE V == {name[h] : h \in H}
           make == [x \in X |-> made[x]]
           call == [h \in H |-> name[h]]
<1>1. make \in Surjection(X, H)
  BY DEF Surjection
<1>2. IsFiniteSet(H)
  BY <1>1, FS_Surjection
<1>3. call \in Surjection(H, V)
  BY DEF Surjection
<1>4. call \in Injection(H, V)
  BY DEF Injection, IsInjective
<1> HIDE DEF V, call
<1>5. Cardinality(V) = Cardinality(H)
  BY <1>2, <1>3, <1>4, FS_Surjection
<1> QED BY <1>5 DEF V

LEMMA DescribedIs ==
  ASSUME NEW session \in BOOLEAN, NEW chips, NEW e
  PROVE  Described(session, e, Range(chips))
           <=> \E status \in SeenAs(session, e) : AllTrue(session, scope, chips, e, status)
<1>1. \A f : f \in Asked(session, chips) <=> f \in Range(chips) /\ ~(~session /\ f.field = "$status")
  BY DEF Asked
<1>2. ASSUME NEW status
      PROVE  (\A f \in Range(chips) : \/ ~session /\ f.field = "$status"
                                      \/ TrueOf(scope, f, e, status))
               <=> \A f \in Asked(session, chips) : TrueOf(scope, f, e, status)
  BY <1>1
<1>3. Described(session, e, Range(chips)) <=>
        \E status \in SeenAs(session, e) :
          /\ InScope(scope, e)
          /\ \A f \in Range(chips) : \/ ~session /\ f.field = "$status"
                                     \/ TrueOf(scope, f, e, status)
  BY DEF Described, InScope, TrueOf
<1> QED BY <1>2, <1>3 DEF AllTrue

\* What a search finds is what its chips describe, each entry once.
Finds(session, found, chips) ==
  /\ {doc.entryId : doc \in found.hits}
       = {e.id : e \in {e \in Samples : Described(session, e, Range(chips))}}
  /\ Cardinality(found.hits) = Cardinality({doc.entryId : doc \in found.hits})

LEMMA FoundAreDescribed ==
  ASSUME NEW session \in BOOLEAN, scope \in Scopes, NEW chips, ChipsOK(scope, chips),
         NEW asked, \A t : t \in Range(asked) <=> \E f \in Asked(session, chips) : t = Worded(f),
         NEW found, found = runSearch(scope, asked, Seen(session, Indexes)), found.answer = 200
  PROVE  Finds(session, found, chips)
<1> PICK hits : hits = found.hits
  OBVIOUS
<1> PICK type : type = scope
  OBVIOUS
<1> PICK ours : ours = {e \in Samples : Described(session, e, Range(chips))}
  OBVIOUS
<1>1. ASSUME NEW e \in Samples, NEW status \in SeenAs(session, e), NEW doc, doc = toSearchDocument(e, status)
      PROVE  doc \in hits <=> AllTrue(session, type, chips, e, status)
  BY <1>1, HitIs
<1>2. ASSUME NEW doc \in hits
      PROVE  \E e \in Samples : \E status \in SeenAs(session, e) : doc = toSearchDocument(e, status)
  <2>1. hits \subseteq Seen(session, Indexes)
    <3> PICK documents : documents = Seen(session, Indexes)
      OBVIOUS
    <3>1. hits \subseteq documents
      BY RunIs
    <3> QED BY <3>1
  <2> QED BY <1>2, <2>1, DocumentsSeen
<1>3. \A e : e \in ours <=> e \in Samples /\ \E status \in SeenAs(session, e) : AllTrue(session, type, chips, e, status)
  BY DescribedIs
<1> DEFINE theOne(e) == CHOOSE status \in SeenAs(session, e) : TRUE
           made == [e \in ours |-> toSearchDocument(e, theOne(e))]
           name == [doc \in hits |-> doc.entryId]
<1>4. ASSUME NEW e, NEW status \in SeenAs(session, e) PROVE status = theOne(e) /\ theOne(e) \in SeenAs(session, e)
  BY <1>4, SeenOnce
<1>5. hits = {made[e] : e \in ours}
  <2>1. ASSUME NEW doc \in hits PROVE \E e \in ours : doc = made[e]
    <3>0. PICK e \in Samples : \E status \in SeenAs(session, e) : doc = toSearchDocument(e, status)
      BY <1>2, <2>1
    <3>1. PICK status \in SeenAs(session, e) : doc = toSearchDocument(e, status)
      BY <3>0
    <3>2. e \in ours
      BY <1>1, <1>3, <3>1
    <3>3. status = theOne(e)
      BY <1>4
    <3> QED BY <3>1, <3>2, <3>3
  <2>2. ASSUME NEW e \in ours PROVE made[e] \in hits
    <3>1. PICK status \in SeenAs(session, e) : AllTrue(session, type, chips, e, status)
      BY <1>3, <2>2
    <3>2. status = theOne(e) /\ e \in Samples
      BY <1>3, <1>4
    <3>3. made[e] = toSearchDocument(e, status)
      BY <3>2
    <3> HIDE DEF made
    <3> QED BY <1>1, <3>1, <3>2, <3>3
  <2> HIDE DEF made
  <2> QED BY <2>1, <2>2
<1>6. \A e \in ours : made[e].entryId = e.id
  BY DocumentIs
<1>7. IsFiniteSet(ours)
  BY SamplesAssumption, FS_Subset
<1>8. ASSUME NEW d \in ours, NEW e \in ours, d.id = e.id PROVE d = e
  BY <1>8, SamplesAssumption
<1>9. DOMAIN made = ours /\ DOMAIN name = hits /\ \A doc \in hits : name[doc] = doc.entryId
  OBVIOUS
<1> HIDE DEF made, name, theOne
<1>10. {doc.entryId : doc \in hits} = {e.id : e \in ours}
  BY <1>5, <1>6
<1>11. \A d, e \in ours : name[made[d]] = name[made[e]] => made[d] = made[e]
  BY <1>5, <1>6, <1>8, <1>9
<1>12. Cardinality(hits) = Cardinality({name[doc] : doc \in hits})
  BY <1>5, <1>7, <1>9, <1>11, AsManyNames
<1>13. {name[doc] : doc \in hits} = {doc.entryId : doc \in hits}
  BY <1>9
<1> QED BY <1>10, <1>12, <1>13 DEF Finds

\* A cell of the results is the cell the list shows of the same version.
LEMMA CellIs ==
  ASSUME NEW type, NEW data, NEW columns, NEW f \in columns,
         NEW kind \in ColumnableTypes, kind = FieldsOf[type][f], NEW v, v = StoredIn(data, f)
  PROVE  projectEntryDataColumns(type, data, columns)[f] = Indexed(kind, v)
<1>1. CASE kind \in {"TEXT", "SLUG", "SELECT"}
  BY <1>1 DEF projectEntryDataColumns, Indexed
<1>2. CASE kind = "DATETIME"
  BY <1>2 DEF projectEntryDataColumns, Indexed
<1>3. CASE kind = "NUMBER"
  BY <1>3 DEF projectEntryDataColumns, Indexed
<1>4. CASE kind = "BOOLEAN"
  BY <1>4 DEF projectEntryDataColumns, Indexed
<1>5. CASE kind = "RELATION"
  BY <1>5 DEF projectEntryDataColumns, Indexed
<1>6. CASE kind = "MULTIRELATION"
  BY <1>6 DEF projectEntryDataColumns, Indexed
<1> QED BY <1>1, <1>2, <1>3, <1>4, <1>5, <1>6 DEF ColumnableTypes

LEMMA CellsAreTheSame == CellsAgree
<1> SUFFICES ASSUME NEW e \in Samples, NEW doc \in DocumentsOf(e),
                    NEW columns, columns = filterColumnableColumns(e.type, Fields(e.type)),
                    NEW data, data = e.versions[doc.status].data
             PROVE  projectColumns(doc, columns) = projectEntryDataColumns(e.type, data, columns)
  BY DEF CellsAgree
<1>1. PICK status : doc = toSearchDocument(e, status)
  BY DEF DocumentsOf
<1>2. doc.status = status
  BY <1>1, DocumentIs
<1>3. ASSUME NEW f \in columns
      PROVE  projectColumns(doc, columns)[f] = projectEntryDataColumns(e.type, data, columns)[f]
  <2> PICK types : types = FieldsOf[e.type]
    OBVIOUS
  <2> PICK kind : kind = types[f]
    OBVIOUS
  <2> PICK v : v = StoredIn(data, f)
    OBVIOUS
  <2>1. f \in DOMAIN types /\ kind \in ColumnableTypes
    BY SamplesAssumption, SystemFields DEF filterColumnableColumns
  <2>2. kind \notin {"ENTRY_TITLE", "IMAGE"}
    BY <2>1 DEF ColumnableTypes
  <2>3. v = StoredIn(e.versions[status].data, f)
    BY <1>2
  <2>4. f \in DOMAIN doc.fields /\ doc.fields[f] = Indexed(kind, v)
    BY <1>1, <2>1, <2>2, <2>3, FieldOfDocument
  <2>5. projectColumns(doc, columns)[f] = Indexed(kind, v)
    BY <2>4 DEF projectColumns
  <2>6. projectEntryDataColumns(e.type, data, columns)[f] = Indexed(kind, v)
    BY <2>1, CellIs
  <2> QED BY <2>5, <2>6
<1> PICK found : found = projectColumns(doc, columns)
  OBVIOUS
<1> PICK listed : listed = projectEntryDataColumns(e.type, data, columns)
  OBVIOUS
<1>4. found = [f \in columns |-> found[f]]
  BY DEF projectColumns
<1>5. listed = [f \in columns |-> listed[f]]
  BY DEF projectEntryDataColumns
<1>6. \A f \in columns : found[f] = listed[f]
  BY <1>3
<1>7. found = listed
  BY <1>4, <1>5, <1>6
<1> QED BY <1>7

\* What a search answers, by whom it is asked.
LEMMA AnswerIs ==
  ASSUME NEW session \in BOOLEAN, NEW type, NEW q, NEW filters, NEW found, found.answer = 200,
         \/ found = search(session, type, q, filters, Indexes)
         \/ ~session /\ found = searchEntries(type, filters, Indexes)
  PROVE  found = runSearch(type, Compiled(session, filters), Seen(session, Indexes))
<1>1. Refused.answer # 200
  BY DEF Refused
<1>2. CASE ~session /\ found = searchEntries(type, filters, Indexes)
  BY <1>2 DEF searchEntries, Compiled, Seen
<1>3. CASE found = search(session, type, q, filters, Indexes)
  BY <1>1, <1>3 DEF search, Compiled
<1> QED BY <1>2, <1>3

LEMMA FoundIs ==
  ASSUME PaletteIInv, ran # NothingRan
  PROVE  SearchFindsWhatTheChipsSay
<1> SUFFICES ASSUME NEW session \in BOOLEAN, NEW found \in AnsweredBy(session), found.answer = 200
             PROVE  Finds(session, found, ran.chips)
  BY CellsAreTheSame DEF SearchFindsWhatTheChipsSay, Finds
<1> PICK chips : chips = ran.chips
  OBVIOUS
<1> PICK q : q = ran.q
  OBVIOUS
<1> PICK query : query = url.query
  OBVIOUS
<1>1. ChipsOK(scope, chips) /\ query = compileQuery(q, chips) /\ scope \in Scopes
  BY DEF PaletteIInv, RanIsTheUrl
<1>2. PICK filters : /\ DOMAIN filters = DOMAIN chips
                     /\ \A i \in DOMAIN chips : filters[i] = Worded(chips[i])
                     /\ \/ found = search(session, scope, query.q, filters, Indexes)
                        \/ ~session /\ found = searchEntries(scope, filters, Indexes)
  <2>1. /\ DOMAIN Mapped(Parsed, query.filters) = DOMAIN chips
        /\ \A i \in DOMAIN chips : Mapped(Parsed, query.filters)[i] = Worded(chips[i])
    BY <1>1, ParsedRows
  <2>2. \/ found = search(session, scope, query.q, Mapped(Parsed, query.filters), Indexes)
        \/ ~session /\ found = searchEntries(scope, Mapped(Parsed, query.filters), Indexes)
    BY DEF AnsweredBy
  <2> QED BY <2>1, <2>2
<1> PICK asked : asked = Compiled(session, filters)
  OBVIOUS
<1>3. \A t : t \in Range(asked) <=> \E f \in Asked(session, chips) : t = Worded(f)
  BY <1>1, <1>2, CompiledAreAsked
<1>4. found = runSearch(scope, asked, Seen(session, Indexes))
  BY <1>2, AnswerIs
<1>5. Finds(session, found, chips)
  BY <1>1, <1>3, <1>4, FoundAreDescribed
<1> QED BY <1>5

\* What is typed into the palette is what runs and what is found: the state
\* is regular, chips are edited in place, the server compiles what they say,
\* and the engine finds the entries on whose version they are true, once, with
\* the cells the list shows (machine.ts, compile.ts, compileSearchFilter.ts,
\* searchDocument.ts, projectEntryColumns.ts).
THEOREM ChipsAreMeant == SearchSpec => []ChipsMeanWhatTheySay
<1>1. PaletteIInv => SearchFindsWhatTheChipsSay
  <2>1. ran = NothingRan => SearchFindsWhatTheChipsSay
    BY DEF SearchFindsWhatTheChipsSay
  <2> QED BY <2>1, FoundIs
<1>2. TypeOK /\ EditingPointsAtOpened /\ SearchRunsTheChips /\ SearchFindsWhatTheChipsSay
        => ChipsMeanWhatTheySay
  BY DEF ChipsMeanWhatTheySay
<1> QED BY <1>1, <1>2, PaletteInvariance, TypeCorrect, EditsPointAtOpened, SearchesRunTheChips, PTL
===============================================================================
