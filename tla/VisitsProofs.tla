---------------------------- MODULE VisitsProofs ----------------------------
(***************************************************************************)
(* Theorems about Visits, for any number of pages and payments, and any       *)
(* ceiling: the book is bounded, a page's payment is not replaced, and a      *)
(* full book crowds out none but by payments no older.                       *)
(***************************************************************************)
EXTENDS Visits, FiniteSetTheorems, TLAPS

\* An empty place is no entry.
LEMMA NoVisitIsNone == NoVisit \notin Visit
  BY VisitAssumption DEF Visit

\* What is in a book that is well typed.
LEMMA HeldIsAVisit ==
  ASSUME NEW bk \in Books, NEW t \in Tokens
  PROVE  /\ t \in Held(bk) => bk[t] \in Visit /\ bk[t].buy \in Buys /\ bk[t].age \in 0 .. VisitTTL
         /\ t \notin Held(bk) => bk[t] = NoVisit
         /\ t \in Live(bk) <=> t \in Held(bk) /\ bk[t].age < VisitTTL
<1>1. VisitTTL \in Nat
  BY VisitAssumption
<1>2. t \in Held(bk) => bk[t] \in Visit
  BY DEF Held, Books
<1>3. t \in Held(bk) => bk[t].buy \in Buys /\ bk[t].age \in 0 .. VisitTTL
  BY <1>2 DEF Visit
<1> QED BY <1>1, <1>2, <1>3 DEF Held, Live, Lapsed

LEMMA BooksAreFinite ==
  ASSUME NEW bk \in Books
  PROVE  /\ Live(bk) \subseteq Held(bk)
         /\ IsFiniteSet(Held(bk)) /\ IsFiniteSet(Live(bk))
         /\ Cardinality(Held(bk)) \in Nat /\ Cardinality(Live(bk)) \in Nat
         /\ Cardinality(Live(bk)) <= Cardinality(Held(bk))
<1>1. Live(bk) \subseteq Held(bk) /\ Held(bk) \subseteq Tokens /\ IsFiniteSet(Tokens)
  BY VisitAssumption DEF Live, Held
<1> QED BY <1>1, FS_Subset, FS_CardinalityType

\* Room for one more: the places left are below the ceiling, and a payment within its
\* time that was dropped was the oldest of a full book.
LEMMA RoomMade ==
  ASSUME NEW bk \in Books, Cardinality(Held(bk)) <= MaxVisits, NEW room \in MakeRoom(bk)
  PROVE  /\ room \in Books
         /\ Cardinality(Held(room)) < MaxVisits
         /\ \A t \in Tokens : room[t] = bk[t] \/ room[t] = NoVisit
         /\ \A t \in Live(bk) : room[t] # bk[t] =>
              /\ Cardinality(Live(bk)) = MaxVisits
              /\ Live(room) = Live(bk) \ {t}
              /\ \A u \in Live(bk) : bk[u].age <= bk[t].age
<1> DEFINE swept == [t \in Tokens |-> IF t \in Live(bk) THEN bk[t] ELSE NoVisit]
<1>0. MaxVisits \in Nat \ {0} /\ VisitTTL \in Nat
  BY VisitAssumption
<1>1. CASE Cardinality(Held(bk)) < MaxVisits
  <2>1. room = bk
    BY <1>1 DEF MakeRoom
  <2> QED BY <1>1, <2>1
<1>2. CASE ~(Cardinality(Held(bk)) < MaxVisits)
  <2>1. Cardinality(Held(bk)) = MaxVisits
    BY <1>0, <1>2, BooksAreFinite
  <2>2. swept \in Books
    BY DEF Books
  <2>3. Held(swept) = Live(bk) /\ Live(swept) = Live(bk)
    BY NoVisitIsNone, HeldIsAVisit DEF Held, Live, Lapsed
  <2>4. CASE Cardinality(Live(bk)) < MaxVisits
    <3>1. room = swept
      BY <1>2, <2>4 DEF MakeRoom
    <3>2. \A t \in Tokens : room[t] = IF t \in Live(bk) THEN bk[t] ELSE NoVisit
      BY <3>1
    <3>3. Live(bk) \subseteq Tokens
      BY DEF Live, Held
    <3>4. room \in Books /\ Held(room) = Live(bk)
      BY <2>2, <2>3, <3>1
    <3> HIDE DEF swept
    <3> QED BY <2>4, <3>2, <3>3, <3>4
  <2>5. CASE ~(Cardinality(Live(bk)) < MaxVisits)
    <3>1. PICK t \in Oldest(bk) : room = [swept EXCEPT ![t] = NoVisit]
      BY <1>2, <2>5 DEF MakeRoom
    <3>2. t \in Live(bk) /\ t \in Tokens /\ \A u \in Live(bk) : bk[u].age <= bk[t].age
      BY <3>1 DEF Oldest, Live, Held
    <3>3. Cardinality(Live(bk)) = MaxVisits
      BY <1>0, <2>1, <2>5, BooksAreFinite
    <3>4. room \in Books /\ \A u \in Tokens : room[u] = IF u = t \/ u \notin Live(bk) THEN NoVisit ELSE bk[u]
      BY <2>2, <3>1, <3>2 DEF Books
    <3>5. Held(room) = Live(bk) \ {t}
      BY <3>4, NoVisitIsNone, HeldIsAVisit DEF Held, Live
    <3>6. Live(room) = Live(bk) \ {t}
      <4>1. \A u \in Held(room) : room[u] = bk[u] /\ u \in Live(bk)
        BY <3>4, <3>5 DEF Live, Held
      <4> QED BY <3>5, <4>1 DEF Live
    <3>7. Cardinality(Held(room)) = Cardinality(Live(bk)) - 1
      BY <3>2, <3>5, BooksAreFinite, FS_RemoveElement
    <3>8. Cardinality(Held(room)) < MaxVisits
      BY <1>0, <3>3, <3>7
    <3>9. \A u \in Tokens : room[u] = bk[u] \/ room[u] = NoVisit
      BY <3>4
    <3>10. \A u \in Live(bk) : room[u] # bk[u] => u = t
      BY <3>4 DEF Live, Held
    <3> HIDE DEF swept
    <3> QED BY <3>2, <3>3, <3>4, <3>6, <3>8, <3>9, <3>10
  <2> QED BY <2>4, <2>5
<1> QED BY <1>1, <1>2

\* A payment recorded under t, if the page of t did not find one: what the book holds
\* of the others is what room was made of.
LEMMA RecordedIn ==
  ASSUME NEW bk \in Books, NEW t \in Tokens, NEW b \in Buys, ~Findable(bk, t),
         NEW bk2 \in Recorded(bk, t, b)
  PROVE  \E room \in MakeRoom(bk) : bk2 = [room EXCEPT ![t] = [buy |-> b, age |-> 0]]
  BY DEF Recorded

LEMMA RecordedIsBounded ==
  ASSUME NEW bk \in Books, Cardinality(Held(bk)) <= MaxVisits,
         NEW t \in Tokens, NEW b \in Buys, NEW bk2 \in Recorded(bk, t, b)
  PROVE  bk2 \in Books /\ Cardinality(Held(bk2)) <= MaxVisits
<1>0. MaxVisits \in Nat /\ VisitTTL \in Nat
  BY VisitAssumption
<1>1. CASE Findable(bk, t)
  BY <1>1 DEF Recorded
<1>2. CASE ~Findable(bk, t)
  <2>1. PICK room \in MakeRoom(bk) : bk2 = [room EXCEPT ![t] = [buy |-> b, age |-> 0]]
    BY <1>2, RecordedIn
  <2>2. room \in Books /\ Cardinality(Held(room)) < MaxVisits
    BY RoomMade
  <2>3. [buy |-> b, age |-> 0] \in Visit
    BY <1>0 DEF Visit
  <2>4. bk2 \in Books
    BY <2>1, <2>2, <2>3 DEF Books
  <2>5. Held(bk2) = Held(room) \cup {t}
    BY <2>1, <2>2, <2>3, NoVisitIsNone DEF Held, Books
  <2>6. IsFiniteSet(Held(room)) /\ Cardinality(Held(room)) \in Nat
    BY <2>2, BooksAreFinite
  <2>7. Cardinality(Held(bk2)) <= Cardinality(Held(room)) + 1
    <3>1. Cardinality(Held(room) \cup {t}) =
            IF t \in Held(room) THEN Cardinality(Held(room)) ELSE Cardinality(Held(room)) + 1
      BY <2>6, FS_AddElement
    <3> QED BY <2>5, <2>6, <3>1
  <2> QED BY <1>0, <2>2, <2>4, <2>6, <2>7, BooksAreFinite
<1> QED BY <1>1, <1>2

LEMMA AgedBook ==
  ASSUME NEW bk \in Books
  PROVE  /\ BookAged(bk) \in Books
         /\ Held(BookAged(bk)) = Held(bk)
         /\ \A t \in Tokens : t \in Live(BookAged(bk)) <=> t \in Live(bk) /\ bk[t].age + 1 < VisitTTL
         /\ \A t \in Live(bk) : BookAged(bk)[t] = [bk[t] EXCEPT !.age = @ + 1]
<1>0. VisitTTL \in Nat
  BY VisitAssumption
<1>1. \A t \in Tokens : BookAged(bk)[t] = Older(bk[t])
  BY DEF BookAged
<1>2. ASSUME NEW t \in Tokens, t \notin Held(bk) PROVE BookAged(bk)[t] = NoVisit
  BY <1>1, <1>2, HeldIsAVisit DEF Older
<1>3. ASSUME NEW t \in Held(bk)
      PROVE  /\ BookAged(bk)[t] \in Visit
             /\ bk[t].age < VisitTTL => BookAged(bk)[t] = [bk[t] EXCEPT !.age = @ + 1]
             /\ bk[t].age >= VisitTTL => BookAged(bk)[t] = bk[t]
  <2>1. t \in Tokens /\ bk[t] \in Visit /\ bk[t].age \in 0 .. VisitTTL /\ bk[t] # NoVisit
    BY HeldIsAVisit, NoVisitIsNone DEF Held
  <2>2. CASE bk[t].age = VisitTTL
    BY <1>0, <1>1, <2>1, <2>2 DEF Older
  <2>3. CASE bk[t].age # VisitTTL
    <3>1. BookAged(bk)[t] = [bk[t] EXCEPT !.age = @ + 1]
      BY <1>1, <2>1, <2>3 DEF Older
    <3>2. bk[t].age + 1 \in 0 .. VisitTTL
      BY <1>0, <2>1, <2>3
    <3> QED BY <1>0, <2>1, <2>3, <3>1, <3>2 DEF Visit
  <2> QED BY <2>2, <2>3
<1>4. BookAged(bk) \in Books
  BY <1>2, <1>3 DEF BookAged, Books
<1>5. Held(BookAged(bk)) = Held(bk)
  BY <1>2, <1>3, NoVisitIsNone DEF Held
<1>6. ASSUME NEW t \in Held(bk)
      PROVE  BookAged(bk)[t].age = IF bk[t].age < VisitTTL THEN bk[t].age + 1 ELSE bk[t].age
  <2>1. bk[t] \in Visit /\ bk[t].age \in 0 .. VisitTTL
    BY HeldIsAVisit DEF Held
  <2>2. bk[t].age < VisitTTL => BookAged(bk)[t] = [bk[t] EXCEPT !.age = @ + 1]
    BY <1>3
  <2> QED BY <1>0, <1>3, <2>1, <2>2 DEF Visit
<1>7. ASSUME NEW t \in Tokens
      PROVE  t \in Live(BookAged(bk)) <=> t \in Live(bk) /\ bk[t].age + 1 < VisitTTL
  <2>1. t \in Held(bk) => bk[t].age \in 0 .. VisitTTL
    BY HeldIsAVisit
  <2> QED BY <1>0, <1>4, <1>5, <1>6, <2>1, HeldIsAVisit
<1>8. \A t \in Live(bk) : BookAged(bk)[t] = [bk[t] EXCEPT !.age = @ + 1]
  BY <1>0, <1>3, HeldIsAVisit DEF Live, Held
<1> QED BY <1>4, <1>5, <1>7, <1>8

-----------------------------------------------------------------------------

BookInv == TypeOK /\ BookBounded

LEMMA BookInvariant == Spec => []BookInv
<1>1. Init => BookInv
  <2> SUFFICES ASSUME Init PROVE BookInv
    OBVIOUS
  <2>1. book \in Books /\ shown \in Books
    BY DEF Init, EmptyBook, Books
  <2>2. Held(book) = {}
    BY DEF Init, EmptyBook, Held
  <2> QED BY <2>1, <2>2, FS_EmptySet, VisitAssumption DEF BookInv, TypeOK, BookBounded
<1>2. BookInv /\ [Next]_vars => BookInv'
  <2> SUFFICES ASSUME BookInv, [Next]_vars PROVE BookInv'
    OBVIOUS
  <2>0. book \in Books /\ shown \in Books /\ Cardinality(Held(book)) <= MaxVisits
    BY DEF BookInv, TypeOK, BookBounded
  <2>1. ASSUME NEW t \in Tokens, NEW b \in Buys, Record(t, b) PROVE BookInv'
    <3>1. book' \in Books /\ Cardinality(Held(book')) <= MaxVisits
      BY <2>0, <2>1, RecordedIsBounded DEF Record
    <3>2. shown' \in Books
      BY <2>0, <2>1, <3>1 DEF Record, Books
    <3> QED BY <3>1, <3>2 DEF BookInv, TypeOK, BookBounded
  <2>2. CASE Tick
    BY <2>0, <2>2, AgedBook DEF Tick, BookInv, TypeOK, BookBounded
  <2>3. CASE UNCHANGED vars
    BY <2>0, <2>3 DEF vars, BookInv, TypeOK, BookBounded
  <2> QED BY <2>1, <2>2, <2>3 DEF Next
<1> QED BY <1>1, <1>2, PTL DEF Spec

\* Every reachable book is well typed.
THEOREM TypeCorrect == Spec => []TypeOK
  BY BookInvariant, PTL DEF BookInv

\* The book (maxVisits) is bounded, however many pages' buyers pay.
THEOREM BookIsBounded == Spec => []BookBounded
  BY BookInvariant, PTL DEF BookInv

\* A payment a page finds is not replaced by a later one while it may be found.
THEOREM FirstIsKept == Spec => FirstStays
<1>1. BookInv /\ [Next]_vars =>
        [\A t \in Tokens : Findable(book, t) /\ Findable(book', t)
           => book'[t].buy = book[t].buy]_vars
  <2> SUFFICES ASSUME BookInv, Next, NEW t \in Tokens, Findable(book, t), Findable(book', t)
               PROVE  book'[t].buy = book[t].buy
    OBVIOUS
  <2>0. book \in Books /\ Cardinality(Held(book)) <= MaxVisits /\ t \in Live(book)
    BY DEF BookInv, TypeOK, BookBounded, Findable
  <2>1. ASSUME NEW u \in Tokens, NEW b \in Buys, Record(u, b) PROVE book'[t].buy = book[t].buy
    <3>1. book' \in Recorded(book, u, b)
      BY <2>1 DEF Record
    <3>2. CASE Findable(book, u)
      BY <3>1, <3>2 DEF Recorded
    <3>3. CASE ~Findable(book, u)
      <4>1. PICK room \in MakeRoom(book) : book' = [room EXCEPT ![u] = [buy |-> b, age |-> 0]]
        BY <2>0, <3>1, <3>3, RecordedIn
      <4>2. room \in Books /\ (room[t] = book[t] \/ room[t] = NoVisit)
        BY <2>0, RoomMade
      <4>3. t # u
        BY <3>3
      <4>4. book'[t] = room[t]
        BY <4>1, <4>2, <4>3 DEF Books
      <4>5. book'[t] # NoVisit
        BY DEF Findable, Live, Held
      <4> QED BY <4>2, <4>4, <4>5
    <3> QED BY <3>2, <3>3
  <2>2. CASE Tick
    <3>1. book'[t] = [book[t] EXCEPT !.age = @ + 1]
      BY <2>0, <2>2, AgedBook DEF Tick
    <3>2. book[t] \in Visit
      BY <2>0, HeldIsAVisit DEF Live
    <3> QED BY <3>1, <3>2 DEF Visit
  <2> QED BY <2>1, <2>2 DEF Next
<1> QED BY <1>1, BookInvariant, PTL DEF Spec, FirstStays

\* The payments the book holds that are as new as a.
NoOlder(bk, a) == {u \in Live(bk) : bk[u].age <= a}

\* A page that finds its payment finds the one last kept under it, as old as it is;
\* one that does not was crowded out.
CrowdInv ==
  /\ \A t \in Live(book) : shown[t] = book[t]
  /\ CrowdedOutByNewer

LEMMA CrowdInvTick ==
  ASSUME BookInv, CrowdInv, Tick
  PROVE  CrowdInv'
<1>0. /\ book \in Books /\ shown \in Books /\ VisitTTL \in Nat /\ MaxVisits \in Nat
      /\ book' = BookAged(book) /\ shown' = BookAged(shown)
  BY VisitAssumption DEF BookInv, TypeOK, Tick
<1>1. ASSUME NEW t \in Live(book') PROVE shown'[t] = book'[t]
  <2>1. t \in Tokens
    BY DEF Live, Held
  <2>2. t \in Live(book)
    BY <1>0, <2>1, AgedBook
  <2>3. shown[t] = book[t]
    BY <2>2 DEF CrowdInv
  <2> QED BY <1>0, <2>1, <2>3 DEF BookAged
<1>2. ASSUME NEW t \in Live(shown'), ~Findable(book', t)
      PROVE  Cardinality({u \in Live(book') : book'[u].age <= shown'[t].age}) >= MaxVisits
  <2>1. t \in Tokens
    BY DEF Live, Held
  <2>2. t \in Live(shown) /\ shown[t].age + 1 < VisitTTL /\ shown'[t] = [shown[t] EXCEPT !.age = @ + 1]
    BY <1>0, <2>1, AgedBook
  <2>3. shown[t] \in Visit /\ shown[t].age \in Nat
    BY <1>0, <2>1, <2>2, HeldIsAVisit DEF Live
  <2>4. shown'[t].age = shown[t].age + 1
    BY <2>2, <2>3 DEF Visit
  <2>5. ~Findable(book, t)
    <3>1. CASE t \in Live(book)
      <4>1. shown[t] = book[t]
        BY <3>1 DEF CrowdInv
      <4>2. t \in Live(book')
        BY <1>0, <2>1, <2>2, <3>1, <4>1, AgedBook
      <4> QED BY <1>2, <4>2 DEF Findable
    <3> QED BY <3>1 DEF Findable
  <2>6. Cardinality(NoOlder(book, shown[t].age)) >= MaxVisits
    BY <2>2, <2>5 DEF CrowdInv, CrowdedOutByNewer, NoOlder
  <2>7. ASSUME NEW u \in NoOlder(book, shown[t].age)
        PROVE  u \in Live(book') /\ book'[u].age <= shown'[t].age
    <3>1. u \in Tokens /\ u \in Live(book) /\ book[u].age <= shown[t].age
      BY DEF NoOlder, Live, Held
    <3>2. book[u] \in Visit /\ book[u].age \in Nat
      BY <1>0, <3>1, HeldIsAVisit DEF Live
    <3>3. u \in Live(book') /\ book'[u] = [book[u] EXCEPT !.age = @ + 1]
      BY <1>0, <2>2, <2>3, <3>1, <3>2, AgedBook
    <3>4. book'[u].age = book[u].age + 1
      BY <3>2, <3>3 DEF Visit
    <3> QED BY <2>3, <2>4, <3>1, <3>2, <3>3, <3>4
  <2> DEFINE crowd == {u \in Live(book') : book'[u].age <= shown'[t].age}
  <2>8. NoOlder(book, shown[t].age) \subseteq crowd
    BY <2>7
  <2>9. IsFiniteSet(crowd)
    <3>1. book' \in Books
      BY <1>0, AgedBook
    <3>2. IsFiniteSet(Live(book')) /\ crowd \subseteq Live(book')
      BY <3>1, BooksAreFinite
    <3> QED BY <3>2, FS_Subset
  <2> HIDE DEF crowd
  <2>10. /\ Cardinality(NoOlder(book, shown[t].age)) \in Nat /\ Cardinality(crowd) \in Nat
         /\ Cardinality(NoOlder(book, shown[t].age)) <= Cardinality(crowd)
    BY <2>8, <2>9, FS_Subset, FS_CardinalityType
  <2>11. Cardinality(crowd) >= MaxVisits
    BY <1>0, <2>6, <2>10
  <2> QED BY <2>11 DEF crowd
<1> QED BY <1>1, <1>2 DEF CrowdInv, CrowdedOutByNewer

LEMMA CrowdInvRecord ==
  ASSUME BookInv, CrowdInv, NEW t \in Tokens, NEW b \in Buys, Record(t, b)
  PROVE  CrowdInv'
<1>0. /\ book \in Books /\ shown \in Books /\ Cardinality(Held(book)) <= MaxVisits
      /\ VisitTTL \in Nat \ {0} /\ MaxVisits \in Nat
      /\ book' \in Recorded(book, t, b)
  BY VisitAssumption DEF BookInv, TypeOK, BookBounded, Record
<1>1. CASE Findable(book, t)
  <2>1. book' = book
    BY <1>0, <1>1 DEF Recorded
  <2>2. shown' = shown
    BY <1>0, <1>1 DEF Record, Books
  <2> QED BY <2>1, <2>2 DEF CrowdInv, CrowdedOutByNewer
<1>2. CASE ~Findable(book, t)
  <2>1. PICK room \in MakeRoom(book) : book' = [room EXCEPT ![t] = [buy |-> b, age |-> 0]]
    BY <1>0, <1>2, RecordedIn
  <2>2. /\ room \in Books
        /\ \A u \in Tokens : room[u] = book[u] \/ room[u] = NoVisit
        /\ \A u \in Live(book) : room[u] # book[u] =>
             /\ Cardinality(Live(book)) = MaxVisits
             /\ Live(room) = Live(book) \ {u}
             /\ \A v \in Live(book) : book[v].age <= book[u].age
    BY <1>0, RoomMade
  <2>3. shown' = [shown EXCEPT ![t] = book'[t]] /\ t \notin Live(book)
    BY <1>2 DEF Record, Findable
  <2>4. book'[t] = [buy |-> b, age |-> 0] /\ \A u \in Tokens \ {t} : book'[u] = room[u]
    BY <2>1, <2>2 DEF Books
  <2>5. book' \in Books
    BY <1>0, RecordedIsBounded
  <2>6. t \in Live(book') /\ book'[t].age = 0
    <3>1. [buy |-> b, age |-> 0] \in Visit
      BY <1>0 DEF Visit
    <3> QED BY <1>0, <2>4, <3>1, NoVisitIsNone DEF Live, Held, Lapsed
  <2>7. \A u \in Tokens \ {t} : shown'[u] = shown[u] /\ shown'[t] = book'[t]
    BY <1>0, <2>3 DEF Books
  <2>8. ASSUME NEW u \in Tokens \ {t}
        PROVE  u \in Live(book') <=> u \in Live(book) /\ room[u] = book[u]
    <3>1. u \in Live(book') <=> room[u] # NoVisit /\ ~Lapsed(room[u])
      BY <2>4 DEF Live, Held
    <3>2. room[u] = book[u] \/ room[u] = NoVisit
      BY <2>2
    <3> QED BY <3>1, <3>2 DEF Live, Held
  <2>9. ASSUME NEW u \in Live(book') PROVE shown'[u] = book'[u]
    <3>1. u \in Tokens
      BY DEF Live, Held
    <3>2. CASE u = t
      BY <1>0, <2>3, <3>1, <3>2 DEF Books
    <3>3. CASE u # t
      <4>1. u \in Live(book) /\ room[u] = book[u]
        BY <2>8, <3>1, <3>3
      <4>2. shown[u] = book[u]
        BY <4>1 DEF CrowdInv
      <4> QED BY <2>4, <2>7, <3>1, <3>3, <4>1, <4>2
    <3> QED BY <3>2, <3>3
  <2>10. ASSUME NEW u \in Live(shown'), ~Findable(book', u)
         PROVE  Cardinality({v \in Live(book') : book'[v].age <= shown'[u].age}) >= MaxVisits
    <3>1. u \in Tokens /\ u # t
      BY <2>6, <2>10 DEF Live, Held, Findable
    <3>2. u \in Live(shown) /\ shown'[u] = shown[u] /\ shown[u].age \in Nat
      <4>1. shown'[u] = shown[u]
        BY <2>7, <3>1
      <4>2. u \in Live(shown)
        BY <3>1, <4>1 DEF Live, Held
      <4> QED BY <1>0, <3>1, <4>1, <4>2, HeldIsAVisit DEF Live
    <3>3. /\ Live(book) \subseteq Tokens /\ IsFiniteSet(Live(book))
          /\ Cardinality(Live(book)) \in Nat /\ Cardinality(Live(book)) <= MaxVisits
      <4>1. Live(book) \subseteq Tokens
        BY DEF Live, Held
      <4> QED BY <1>0, <4>1, BooksAreFinite
    <3>4. Cardinality(Live(book)) = MaxVisits /\ \A v \in Live(book) : book[v].age <= shown[u].age
      <4>1. CASE Findable(book, u)
        <5>1. u \in Live(book) /\ shown[u] = book[u]
          BY <4>1 DEF Findable, CrowdInv
        <5>2. room[u] # book[u]
          BY <2>8, <2>10, <3>1, <5>1 DEF Findable
        <5> QED BY <2>2, <5>1, <5>2
      <4>2. CASE ~Findable(book, u)
        <5>1. Cardinality(NoOlder(book, shown[u].age)) >= MaxVisits
          BY <3>2, <4>2 DEF CrowdInv, CrowdedOutByNewer, NoOlder
        <5>2. NoOlder(book, shown[u].age) \subseteq Live(book)
          BY DEF NoOlder
        <5>3. /\ Cardinality(NoOlder(book, shown[u].age)) \in Nat
              /\ Cardinality(NoOlder(book, shown[u].age)) <= Cardinality(Live(book))
              /\ Cardinality(Live(book)) = Cardinality(NoOlder(book, shown[u].age))
                   => Live(book) = NoOlder(book, shown[u].age)
          BY <3>3, <5>2, FS_Subset, FS_CardinalityType
        <5>4. Cardinality(Live(book)) = MaxVisits /\ Live(book) = NoOlder(book, shown[u].age)
          BY <1>0, <3>3, <5>1, <5>3
        <5> QED BY <5>4 DEF NoOlder
      <4> QED BY <4>1, <4>2
    <3> DEFINE crowd == {v \in Live(book') : book'[v].age <= shown'[u].age}
    <3>5. \E w : (Live(book) \ {w}) \cup {t} \subseteq crowd
      <4>1. \A v \in Live(book) : v # t /\ (room[v] = book[v] => v \in crowd)
        BY <2>3, <2>4, <2>8, <3>2, <3>3, <3>4
      <4>2. t \in crowd
        BY <2>6, <3>2
      <4> HIDE DEF crowd
      <4>3. CASE \E w \in Live(book) : room[w] # book[w]
        <5>1. PICK w \in Live(book) : room[w] # book[w]
          BY <4>3
        <5>2. Live(room) = Live(book) \ {w}
          BY <2>2, <5>1
        <5>3. \A v \in Live(book) \ {w} : room[v] = book[v]
          BY <2>2, <3>3, <5>2, NoVisitIsNone DEF Live, Held
        <5> QED BY <4>1, <4>2, <5>3
      <4>4. CASE \A w \in Live(book) : room[w] = book[w]
        BY <4>1, <4>2, <4>4
      <4> QED BY <4>3, <4>4
    <3>6. IsFiniteSet(crowd)
      <4>1. IsFiniteSet(Live(book')) /\ crowd \subseteq Live(book')
        BY <2>5, BooksAreFinite
      <4> QED BY <4>1, FS_Subset
    <3> HIDE DEF crowd
    <3>7. PICK w : (Live(book) \ {w}) \cup {t} \subseteq crowd
      BY <3>5
    <3>8. IsFiniteSet(Live(book) \ {w}) /\ Cardinality(Live(book) \ {w}) >= MaxVisits - 1
      <4>1. /\ IsFiniteSet(Live(book) \ {w})
            /\ Cardinality(Live(book) \ {w}) =
                 IF w \in Live(book) THEN Cardinality(Live(book)) - 1 ELSE Cardinality(Live(book))
        BY <3>3, FS_RemoveElement
      <4> QED BY <1>0, <3>4, <4>1
    <3>9. Cardinality((Live(book) \ {w}) \cup {t}) = Cardinality(Live(book) \ {w}) + 1
      BY <2>3, <3>8, FS_AddElement
    <3>10. Cardinality((Live(book) \ {w}) \cup {t}) <= Cardinality(crowd)
      BY <3>6, <3>7, FS_Subset
    <3>11. Cardinality(Live(book) \ {w}) \in Nat /\ Cardinality(crowd) \in Nat
      BY <3>6, <3>8, FS_CardinalityType
    <3>12. Cardinality(crowd) >= MaxVisits
      BY <1>0, <3>8, <3>9, <3>10, <3>11
    <3> QED BY <3>12 DEF crowd
  <2> QED BY <2>9, <2>10 DEF CrowdInv, CrowdedOutByNewer
<1> QED BY <1>1, <1>2

\* A page loses its payment before its time only to a book full of payments no older.
THEOREM CrowdedOut == Spec => []CrowdedOutByNewer
<1>1. Init => CrowdInv
  BY DEF Init, EmptyBook, CrowdInv, CrowdedOutByNewer, Live, Held
<1>2. BookInv /\ CrowdInv /\ [Next]_vars => CrowdInv'
  <2> SUFFICES ASSUME BookInv, CrowdInv, [Next]_vars PROVE CrowdInv'
    OBVIOUS
  <2>1. CASE UNCHANGED vars
    BY <2>1 DEF vars, CrowdInv, CrowdedOutByNewer
  <2> QED BY <2>1, CrowdInvTick, CrowdInvRecord DEF Next
<1>3. CrowdInv => CrowdedOutByNewer
  BY DEF CrowdInv
<1> QED BY <1>1, <1>2, <1>3, BookInvariant, PTL DEF Spec

=============================================================================
