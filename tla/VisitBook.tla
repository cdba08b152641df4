----------------------------- MODULE VisitBook -----------------------------
(***************************************************************************)
(* The weather seller's visit book (examples/weather/visits.go): the        *)
(* payments settled under the tokens of the pages they were copied from.     *)
(* Both methods hold one mutex from their first line to their last, so each  *)
(* is one operator on a book; Visits and Sale say when they run.             *)
(*                                                                          *)
(* A book is a function from tokens to entries; a token the map does not     *)
(* hold has NoVisit.  Time is an age, counted up to VisitTTL: visits.go       *)
(* tells ages apart below visitTTL, where the older of two matters.          *)
(***************************************************************************)
EXTENDS FiniteSets, Integers

CONSTANTS
  Tokens,     \* visit tokens, one per browser tab
  Buys,       \* the payments that may be kept
  NoVisit,    \* what the map answers for a token it does not hold
  VisitTTL,   \* visitTTL, in ticks of the clock
  MaxVisits   \* maxVisits

ASSUME VisitAssumption ==
  /\ VisitTTL \in Nat \ {0}
  /\ MaxVisits \in Nat \ {0}
  /\ IsFiniteSet(Tokens)
  /\ NoVisit \notin [buy : Buys, age : 0 .. VisitTTL]

Visit == [buy : Buys, age : 0 .. VisitTTL]

Books == [Tokens -> Visit \cup {NoVisit}]

EmptyBook == [t \in Tokens |-> NoVisit]

Held(book) == {t \in Tokens : book[t] # NoVisit}

\* Past its time, though still in the map: only a full book drops it.
Lapsed(v) == v.age >= VisitTTL

Live(book) == {t \in Held(book) : ~Lapsed(book[t])}

\* lookup: a payment settled under t within visitTTL.
Findable(book, t) == t \in Live(book)

\* The tokens a full book may forget for one more: one that no other is older
\* than. Which of several of one age is the map's order.
Oldest(book) ==
  {t \in Live(book) : \A u \in Live(book) : book[u].age <= book[t].age}

\* A full book forgets the payments past their time and, if none was, the oldest.
MakeRoom(book) ==
  IF Cardinality(Held(book)) < MaxVisits THEN {book}
  ELSE LET swept == [t \in Tokens |-> IF t \in Live(book) THEN book[t] ELSE NoVisit]
       IN IF Cardinality(Live(book)) < MaxVisits THEN {swept}
          ELSE {[swept EXCEPT ![t] = NoVisit] : t \in Oldest(book)}

\* Variant: the latest payment under a token replaces the one before.
RecordedLast(book, t, b) ==
  {[room EXCEPT ![t] = [buy |-> b, age |-> 0]] : room \in MakeRoom(book)}

\* Variant: room is made before the token is looked at.
RecordedAfterRoom(book, t, b) ==
  {IF Findable(room, t) THEN room ELSE [room EXCEPT ![t] = [buy |-> b, age |-> 0]] :
     room \in MakeRoom(book)}

\* record: b is kept under t unless a payment is findable there already.
Recorded(book, t, b) ==
  IF Findable(book, t) THEN {book}
  ELSE {[room EXCEPT ![t] = [buy |-> b, age |-> 0]] : room \in MakeRoom(book)}

\* A tick of the clock, over every entry.
Older(v) == IF v = NoVisit \/ v.age = VisitTTL THEN v ELSE [v EXCEPT !.age = @ + 1]

BookAged(book) == [t \in Tokens |-> Older(book[t])]

=============================================================================
