------------------------------- MODULE Visits -------------------------------
(***************************************************************************)
(* The visit book in use (examples/weather/visits.go): buyers pay from a    *)
(* terminal under the tokens of any number of pages, in any order and any    *)
(* number of times, while the clock runs.  A page's lookup changes nothing:   *)
(* what it would answer is Findable.                                          *)
(***************************************************************************)
EXTENDS VisitBook

VARIABLES
  book,   \* the seller's visits map
  shown   \* history: shown[t] is the payment last kept under t, and its age

vars == <<book, shown>>

TypeOK ==
  /\ book \in Books
  /\ shown \in Books

Init ==
  /\ book = EmptyBook
  /\ shown = EmptyBook

\* The record of a payment settled under token t.  recordSettled makes it once the
\* response is written, so payments come here in any order, and not always in the
\* order they settled in.
Record(t, b) ==
  /\ book' \in Recorded(book, t, b)
  /\ shown' = [shown EXCEPT ![t] = IF Findable(book, t) THEN @ ELSE book'[t]]

Tick ==
  /\ book' = BookAged(book)
  /\ shown' = BookAged(shown)

Next ==
  \/ \E t \in Tokens, b \in Buys : Record(t, b)
  \/ Tick

Spec == Init /\ [][Next]_vars

-----------------------------------------------------------------------------

(***************************************************************************)
(* The book never outgrows its ceiling, payments past their time included,   *)
(* however many pages' buyers pay (maxVisits).                               *)
(***************************************************************************)
BookBounded == Cardinality(Held(book)) <= MaxVisits

(***************************************************************************)
(* A page asks again and again: while it finds a payment, it finds the same  *)
(* one, the first that was recorded, whatever is recorded under its token    *)
(* later, settled earlier or not, and whatever a full book drops.            *)
(***************************************************************************)
FirstStays ==
  [][\A t \in Tokens : Findable(book, t) /\ Findable(book', t)
       => book'[t].buy = book[t].buy]_vars

(***************************************************************************)
(* A payment kept less than visitTTL ago that its page no longer finds was   *)
(* crowded out: the book is full of payments no older, so a page never loses *)
(* its payment to one recorded before it or to one past its time.            *)
(***************************************************************************)
CrowdedOutByNewer ==
  \A t \in Live(shown) :
    Findable(book, t) \/
      Cardinality({u \in Live(book) : book[u].age <= shown[t].age}) >= MaxVisits

=============================================================================
