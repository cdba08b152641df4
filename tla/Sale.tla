-------------------------------- MODULE Sale --------------------------------
(***************************************************************************)
(* A reading sold: the weather seller (examples/weather) between its buyers *)
(* and a facilitator, which is Facilitator in full, over the chain.          *)
(*                                                                          *)
(* A visitor pays from the page with a wallet (paywall.js), or copies a      *)
(* command and pays from a terminal (buy.mjs, x402-gno), whose payment the   *)
(* page then asks the seller for.  Each paid request is a handler of the     *)
(* seller: the middleware has the facilitator verify the payment, buffers    *)
(* the reading, settles, settles once more if the first settle left it       *)
(* pending, and answers.  Calls are lost, answers come late, buyers go away, *)
(* pages reload and the facilitator may restart between any two steps.       *)
(*                                                                          *)
(* A sale is shorter than settlementTTL and visitTTL: no clock runs here.    *)
(***************************************************************************)
EXTENDS Facilitator

CONSTANTS
  Handlers,      \* the seller's concurrent paid requests
  PagePayments,  \* payments the wallet may sign for the page; a terminal signs the others
  Before,        \* Before[s]: the sequences an account spends before it comes to s
  Tab,           \* the page's visit token
  NoRequest,     \* the call of a handler that is not settling
  NoHandler,     \* what a buyer who has no request open waits for
  Faults         \* what may go wrong besides: "restart" of the facilitator, "resend" and "reload" by a browser

Book == INSTANCE VisitBook WITH
  Tokens <- {Tab}, Buys <- Payments, NoVisit <- NoPayment, VisitTTL <- 1, MaxVisits <- 1

ASSUME SaleAssumption ==
  /\ PagePayments \subseteq Payments
  /\ Before \in [Sequences -> SUBSET Sequences]
  /\ NoRequest \notin Requests
  /\ NoHandler \notin Handlers
  /\ NoPayment \notin Book!Visit
  /\ Faults \subseteq {"restart", "resend", "reload"}

VARIABLES
  handler,  \* handler[h]: where the seller's handler h is
  waits,    \* waits[p]: the handler whose answer the buyer of p waits for
  heard,    \* heard[p]: what the buyer of p was answered, and "lost" if nothing came
  signed,   \* the payments signed so far
  book,     \* the seller's visit book
  page,     \* the page: the outcome it shows, the payment it makes, its lookup
  loads,    \* the payments signed since the page was last loaded
  readings, \* history: the readings sold for p, whether or not they arrived
  loose     \* payments a node has, or may yet get from a broadcast under way

saleVars == <<handler, waits, heard, signed, book, page, loads, readings, loose>>
allVars == <<vars, saleVars>>

Terminals == Payments \ PagePayments

\* What the seller may answer a paid request: the reading with its receipt, a
\* refusal by verify, a verify that got no verdict, or a failed settlement.
\* "error" is a settlement the seller's SDK got no answer to.
Replies == {"settled", "unverified", "unchecked",
            "refused", "aborted", "pending", "duplicate", "error"}

Stages == {"free", "verify", "settle", "again", "answer", "record"}

FreeHandler ==
  [stage |-> "free", pay |-> NoPayment, call |-> NoRequest, reply |-> "none"]

Shown == {"none", "paying", "refused", "pending", "paid"}

FreshPage == [outcome |-> "none", pay |-> NoPayment, shows |-> NoPayment, asking |-> "no"]

SaleTypeOK ==
  /\ handler \in [Handlers -> [stage : Stages, pay : Payments \cup {NoPayment},
                               call : Requests \cup {NoRequest}, reply : Replies \cup {"none"}]]
  /\ waits \in [Payments -> Handlers \cup {NoHandler}]
  /\ heard \in [Payments -> Replies \cup {"none", "lost"}]
  /\ signed \subseteq Payments
  /\ book \in Book!Books
  /\ page \in [outcome : Shown, pay : PagePayments \cup {NoPayment},
               shows : Payments \cup {NoPayment}, asking : {"no", "asked", "found"}]
  /\ loads \subseteq signed
  /\ readings \in [Payments -> Nat]
  /\ loose \subseteq Payments

SaleInit ==
  /\ Init
  /\ handler = [h \in Handlers |-> FreeHandler]
  /\ waits = [p \in Payments |-> NoHandler]
  /\ heard = [p \in Payments |-> "none"]
  /\ signed = {}
  /\ book = Book!EmptyBook
  /\ page = FreshPage
  /\ loads = {}
  /\ readings = [p \in Payments |-> 0]
  /\ loose = {}

-----------------------------------------------------------------------------

\* Variant: a settle with no verdict is answered as a refusal.
SettleHeardAsVerdict(a) ==
  IF a = NoAnswer THEN "error" ELSE IF a.kind = "noverdict" THEN "refused" ELSE a.kind

\* Variant: a pending settle, which has its transaction's hash, is answered as a success.
SettleHeardByHash(a) ==
  IF a = NoAnswer \/ a.kind = "noverdict" THEN "error"
  ELSE IF a.kind = "pending" THEN "settled" ELSE a.kind

\* What the seller's SDK hears of the settle answer a (answerSettleError): a
\* verdict with its reason, or a status that is none.
SettleHeard(a) ==
  IF a = NoAnswer \/ a.kind = "noverdict" THEN "error" ELSE a.kind

\* The middleware settles once more a payment left pending.
After(hd, said) ==
  IF said = "pending" /\ hd.stage = "settle"
    THEN [hd EXCEPT !.stage = "again", !.call = NoRequest]
    ELSE [hd EXCEPT !.stage = "answer", !.call = NoRequest, !.reply = said]

\* The handlers, when those whose calls are in `calls` hear `said`.
Told(calls, said) ==
  [h \in Handlers |->
     IF handler[h].call \in calls THEN After(handler[h], said) ELSE handler[h]]

\* The payer's account, at the node the wallet or the buyer reads, stands at the
\* sequence p is signed over.
AtSequence(p) ==
  \E n \in Nodes :
    /\ Fresh(n, p)
    /\ \A s \in Before[Spends[p]] : \E q \in view[n] : Spends[q] = s

\* Neither the facilitator nor the chain moves.
FacilitatorRests ==
  /\ answer' = NoAnswer
  /\ UNCHANGED <<chainVars, record, phase, pay, ended, paid, sent, everPaid>>

\* A paid request for p reaches the seller, in a handler of its own.
Arrives(h, p) ==
  /\ handler[h].stage = "free"
  /\ handler' = [handler EXCEPT ![h] = [FreeHandler EXCEPT !.stage = "verify", !.pay = p]]
  /\ waits' = [waits EXCEPT ![p] = h]

\* The visitor clicks Pay: the button is disabled until the payment has an outcome.
Click ==
  /\ page.outcome \in {"none", "refused"}
  /\ page' = [page EXCEPT !.outcome = "paying"]
  /\ FacilitatorRests
  /\ UNCHANGED <<handler, waits, heard, signed, book, loads, readings, loose>>

\* The wallet refuses, or the terms cannot be read or paid: nothing is sent.
Decline ==
  /\ page.outcome = "paying"
  /\ page.pay = NoPayment
  /\ page' = [page EXCEPT !.outcome = "refused"]
  /\ FacilitatorRests
  /\ UNCHANGED <<handler, waits, heard, signed, book, loads, readings, loose>>

\* The wallet signs p, over the sequence it reads, and the page sends it.
WalletPays(h, p) ==
  /\ page.outcome = "paying"
  /\ page.pay = NoPayment
  /\ p \in PagePayments \ signed
  /\ AtSequence(p)
  /\ Arrives(h, p)
  /\ page' = [page EXCEPT !.pay = p]
  /\ signed' = signed \cup {p}
  /\ loads' = loads \cup {p}
  /\ FacilitatorRests
  /\ UNCHANGED <<heard, book, readings, loose>>

\* A buyer run from a terminal signs p and sends it, once, under the page's token.
TerminalPays(h, p) ==
  /\ p \in Terminals \ signed
  /\ AtSequence(p)
  /\ Arrives(h, p)
  /\ signed' = signed \cup {p}
  /\ FacilitatorRests
  /\ UNCHANGED <<heard, book, page, loads, readings, loose>>

\* A browser sends its request again when the connection breaks with no answer;
\* the terminal buyers open a connection for each request so that theirs is not.
Resend(h, p) ==
  /\ "resend" \in Faults
  /\ p \in PagePayments
  /\ waits[p] # NoHandler
  /\ Arrives(h, p)
  /\ FacilitatorRests
  /\ UNCHANGED <<heard, signed, book, page, loads, readings, loose>>

\* The connection to the buyer breaks for good, and the handler goes on.
LoseAnswer(p) ==
  /\ waits[p] # NoHandler
  /\ waits' = [waits EXCEPT ![p] = NoHandler]
  /\ heard' = [heard EXCEPT ![p] = "lost"]
  /\ FacilitatorRests
  /\ UNCHANGED <<handler, signed, book, page, loads, readings, loose>>

-----------------------------------------------------------------------------

\* The middleware has the facilitator verify the payment. A valid one is served,
\* into a buffer; a refused one is answered 402, and so is one with no verdict.
Verify(h) ==
  /\ handler[h].stage = "verify"
  /\ \/ /\ \E n \in Nodes : Fresh(n, handler[h].pay)
        /\ handler' = [handler EXCEPT ![h].stage = "settle"]
     \/ \E said \in {"unverified", "unchecked"} : handler' =
          [handler EXCEPT ![h].stage = "answer", ![h].reply = said]
  /\ FacilitatorRests
  /\ UNCHANGED <<waits, heard, signed, book, page, loads, readings, loose>>

\* The middleware calls /settle: the facilitator begins, refuses a copy, or never
\* settles it, being out of reach or the seller over its rate.
CallSettle(h) ==
  /\ handler[h].stage \in {"settle", "again"}
  /\ handler[h].call = NoRequest
  /\ \/ \E r \in Requests :
          \/ /\ Claim(r, handler[h].pay)
             /\ handler' = [handler EXCEPT ![h].call = r]
          \/ /\ RefuseDuplicate(r, handler[h].pay)
             /\ handler' = [handler EXCEPT ![h] = After(@, SettleHeard(answer'))]
     \/ /\ handler' = [handler EXCEPT ![h] = After(@, "error")]
        /\ FacilitatorRests
  /\ UNCHANGED <<waits, heard, signed, book, page, loads, readings, loose>>

\* A step of a settle. If it ends one, the handler that waits hears of it. A
\* broadcast that was not refused leaves the payment with a node, or on its way.
SettleMoves(r) ==
  /\ Step(r) \/ Panic(r)
  /\ handler' = IF phase'[r] = Idle THEN Told({r}, SettleHeard(answer')) ELSE handler
  /\ loose' = IF phase[r] = "sending" /\ SettleHeard(answer') # "refused"
                THEN loose \cup {pay[r]} ELSE loose
  /\ UNCHANGED <<waits, heard, signed, book, page, loads, readings>>

\* The answer timeout or the seller's own deadline: the settle goes on unheard.
SettleUnheard(r) ==
  /\ End(r)
  /\ handler' = Told({r}, "error")
  /\ UNCHANGED <<waits, heard, signed, book, page, loads, readings, loose>>

\* The facilitator stops, with the calls to it, and starts again.
FacilitatorRestarts(f) ==
  /\ "restart" \in Faults
  /\ RestartProcess(f)
  /\ LET cut == {r \in Requests : Serves[r] = f} IN
       /\ handler' = Told(cut, "error")
       /\ loose' = loose \cup {pay[r] : r \in {q \in cut : phase[q] = "sending"}}
  /\ UNCHANGED <<waits, heard, signed, book, page, loads, readings>>

\* The chain moves. A node hears only of payments some node has been sent.
ChainMoves ==
  /\ ChainStep
  /\ \A n \in Nodes : mempool'[n] \ mempool[n] \subseteq loose
  /\ UNCHANGED saleVars

\* The handler answers: the reading with its receipt, or what went wrong. One for a
\* terminal's settled payment has the visit book left to write.
Answer(h) ==
  LET p == handler[h].pay IN
  /\ handler[h].stage = "answer"
  /\ IF waits[p] = h
       THEN /\ waits' = [waits EXCEPT ![p] = NoHandler]
            /\ heard' = [heard EXCEPT ![p] = handler[h].reply]
       ELSE UNCHANGED <<waits, heard>>
  /\ readings' = IF handler[h].reply = "settled" THEN [readings EXCEPT ![p] = @ + 1] ELSE readings
  /\ handler' = [handler EXCEPT ![h] =
       IF @.reply = "settled" /\ p \in Terminals THEN [@ EXCEPT !.stage = "record"]
                                                 ELSE FreeHandler]
  /\ FacilitatorRests
  /\ UNCHANGED <<signed, book, page, loads, loose>>

\* recordSettled, once the handler under it has answered.
Record(h) ==
  /\ handler[h].stage = "record"
  /\ book' \in Book!Recorded(book, Tab, handler[h].pay)
  /\ handler' = [handler EXCEPT ![h] = FreeHandler]
  /\ FacilitatorRests
  /\ UNCHANGED <<waits, heard, signed, page, loads, readings, loose>>

-----------------------------------------------------------------------------

\* Variant: a settlement with no verdict counts as a refusal.
MayStillSettleIfSaid(said) == said \in {"pending", "duplicate", "lost"}

\* mayStillSettle, and the click handler for an answer that never came: the payment
\* may have gone through, or go through yet.
MayStillSettle(said) == said \in {"pending", "duplicate", "error", "lost"}

\* What the page shows once its payment is answered.
OutcomeOf(said) ==
  CASE said = "settled" -> "paid"
    [] MayStillSettle(said) -> "pending"
    [] OTHER -> "refused"

\* The click's payment is answered: the button comes back, unless it is withdrawn.
PageHears ==
  LET p == page.pay IN
  /\ p # NoPayment
  /\ heard[p] # "none"
  /\ page' = [page EXCEPT !.outcome = OutcomeOf(heard[p]), !.pay = NoPayment,
                          !.shows = IF heard[p] = "settled" THEN p ELSE @]
  /\ FacilitatorRests
  /\ UNCHANGED <<handler, waits, heard, signed, book, loads, readings, loose>>

\* Variant: it looks at the outcome only, which a click under way has not.
MayShowWhilePaying == page.outcome \notin {"paid", "pending"}

\* Variant: it does not look again once the seller has answered.
MayShowUnlooked == page.asking = "found"

\* The page may show what a lookup found: no click is paying, and none has an
\* outcome that a reading would hide.
MayShow == page.outcome \in {"none", "refused"}

\* The page asks the seller for a payment under its visit (ask).
Ask ==
  /\ page.asking = "no"
  /\ page.outcome \in {"none", "refused"}
  /\ page' = [page EXCEPT !.asking = "asked"]
  /\ FacilitatorRests
  /\ UNCHANGED <<handler, waits, heard, signed, book, loads, readings, loose>>

\* The seller looks it up. An answer that there is none changes nothing.
AnswerLookup ==
  /\ page.asking = "asked"
  /\ page' = [page EXCEPT !.asking = IF Book!Findable(book, Tab) THEN "found" ELSE "no"]
  /\ FacilitatorRests
  /\ UNCHANGED <<handler, waits, heard, signed, book, loads, readings, loose>>

\* The lookup fails: its answer is lost, or over the seller's rate.
LookupFails ==
  /\ page.asking = "asked"
  /\ page' = [page EXCEPT !.asking = "no"]
  /\ FacilitatorRests
  /\ UNCHANGED <<handler, waits, heard, signed, book, loads, readings, loose>>

\* Its answer reaches the page, where a click may have paid in the meantime.
HearLookup ==
  /\ page.asking = "found"
  /\ page' = IF MayShow
               THEN [page EXCEPT !.asking = "no", !.outcome = "paid", !.shows = book[Tab].buy]
               ELSE [page EXCEPT !.asking = "no"]
  /\ FacilitatorRests
  /\ UNCHANGED <<handler, waits, heard, signed, book, loads, readings, loose>>

\* The visitor reloads the page, which drops the request it may have open.
Reload ==
  /\ "reload" \in Faults
  /\ page' = FreshPage
  /\ loads' = {}
  /\ waits' = [p \in Payments |-> IF p = page.pay THEN NoHandler ELSE waits[p]]
  /\ heard' = [p \in Payments |->
       IF p = page.pay /\ heard[p] = "none" THEN "lost" ELSE heard[p]]
  /\ FacilitatorRests
  /\ UNCHANGED <<handler, signed, book, readings, loose>>

\* What the seller does with a paid request of its own accord.
Serve(h) == Verify(h) \/ CallSettle(h) \/ Answer(h) \/ Record(h)

\* What the page does of its own accord.
PageSteps == PageHears \/ Ask \/ AnswerLookup \/ HearLookup

SaleNext ==
  \/ \E h \in Handlers :
       \/ Serve(h)
       \/ \E p \in Payments : WalletPays(h, p) \/ TerminalPays(h, p) \/ Resend(h, p)
  \/ \E p \in Payments : LoseAnswer(p)
  \/ \E r \in Requests : SettleMoves(r) \/ SettleUnheard(r)
  \/ \E f \in Facilitators : FacilitatorRestarts(f)
  \/ ChainMoves
  \/ Click \/ Decline \/ PageSteps \/ LookupFails \/ Reload

SaleSpec == SaleInit /\ [][SaleNext]_allVars

-----------------------------------------------------------------------------

\* p's buyer is answered with a refusal, by verify or by the settlement.
ToldNotPaid(p) == heard[p] \in {"unverified", "unchecked", "refused", "aborted"}

(***************************************************************************)
(* A buyer told that a payment was refused was not charged for the          *)
(* reading, and will not be, whatever answers were lost or late between the  *)
(* chain and the page.                                                       *)
(***************************************************************************)
RefusedIsNotCharged ==
  \A p \in Payments : ToldNotPaid(p) => outcome[p] # "ok"

(***************************************************************************)
(* A page pays for a reading once: of the payments signed since it was      *)
(* loaded, the chain executes at most one, though a refused one is followed  *)
(* by another.  A payment that settled, or may still, withdraws the button   *)
(* (paywall.js, settle).                                                     *)
(***************************************************************************)
OnePaymentPerReading ==
  \A p, q \in loads : outcome[p] = "ok" /\ outcome[q] = "ok" => p = q

(***************************************************************************)
(* A reading is sold for a payment the chain executed, and a payment buys    *)
(* one, though a browser may have its request run twice at once and the      *)
(* facilitator may forget what it settled.                                   *)
(***************************************************************************)
OneReadingPerPayment ==
  \A p \in Payments :
    /\ readings[p] <= 1
    /\ readings[p] = 1 => outcome[p] = "ok"

(***************************************************************************)
(* The page shows a reading only for a payment the chain executed: its own,  *)
(* or the one the seller keeps under its visit.                              *)
(***************************************************************************)
ShownIsPaid ==
  page.outcome = "paid" =>
    /\ outcome[page.shows] = "ok"
    /\ page.shows \in Terminals => book[Tab].buy = page.shows

(***************************************************************************)
(* What a page shows of a payment that settled, or may still, stays until    *)
(* the visitor reloads: the answer to a lookup asked before the click does   *)
(* not put a terminal's reading in its place, and hide the hash the visitor  *)
(* needs.                                                                    *)
(***************************************************************************)
SentStays ==
  [][page.outcome \in {"paid", "pending"}
       => page'.outcome = page.outcome \/ page' = FreshPage]_allVars

(***************************************************************************)
(* While a click pays, what the page shows changes in three ways only: the   *)
(* answer to its payment, which shows a reading if and only if it is that    *)
(* payment's receipt; a failure before a payment was signed, which shows no   *)
(* other; and a reload.  No lookup asked before the click, and none answered   *)
(* during it, ends it (paywall.js, poll looks at the outcome again).          *)
(***************************************************************************)
PayingIsAnswered ==
  [][page.outcome = "paying"
       /\ <<page'.outcome, page'.shows>> # <<page.outcome, page.shows>>
     => \/ page' = FreshPage
        \/ /\ page.pay = NoPayment
           /\ page'.outcome = "refused" /\ page'.shows = page.shows
        \/ /\ page.pay # NoPayment /\ heard[page.pay] # "none"
           /\ page'.outcome = "paid" <=> heard[page.pay] = "settled"
           /\ page'.shows = IF page'.outcome = "paid" THEN page.pay ELSE page.shows]_allVars

=============================================================================
