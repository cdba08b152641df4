------------------------------ MODULE SaleProofs ------------------------------
(***************************************************************************)
(* Theorems about Sale, for any number of payments, handlers, requests,      *)
(* processes and nodes: what a buyer is told and shown of a payment is what   *)
(* the chain made of it, and a payment buys one reading.                     *)
(***************************************************************************)
EXTENDS Sale, FacilitatorProofs

-----------------------------------------------------------------------------
(* The facilitators and the chain move as they do by themselves *)

LEMMA FacilitatorRestsMoves == FacilitatorRests => Moves
BY DEF FacilitatorRests, Moves, Rests

\* What a handler is: where it is, for which payment, in which call, with what to say.
HandlerStates == [stage : Stages, pay : Payments \cup {NoPayment},
                  call : Requests \cup {NoRequest}, reply : Replies \cup {"none"}]

\* A handler that is not free is for a payment. One in a call settles that payment
\* there, in a call that no other handler is in.
CallsInv ==
  /\ \A h \in Handlers :
       /\ handler[h].stage = "free" <=> handler[h].pay = NoPayment
       /\ handler[h].call # NoRequest =>
            /\ handler[h].stage \in {"settle", "again"}
            /\ pay[handler[h].call] = handler[h].pay
  /\ \A g, h \in Handlers :
       handler[g].call = handler[h].call /\ handler[h].call # NoRequest => g = h

\* A lookup that found a payment found the one the book still holds.
FoundInv == page.asking = "found" => book[Tab] # NoPayment

\* Every invariant below rests on these.
BaseInv == SaleTypeOK /\ CallsInv /\ FoundInv /\ PromiseInv

LEMMA HandlerType == SaleTypeOK => handler \in [Handlers -> HandlerStates]
BY DEF SaleTypeOK, HandlerStates

LEMMA PaidForPayment ==
  ASSUME BaseInv, NEW h \in Handlers, handler[h].stage # "free"
  PROVE  handler[h].pay \in Payments /\ handler[h].pay # NoPayment
BY HandlerType, FacilitatorAssumption DEF BaseInv, CallsInv, HandlerStates

LEMMA SaleMoves == BaseInv /\ [SaleNext]_allVars => Moves
<1> SUFFICES ASSUME BaseInv, [SaleNext]_allVars PROVE Moves
  OBVIOUS
<1>1. ASSUME NEW h \in Handlers, Serve(h) PROVE Moves
  <2>1. CASE CallSettle(h)
    <3>1. handler[h].pay \in Payments
      BY <2>1, PaidForPayment DEF CallSettle
    <3> QED BY <2>1, <3>1, FacilitatorRestsMoves DEF CallSettle, Moves, Present
  <2> QED BY <1>1, <2>1, FacilitatorRestsMoves DEF Serve, Verify, Answer, Record
<1>2. ASSUME NEW h \in Handlers, NEW p \in Payments,
             WalletPays(h, p) \/ TerminalPays(h, p) \/ Resend(h, p)
      PROVE  Moves
  BY <1>2, FacilitatorRestsMoves DEF WalletPays, TerminalPays, Resend
<1>3. ASSUME NEW r \in Requests, SettleMoves(r) \/ SettleUnheard(r) PROVE Moves
  BY <1>3 DEF SettleMoves, SettleUnheard, Moves
<1>4. ASSUME NEW f \in Facilitators, FacilitatorRestarts(f) PROVE Moves
  BY <1>4 DEF FacilitatorRestarts, Moves
<1>5. CASE ChainMoves
  BY <1>5 DEF ChainMoves, Moves
<1>6. ASSUME NEW p \in Payments, LoseAnswer(p) PROVE Moves
  BY <1>6, FacilitatorRestsMoves DEF LoseAnswer
<1>7. CASE Click \/ Decline \/ PageSteps \/ LookupFails \/ Reload
  BY <1>7, FacilitatorRestsMoves
     DEF Click, Decline, PageSteps, PageHears, Ask, AnswerLookup, HearLookup, LookupFails, Reload
<1>8. CASE UNCHANGED allVars
  BY <1>8 DEF allVars, vars, facVars, Moves, Rests
<1> QED BY <1>1, <1>2, <1>3, <1>4, <1>5, <1>6, <1>7, <1>8 DEF SaleNext

-----------------------------------------------------------------------------
(* What a handler hears of its call *)

LEMMA AfterFields ==
  ASSUME NEW hd \in HandlerStates, NEW said \in Replies
  PROVE  /\ After(hd, said) \in HandlerStates
         /\ After(hd, said).pay = hd.pay
         /\ After(hd, said).call = NoRequest
         /\ \/ said = "pending" /\ hd.stage = "settle" /\ After(hd, said).stage = "again"
            \/ After(hd, said).stage = "answer" /\ After(hd, said).reply = said
BY DEF After, HandlerStates, Stages

LEMMA ToldFields ==
  ASSUME SaleTypeOK, NEW calls, NEW said \in Replies, handler' = Told(calls, said),
         NEW h \in Handlers
  PROVE  /\ handler[h] \in HandlerStates /\ handler'[h] \in HandlerStates
         /\ handler[h].call \in calls => handler'[h] = After(handler[h], said)
         /\ handler[h].call \notin calls => handler'[h] = handler[h]
<1>1. handler[h] \in HandlerStates
  BY HandlerType
<1> QED BY <1>1, AfterFields DEF Told

\* The settle of r goes on, or ends and says how it went.
LEMMA SettleSays ==
  ASSUME BaseInv, NEW r \in Requests, Step(r) \/ Panic(r), phase'[r] = Idle
  PROVE  /\ SettleHeard(answer') \in {"settled", "aborted", "pending", "refused", "error"}
         /\ SettleHeard(answer') = "settled" =>
              /\ Delivered(r) /\ outcome[pay[r]] = "ok"
              /\ everPaid' = everPaid \cup {pay[r]}
         /\ SettleHeard(answer') = "aborted" => Delivered(r) /\ outcome[pay[r]] = "aborted"
         /\ SettleHeard(answer') = "pending" => NotDelivered(r)
         /\ SettleHeard(answer') = "refused" => GivesUp(r) /\ ~Delivering(r)
<1>0. /\ TypeInv /\ ChainInv /\ ChainTypeOK
      /\ phase \in [Requests -> Phases]
      /\ Serves[r] \in Facilitators
  BY FacilitatorAssumption DEF BaseInv, PromiseInv, SettleInv, TypeInv, TypeOK
<1>1. CASE ReadAccount(r) \/ Simulate(r) \/ StartBroadcast(r) \/ Broadcast(r)
  BY <1>0, <1>1
     DEF ReadAccount, Simulate, StartBroadcast, Broadcast, Admitted, RefusedByNode, Unanswered,
         Proceed, GiveBack, Return, GivesUp, Delivering, SettleHeard, NoAnswer, Idle, Phases
<1>2. CASE Delivered(r)
  <2>1. pay[r] \in Executed
    BY <1>0, <1>2, FacilitatorAssumption DEF Delivered, Reach, ChainInv
  <2>2. outcome[pay[r]] \in {"ok", "aborted"}
    BY <1>0, <2>1 DEF Executed, ChainTypeOK, Outcomes
  <2>3. CASE outcome[pay[r]] = "ok"
    BY <1>2, <2>3 DEF Delivered, Return, SettleHeard, NoAnswer
  <2>4. CASE outcome[pay[r]] = "aborted"
    BY <1>2, <2>4 DEF Delivered, Return, SettleHeard, NoAnswer
  <2> QED BY <2>2, <2>3, <2>4
<1>3. CASE NotDelivered(r)
  BY <1>3 DEF NotDelivered, Return, SettleHeard, NoAnswer
<1>4. CASE Panic(r)
  BY <1>4 DEF Panic, SettleHeard, NoAnswer
<1> QED BY <1>1, <1>2, <1>3, <1>4 DEF Step

\* A copy is refused to the handler that presents it.
LEMMA CopySays ==
  ASSUME NEW r \in Requests, NEW p, RefuseDuplicate(r, p)
  PROVE  SettleHeard(answer') = "duplicate"
BY DEF RefuseDuplicate, SettleHeard, NoAnswer

-----------------------------------------------------------------------------
(* What the handlers are is kept *)

\* The handlers after a step in which h becomes hd, and no call ends.
LEMMA OneMoves ==
  ASSUME BaseInv, NEW h \in Handlers, NEW hd \in HandlerStates,
         handler' = [handler EXCEPT ![h] = hd],
         hd.stage = "free" <=> hd.pay = NoPayment,
         hd.call # NoRequest => /\ hd.stage \in {"settle", "again"}
                                /\ phase[hd.call] = Idle
                                /\ pay'[hd.call] = hd.pay,
         \A r \in Requests : phase[r] # Idle => pay'[r] = pay[r]
  PROVE  CallsInv' /\ handler' \in [Handlers -> HandlerStates]
<1>1. handler \in [Handlers -> HandlerStates]
  BY HandlerType DEF BaseInv
<1>2. ASSUME NEW g \in Handlers, handler[g].call # NoRequest
      PROVE  /\ handler[g].call \in Requests /\ phase[handler[g].call] # Idle
             /\ pay'[handler[g].call] = handler[g].pay
  <2>1. handler[g].call \in Requests /\ pay[handler[g].call] = handler[g].pay
    BY <1>1, <1>2 DEF BaseInv, CallsInv, HandlerStates
  <2>2. handler[g].pay # NoPayment
    BY <1>2 DEF BaseInv, CallsInv
  <2>3. phase[handler[g].call] # Idle
    BY <2>1, <2>2 DEF BaseInv, PromiseInv, SettleInv, TypeInv, RequestOK
  <2> QED BY <2>1, <2>3
<1> QED BY <1>1, <1>2 DEF CallsInv, BaseInv

\* The handlers in the calls that end hear what becomes of their payments.
LEMMA ManyTold ==
  ASSUME BaseInv, NEW calls \in SUBSET Requests, NEW said \in Replies,
         handler' = Told(calls, said), \A r \in Requests \ calls : pay'[r] = pay[r]
  PROVE  CallsInv' /\ handler' \in [Handlers -> HandlerStates]
<1>1. handler \in [Handlers -> HandlerStates]
  BY HandlerType DEF BaseInv
<1>2. ASSUME NEW h \in Handlers
      PROVE  /\ handler'[h] \in HandlerStates
             /\ \/ handler'[h] = handler[h] /\ handler[h].call \notin calls
                \/ /\ handler'[h].call = NoRequest
                   /\ handler'[h].pay = handler[h].pay
                   /\ handler'[h].stage # "free"
                   /\ handler[h].pay # NoPayment
  <2>1. CASE handler[h].call \in calls
    <3>1. handler[h].call # NoRequest
      BY <2>1, SaleAssumption
    <3>2. handler[h].pay # NoPayment
      BY <3>1 DEF BaseInv, CallsInv
    <3> QED BY <1>1, <2>1, <3>2, AfterFields DEF Told
  <2>2. CASE handler[h].call \notin calls
    BY <1>1, <2>2 DEF Told
  <2> QED BY <2>1, <2>2
<1>3. handler' \in [Handlers -> HandlerStates]
  BY <1>2 DEF Told
<1>4. \A h \in Handlers : handler'[h].call # NoRequest =>
        /\ handler'[h] = handler[h]
        /\ pay'[handler[h].call] = pay[handler[h].call]
  <2> TAKE h \in Handlers
  <2> HAVE handler'[h].call # NoRequest
  <2>1. handler'[h] = handler[h] /\ handler[h].call \in Requests \ calls
    BY <1>1, <1>2 DEF HandlerStates
  <2> QED BY <2>1
<1>5. \A h \in Handlers : handler'[h].stage = "free" <=> handler'[h].pay = NoPayment
  BY <1>2 DEF BaseInv, CallsInv
<1> QED BY <1>3, <1>4, <1>5 DEF CallsInv, BaseInv

LEMMA HandlersNext ==
  BaseInv /\ [SaleNext]_allVars => CallsInv' /\ handler' \in [Handlers -> HandlerStates]
<1> SUFFICES ASSUME BaseInv, [SaleNext]_allVars
             PROVE  CallsInv' /\ handler' \in [Handlers -> HandlerStates]
  OBVIOUS
<1>0. /\ handler \in [Handlers -> HandlerStates]
      /\ TypeInv /\ phase \in [Requests -> Phases]
      /\ pay \in [Requests -> Payments \cup {NoPayment}]
  BY HandlerType DEF BaseInv, PromiseInv, SettleInv, TypeInv, TypeOK
<1>1. ASSUME UNCHANGED <<handler, pay>> PROVE CallsInv' /\ handler' \in [Handlers -> HandlerStates]
  BY <1>0, <1>1 DEF BaseInv, CallsInv
<1>2. ASSUME NEW h \in Handlers, NEW p \in Payments, Arrives(h, p), UNCHANGED pay
      PROVE  CallsInv' /\ handler' \in [Handlers -> HandlerStates]
  <2> DEFINE hd == [FreeHandler EXCEPT !.stage = "verify", !.pay = p]
  <2>1. /\ hd \in HandlerStates /\ hd.stage = "verify" /\ hd.pay = p
        /\ hd.call = NoRequest /\ p # NoPayment
        /\ handler' = [handler EXCEPT ![h] = hd]
    BY <1>2, FacilitatorAssumption DEF FreeHandler, HandlerStates, Stages, Arrives
  <2> QED BY <1>2, <2>1, OneMoves
<1>3. ASSUME NEW h \in Handlers, Verify(h)
      PROVE  CallsInv' /\ handler' \in [Handlers -> HandlerStates]
  <2>1. handler[h].pay # NoPayment /\ handler[h].call = NoRequest
    BY <1>0, <1>3 DEF Verify, BaseInv, CallsInv
  <2>2. handler'[h] \in HandlerStates /\ handler' = [handler EXCEPT ![h] = handler'[h]]
    BY <1>0, <1>3 DEF Verify, HandlerStates, Stages, Replies
  <2>3. handler'[h].stage # "free" /\ handler'[h].pay # NoPayment /\ handler'[h].call = NoRequest
    BY <1>0, <1>3, <2>1 DEF Verify, HandlerStates
  <2> QED BY <1>3, <2>2, <2>3, OneMoves DEF Verify, FacilitatorRests
<1>4. ASSUME NEW h \in Handlers, CallSettle(h)
      PROVE  CallsInv' /\ handler' \in [Handlers -> HandlerStates]
  <2>0. handler[h].pay # NoPayment /\ handler[h].pay \in Payments
    BY <1>4, PaidForPayment DEF CallSettle
  <2>1. ASSUME NEW r \in Requests, Claim(r, handler[h].pay),
               handler' = [handler EXCEPT ![h].call = r]
        PROVE  CallsInv' /\ handler' \in [Handlers -> HandlerStates]
    <3>1. handler'[h] \in HandlerStates /\ handler' = [handler EXCEPT ![h] = handler'[h]]
      BY <1>0, <2>1 DEF HandlerStates
    <3>2. /\ handler'[h].stage = handler[h].stage /\ handler'[h].pay = handler[h].pay
          /\ handler'[h].call = r
      BY <1>0, <2>1 DEF HandlerStates
    <3>3. /\ phase[r] = Idle /\ pay'[r] = handler[h].pay
          /\ \A q \in Requests : phase[q] # Idle => pay'[q] = pay[q]
      BY <1>0, <2>1 DEF Claim
    <3> QED BY <1>4, <2>0, <3>1, <3>2, <3>3, OneMoves DEF CallSettle
  <2>2. ASSUME NEW said \in Replies, UNCHANGED pay,
               handler' = [handler EXCEPT ![h] = After(@, said)]
        PROVE  CallsInv' /\ handler' \in [Handlers -> HandlerStates]
    <3> DEFINE hd == After(handler[h], said)
    <3>1. /\ hd \in HandlerStates /\ hd.call = NoRequest /\ hd.pay = handler[h].pay
          /\ hd.stage # "free"
      BY <1>0, AfterFields
    <3>2. handler' = [handler EXCEPT ![h] = hd]
      BY <2>2
    <3> QED BY <2>0, <2>2, <3>1, <3>2, OneMoves
  <2>3. "duplicate" \in Replies /\ "error" \in Replies
    BY DEF Replies
  <2>4. ASSUME NEW r \in Requests, RefuseDuplicate(r, handler[h].pay)
        PROVE  UNCHANGED pay /\ SettleHeard(answer') = "duplicate"
    BY <2>4, CopySays DEF RefuseDuplicate
  <2> QED BY <1>4, <2>1, <2>2, <2>3, <2>4 DEF CallSettle, FacilitatorRests
<1>5. ASSUME NEW r \in Requests, SettleMoves(r)
      PROVE  CallsInv' /\ handler' \in [Handlers -> HandlerStates]
  <2>0. Serves[r] \in Facilitators
    BY FacilitatorAssumption
  <2>1. \A q \in Requests : pay'[q] = pay[q] \/ (q = r /\ phase'[r] = Idle)
    BY <1>0, <1>5, StepEndsOrKeeps DEF SettleMoves, Ends
  <2>2. CASE phase'[r] = Idle
    <3>1. SettleHeard(answer') \in Replies
      BY <1>5, <2>2, SettleSays DEF SettleMoves, Replies
    <3> QED BY <1>5, <2>1, <2>2, <3>1, ManyTold DEF SettleMoves
  <2>3. CASE phase'[r] # Idle
    <3>1. UNCHANGED pay
      BY <1>0, <1>5, <2>3, StepEndsOrKeeps DEF SettleMoves, Ends
    <3> QED BY <1>1, <1>5, <2>3, <3>1 DEF SettleMoves
  <2> QED BY <2>2, <2>3
<1>6. ASSUME NEW r \in Requests, SettleUnheard(r)
      PROVE  CallsInv' /\ handler' \in [Handlers -> HandlerStates]
  <2>1. "error" \in Replies
    BY DEF Replies
  <2> QED BY <1>6, <2>1, ManyTold DEF SettleUnheard, End
<1>7. ASSUME NEW f \in Facilitators, FacilitatorRestarts(f)
      PROVE  CallsInv' /\ handler' \in [Handlers -> HandlerStates]
  <2> DEFINE cut == {r \in Requests : Serves[r] = f}
  <2>1. "error" \in Replies /\ cut \in SUBSET Requests
    BY DEF Replies
  <2>2. \A r \in Requests \ cut : pay'[r] = pay[r]
    BY <1>7 DEF FacilitatorRestarts, RestartProcess
  <2>3. handler' = Told(cut, "error")
    BY <1>7 DEF FacilitatorRestarts
  <2> HIDE DEF cut
  <2> QED BY <2>1, <2>2, <2>3, ManyTold
<1>8. ASSUME NEW h \in Handlers, Answer(h)
      PROVE  CallsInv' /\ handler' \in [Handlers -> HandlerStates]
  <2>1. handler[h].pay # NoPayment /\ handler[h].call = NoRequest
    BY <1>0, <1>8 DEF Answer, BaseInv, CallsInv
  <2>2. /\ handler'[h] \in HandlerStates /\ handler' = [handler EXCEPT ![h] = handler'[h]]
        /\ handler'[h].call = NoRequest
        /\ handler'[h].stage = "free" <=> handler'[h].pay = NoPayment
    <3>1. FreeHandler \in HandlerStates /\ FreeHandler.call = NoRequest
          /\ FreeHandler.stage = "free" /\ FreeHandler.pay = NoPayment
      BY DEF FreeHandler, HandlerStates, Stages
    <3>2. /\ [handler[h] EXCEPT !.stage = "record"] \in HandlerStates
          /\ [handler[h] EXCEPT !.stage = "record"].call = NoRequest
          /\ [handler[h] EXCEPT !.stage = "record"].stage = "record"
          /\ [handler[h] EXCEPT !.stage = "record"].pay # NoPayment
      BY <1>0, <2>1 DEF HandlerStates, Stages
    <3>3. /\ handler'[h] = FreeHandler \/ handler'[h] = [handler[h] EXCEPT !.stage = "record"]
          /\ handler' = [handler EXCEPT ![h] = handler'[h]]
      BY <1>0, <1>8 DEF Answer
    <3> HIDE DEF FreeHandler
    <3> QED BY <3>1, <3>2, <3>3
  <2> QED BY <1>8, <2>2, OneMoves DEF Answer, FacilitatorRests
<1>9. ASSUME NEW h \in Handlers, Record(h)
      PROVE  CallsInv' /\ handler' \in [Handlers -> HandlerStates]
  <2>1. /\ FreeHandler \in HandlerStates /\ FreeHandler.call = NoRequest
        /\ FreeHandler.stage = "free" /\ FreeHandler.pay = NoPayment
    BY DEF FreeHandler, HandlerStates, Stages
  <2> QED BY <1>9, <2>1, OneMoves DEF Record, FacilitatorRests
<1>10. ASSUME NEW h \in Handlers, NEW p \in Payments,
              WalletPays(h, p) \/ TerminalPays(h, p) \/ Resend(h, p)
       PROVE  Arrives(h, p) /\ UNCHANGED pay
  BY <1>10 DEF WalletPays, TerminalPays, Resend, FacilitatorRests
<1>11. CASE ChainMoves
  BY <1>1, <1>11 DEF ChainMoves, ChainStep, saleVars
<1>12. ASSUME NEW p \in Payments, LoseAnswer(p) PROVE UNCHANGED <<handler, pay>>
  BY <1>12 DEF LoseAnswer, FacilitatorRests
<1>13. CASE Click \/ Decline \/ PageSteps \/ LookupFails \/ Reload
  BY <1>1, <1>13 DEF Click, Decline, PageSteps, PageHears, Ask, AnswerLookup, HearLookup,
                     LookupFails, Reload, FacilitatorRests
<1>14. CASE UNCHANGED allVars
  BY <1>1, <1>14 DEF allVars, vars, facVars, saleVars
<1> QED BY <1>1, <1>2, <1>3, <1>4, <1>5, <1>6, <1>7, <1>8, <1>9, <1>10, <1>11, <1>12, <1>13, <1>14
        DEF SaleNext, Serve

-----------------------------------------------------------------------------
(* The types of the rest, and BaseInv of every state *)

\* The book once a payment is recorded: the page's token has that one, or the one
\* it had.
LEMMA BookRecorded ==
  ASSUME book \in Book!Books, NEW p \in Payments, book' \in Book!Recorded(book, Tab, p)
  PROVE  /\ book' \in Book!Books
         /\ book'[Tab] # NoPayment
         /\ \/ book' = book
            \/ /\ book'[Tab] = [buy |-> p, age |-> 0]
               /\ ~Book!Findable(book, Tab)
<1>1. CASE Book!Findable(book, Tab)
  BY <1>1 DEF Book!Findable, Book!Live, Book!Held, Book!Recorded
<1>2. CASE ~Book!Findable(book, Tab)
  <2>1. PICK room \in Book!MakeRoom(book) : book' = [room EXCEPT ![Tab] = [buy |-> p, age |-> 0]]
    BY <1>2 DEF Book!Recorded
  <2>2. room \in Book!Books
    BY <2>1 DEF Book!MakeRoom, Book!Books, Book!Oldest, Book!Live, Book!Held
  <2>3. [buy |-> p, age |-> 0] \in Book!Visit
    BY DEF Book!Visit
  <2>4. book' \in Book!Books /\ book'[Tab] = [buy |-> p, age |-> 0]
    BY <2>1, <2>2, <2>3 DEF Book!Books
  <2> QED BY <1>2, <2>3, <2>4, SaleAssumption
<1> QED BY <1>1, <1>2

LEMMA FoundIsHeld ==
  ASSUME BaseInv, book[Tab] # NoPayment
  PROVE  book[Tab].buy \in Payments
BY DEF BaseInv, SaleTypeOK, Book!Books, Book!Visit

\* The page, and what the buyers heard.
LEMMA PageTypeNext ==
  BaseInv /\ [SaleNext]_allVars =>
    /\ page' \in [outcome : Shown, pay : PagePayments \cup {NoPayment},
                  shows : Payments \cup {NoPayment}, asking : {"no", "asked", "found"}]
    /\ loads' \subseteq signed'
    /\ signed' \subseteq Payments
<1> SUFFICES ASSUME BaseInv, [SaleNext]_allVars
             PROVE  /\ page' \in [outcome : Shown, pay : PagePayments \cup {NoPayment},
                                  shows : Payments \cup {NoPayment},
                                  asking : {"no", "asked", "found"}]
                    /\ loads' \subseteq signed'
                    /\ signed' \subseteq Payments
  OBVIOUS
<1>0. SaleTypeOK /\ FoundInv /\ PagePayments \subseteq Payments
  BY SaleAssumption DEF BaseInv
<1>1. CASE UNCHANGED <<page, loads, signed>>
  BY <1>0, <1>1 DEF SaleTypeOK
<1>2. ASSUME NEW h \in Handlers, NEW p \in Payments, WalletPays(h, p) \/ TerminalPays(h, p)
      PROVE  /\ page' = page \/ (p \in PagePayments /\ page' = [page EXCEPT !.pay = p])
             /\ loads' \subseteq signed'
             /\ signed' \subseteq Payments
  BY <1>0, <1>2 DEF WalletPays, TerminalPays, SaleTypeOK
<1>3. CASE PageHears
  BY <1>0, <1>3 DEF PageHears, OutcomeOf, Shown, SaleTypeOK
<1>4. CASE HearLookup
  <2>1. book[Tab].buy \in Payments
    BY <1>0, <1>4, FoundIsHeld DEF HearLookup, FoundInv
  <2> QED BY <1>0, <1>4, <2>1 DEF HearLookup, Shown, SaleTypeOK
<1>5. CASE Click \/ Decline \/ Ask \/ AnswerLookup \/ LookupFails
  BY <1>0, <1>5 DEF Click, Decline, Ask, AnswerLookup, LookupFails, Shown, SaleTypeOK
<1>6. CASE Reload
  BY <1>0, <1>6 DEF Reload, FreshPage, Shown, SaleTypeOK
<1>7. ASSUME NEW h \in Handlers, Serve(h) PROVE UNCHANGED <<page, loads, signed>>
  BY <1>7 DEF Serve, Verify, CallSettle, Answer, Record
<1>8. ASSUME NEW h \in Handlers, NEW p \in Payments, Resend(h, p)
      PROVE  UNCHANGED <<page, loads, signed>>
  BY <1>8 DEF Resend
<1>8a. ASSUME NEW p \in Payments, LoseAnswer(p) PROVE UNCHANGED <<page, loads, signed>>
  BY <1>8a DEF LoseAnswer
<1>9. ASSUME NEW r \in Requests, SettleMoves(r) \/ SettleUnheard(r)
      PROVE  UNCHANGED <<page, loads, signed>>
  BY <1>9 DEF SettleMoves, SettleUnheard
<1>10. ASSUME NEW f \in Facilitators, FacilitatorRestarts(f)
       PROVE  UNCHANGED <<page, loads, signed>>
  BY <1>10 DEF FacilitatorRestarts
<1>11. ChainMoves \/ UNCHANGED allVars => UNCHANGED <<page, loads, signed>>
  BY DEF ChainMoves, allVars, saleVars
<1> QED BY <1>0, <1>1, <1>2, <1>3, <1>4, <1>5, <1>6, <1>7, <1>8, <1>8a, <1>9, <1>10, <1>11
        DEF SaleNext, PageSteps, SaleTypeOK

LEMMA HeardTypeNext ==
  BaseInv /\ [SaleNext]_allVars =>
    /\ waits' \in [Payments -> Handlers \cup {NoHandler}]
    /\ heard' \in [Payments -> Replies \cup {"none", "lost"}]
    /\ readings' \in [Payments -> Nat]
<1> SUFFICES ASSUME BaseInv, [SaleNext]_allVars
             PROVE  /\ waits' \in [Payments -> Handlers \cup {NoHandler}]
                    /\ heard' \in [Payments -> Replies \cup {"none", "lost"}]
                    /\ readings' \in [Payments -> Nat]
  OBVIOUS
<1>0. SaleTypeOK
  BY DEF BaseInv
<1>1. CASE UNCHANGED <<waits, heard, readings>>
  BY <1>0, <1>1 DEF SaleTypeOK
<1>2. ASSUME NEW h \in Handlers, NEW p \in Payments, Arrives(h, p), UNCHANGED <<heard, readings>>
      PROVE  /\ waits' \in [Payments -> Handlers \cup {NoHandler}]
             /\ heard' \in [Payments -> Replies \cup {"none", "lost"}]
             /\ readings' \in [Payments -> Nat]
  BY <1>0, <1>2 DEF Arrives, SaleTypeOK
<1>3. ASSUME NEW h \in Handlers, Answer(h)
      PROVE  /\ waits' \in [Payments -> Handlers \cup {NoHandler}]
             /\ heard' \in [Payments -> Replies \cup {"none", "lost"}]
             /\ readings' \in [Payments -> Nat]
  <2>1. handler[h].pay \in Payments /\ handler[h].reply \in Replies \cup {"none"}
    BY <1>3, HandlerType, PaidForPayment DEF Answer, HandlerStates, BaseInv
  <2>2. /\ waits' \in [Payments -> Handlers \cup {NoHandler}]
        /\ heard' \in [Payments -> Replies \cup {"none", "lost"}]
    BY <1>0, <1>3, <2>1 DEF Answer, SaleTypeOK
  <2>3. readings' \in [Payments -> Nat]
    <3>1. readings \in [Payments -> Nat] /\ readings[handler[h].pay] + 1 \in Nat
      BY <1>0, <2>1 DEF SaleTypeOK
    <3> QED BY <1>3, <3>1 DEF Answer
  <2> QED BY <2>2, <2>3
<1>4. ASSUME NEW p \in Payments, LoseAnswer(p)
      PROVE  /\ waits' \in [Payments -> Handlers \cup {NoHandler}]
             /\ heard' \in [Payments -> Replies \cup {"none", "lost"}]
             /\ readings' \in [Payments -> Nat]
  BY <1>0, <1>4 DEF LoseAnswer, SaleTypeOK
<1>5. CASE Reload
  BY <1>0, <1>5 DEF Reload, SaleTypeOK
<1>6. ASSUME NEW h \in Handlers, NEW p \in Payments,
             WalletPays(h, p) \/ TerminalPays(h, p) \/ Resend(h, p)
      PROVE  Arrives(h, p) /\ UNCHANGED <<heard, readings>>
  BY <1>6 DEF WalletPays, TerminalPays, Resend
<1>7. ASSUME NEW h \in Handlers, Verify(h) \/ CallSettle(h) \/ Record(h)
      PROVE  UNCHANGED <<waits, heard, readings>>
  BY <1>7 DEF Verify, CallSettle, Record
<1>8. ASSUME NEW r \in Requests, SettleMoves(r) \/ SettleUnheard(r)
      PROVE  UNCHANGED <<waits, heard, readings>>
  BY <1>8 DEF SettleMoves, SettleUnheard
<1>9. ASSUME NEW f \in Facilitators, FacilitatorRestarts(f)
      PROVE  UNCHANGED <<waits, heard, readings>>
  BY <1>9 DEF FacilitatorRestarts
<1>10. Click \/ Decline \/ PageSteps \/ LookupFails \/ ChainMoves \/ UNCHANGED allVars
       => UNCHANGED <<waits, heard, readings>>
  BY DEF Click, Decline, PageSteps, PageHears, Ask, AnswerLookup, HearLookup, LookupFails,
         ChainMoves, allVars, saleVars
<1> QED BY <1>1, <1>2, <1>3, <1>4, <1>5, <1>6, <1>7, <1>8, <1>9, <1>10 DEF SaleNext, Serve

\* The book, and the payments a node may hold.
LEMMA BookTypeNext ==
  BaseInv /\ [SaleNext]_allVars =>
    /\ book' \in Book!Books
    /\ book[Tab] # NoPayment => book'[Tab] # NoPayment
    /\ loose' \subseteq Payments
    /\ FoundInv'
<1> SUFFICES ASSUME BaseInv, [SaleNext]_allVars
             PROVE  /\ book' \in Book!Books
                    /\ book[Tab] # NoPayment => book'[Tab] # NoPayment
                    /\ loose' \subseteq Payments
                    /\ FoundInv'
  OBVIOUS
<1>0. /\ book \in Book!Books /\ loose \subseteq Payments /\ FoundInv
      /\ TypeInv /\ page \in [outcome : Shown, pay : PagePayments \cup {NoPayment},
               shows : Payments \cup {NoPayment}, asking : {"no", "asked", "found"}]
  BY DEF BaseInv, SaleTypeOK, PromiseInv, SettleInv
<1>1. CASE UNCHANGED <<book, loose>> /\ page'.asking \in {page.asking, "no", "asked"}
  BY <1>0, <1>1 DEF FoundInv
<1>2. ASSUME NEW h \in Handlers, Record(h)
      PROVE  /\ book' \in Book!Books
             /\ book[Tab] # NoPayment => book'[Tab] # NoPayment
             /\ loose' \subseteq Payments
             /\ FoundInv'
  <2>1. handler[h].pay \in Payments
    BY <1>2, PaidForPayment DEF Record
  <2> QED BY <1>0, <1>2, <2>1, BookRecorded DEF Record, FoundInv
<1>3. ASSUME NEW r \in Requests, SettleMoves(r) PROVE loose' \subseteq Payments
  <2>1. phase[r] = "sending" => pay[r] \in Payments
    BY <1>0 DEF TypeInv, TypeOK, RequestOK, Idle
  <2> QED BY <1>0, <1>3, <2>1 DEF SettleMoves
<1>4. ASSUME NEW f \in Facilitators, FacilitatorRestarts(f) PROVE loose' \subseteq Payments
  <2>1. \A r \in Requests : phase[r] = "sending" => pay[r] \in Payments
    BY <1>0 DEF TypeInv, TypeOK, RequestOK, Idle
  <2> QED BY <1>0, <1>4, <2>1 DEF FacilitatorRestarts
<1>5. CASE UNCHANGED <<book, page>> /\ loose' \subseteq Payments
  BY <1>0, <1>5 DEF FoundInv
<1>6. CASE AnswerLookup
  <2>1. Book!Findable(book, Tab) => book[Tab] # NoPayment
    BY DEF Book!Findable, Book!Live, Book!Held
  <2> QED BY <1>0, <1>6, <2>1 DEF AnswerLookup, FoundInv
<1>7. CASE Click \/ Decline \/ PageHears \/ Ask \/ HearLookup \/ LookupFails \/ Reload
  <2>1. UNCHANGED <<book, loose>>
    BY <1>7 DEF Click, Decline, PageHears, Ask, HearLookup, LookupFails, Reload
  <2>2. page'.asking \in {page.asking, "no", "asked"}
    <3>1. CASE Click \/ Decline \/ Ask \/ LookupFails
      BY <1>0, <3>1 DEF Click, Decline, Ask, LookupFails
    <3>2. CASE PageHears
      BY <1>0, <3>2 DEF PageHears
    <3>3. CASE HearLookup
      BY <1>0, <3>3 DEF HearLookup, MayShow
    <3>4. CASE Reload
      BY <3>4 DEF Reload, FreshPage
    <3> QED BY <1>7, <3>1, <3>2, <3>3, <3>4
  <2> QED BY <1>1, <2>1, <2>2
<1>8. ASSUME NEW h \in Handlers, NEW p \in Payments,
             WalletPays(h, p) \/ TerminalPays(h, p) \/ Resend(h, p)
      PROVE  UNCHANGED <<book, loose>> /\ page'.asking = page.asking
  BY <1>0, <1>8 DEF WalletPays, TerminalPays, Resend
<1>9. ASSUME NEW h \in Handlers, Verify(h) \/ CallSettle(h) \/ Answer(h)
      PROVE  UNCHANGED <<book, loose, page>>
  BY <1>9 DEF Verify, CallSettle, Answer
<1>10. ASSUME NEW p \in Payments, LoseAnswer(p) PROVE UNCHANGED <<book, loose, page>>
  BY <1>10 DEF LoseAnswer
<1>11. ASSUME NEW r \in Requests, SettleUnheard(r) PROVE UNCHANGED <<book, loose, page>>
  BY <1>11 DEF SettleUnheard
<1>12. ChainMoves \/ UNCHANGED allVars => UNCHANGED <<book, loose, page>>
  BY DEF ChainMoves, allVars, saleVars
<1>13. ASSUME NEW r \in Requests, SettleMoves(r) PROVE UNCHANGED <<book, page>>
  BY <1>13 DEF SettleMoves
<1>14. ASSUME NEW f \in Facilitators, FacilitatorRestarts(f) PROVE UNCHANGED <<book, page>>
  BY <1>14 DEF FacilitatorRestarts
<1> QED BY <1>0, <1>1, <1>2, <1>3, <1>4, <1>5, <1>6, <1>7, <1>8, <1>9, <1>10, <1>11, <1>12,
           <1>13, <1>14 DEF SaleNext, Serve, PageSteps

LEMMA BaseNext == BaseInv /\ [SaleNext]_allVars => BaseInv'
<1> SUFFICES ASSUME BaseInv, [SaleNext]_allVars PROVE BaseInv'
  OBVIOUS
<1>1. Moves
  BY SaleMoves
<1>2. PromiseInv'
  BY <1>1, PromiseInvNext DEF BaseInv
<1>3. handler' \in [Handlers -> [stage : Stages, pay : Payments \cup {NoPayment},
                                 call : Requests \cup {NoRequest}, reply : Replies \cup {"none"}]]
  BY HandlersNext DEF HandlerStates
<1>4. SaleTypeOK'
  BY <1>3, PageTypeNext, HeardTypeNext, BookTypeNext DEF SaleTypeOK
<1> QED BY <1>2, <1>4, HandlersNext, BookTypeNext DEF BaseInv

LEMMA BaseInit == SaleInit => BaseInv
<1> SUFFICES ASSUME SaleInit PROVE BaseInv
  OBVIOUS
<1>1. PromiseInv
  BY PromiseInvInit DEF SaleInit
<1>2. FreeHandler \in HandlerStates /\ FreeHandler.stage = "free"
      /\ FreeHandler.pay = NoPayment /\ FreeHandler.call = NoRequest
  BY DEF FreeHandler, HandlerStates, Stages
<1>3. handler \in [Handlers -> HandlerStates] /\ CallsInv
  BY <1>2 DEF SaleInit, CallsInv
<1>4. FoundInv
  BY DEF SaleInit, FreshPage, FoundInv
<1>5. book \in Book!Books
  BY DEF SaleInit, Book!EmptyBook, Book!Books
<1>6. SaleTypeOK
  BY <1>3, <1>5 DEF SaleTypeOK, SaleInit, FreshPage, HandlerStates, Shown
<1> QED BY <1>1, <1>3, <1>4, <1>6 DEF BaseInv

LEMMA BaseInvariant == SaleSpec => []BaseInv
BY BaseInit, BaseNext, PTL DEF SaleSpec

(***************************************************************************)
(* The sale keeps to its states: a handler is for a payment from its arrival *)
(* to its answer and in one call at most, and whatever interleaving of        *)
(* buyers, pages, handlers and facilitators, the variables keep their types.  *)
(***************************************************************************)
THEOREM SaleTypeCorrect == SaleSpec => []SaleTypeOK
<1>1. BaseInv => SaleTypeOK
  BY DEF BaseInv
<1> QED BY <1>1, BaseInvariant, PTL

-----------------------------------------------------------------------------
(* A reading is shown, and sold, for a payment the chain executed *)

\* What a block made of a payment stays, and what was reported settled stays so.
LEMMA OutcomeStays ==
  ASSUME PromiseInv, Moves, NEW p \in Executed
  PROVE  outcome'[p] = outcome[p]
<1>0. ChainTypeOK /\ ChainInv /\ TypeInv
  BY DEF PromiseInv, SettleInv, TypeInv, TypeOK
<1>1. ASSUME NEW r \in Requests, Step(r) \/ Panic(r) PROVE UNCHANGED outcome
  BY <1>0, <1>1, StepsOnChain DEF chainVars
<1>2. CASE ChainStep
  <2>1. ASSUME NEW n \in Nodes, NEW q \in Payments, Commit(n, q)
        PROVE  outcome'[p] = outcome[p]
    <3>1. Rivals(q) \cap Executed = {} /\ q \in Rivals(q)
      BY <1>0, <2>1, CommitExecutes DEF Rivals
    <3> QED BY <1>0, <2>1, <3>1 DEF Commit, ChainTypeOK
  <2> QED BY <1>2, <2>1 DEF ChainStep, ChainNext, Hear, CatchUp, RestartNode
<1>3. CASE UNCHANGED chainVars
  BY <1>3 DEF chainVars
<1> QED BY <1>1, <1>2, <1>3
        DEF Moves, Rests, Present, Claim, RefuseDuplicate, End, RestartProcess, Tick

LEMMA PaidGrows ==
  ASSUME PromiseInv, Moves
  PROVE  /\ everPaid \subseteq everPaid'
         /\ \A p \in everPaid' \ everPaid : p \in Payments /\ outcome[p] = "ok"
<1>1. ASSUME NEW r \in Requests, Delivered(r)
      PROVE  /\ everPaid \subseteq everPaid'
             /\ \A p \in everPaid' \ everPaid : p \in Payments /\ outcome[p] = "ok"
  <2>1. pay[r] \in Payments
    BY <1>1 DEF Delivered, Delivering, PromiseInv, SettleInv, TypeInv, TypeOK, RequestOK, Idle
  <2> QED BY <1>1, <2>1 DEF Delivered
<1>2. ASSUME NEW r \in Requests, Step(r) \/ Panic(r), ~Delivered(r) PROVE UNCHANGED everPaid
  BY <1>2 DEF Step, ReadAccount, Simulate, StartBroadcast, Broadcast, Admitted, RefusedByNode,
              Unanswered, NotDelivered, Panic, GiveBack, Proceed, Return
<1> QED BY <1>1, <1>2 DEF Moves, Rests, Present, Claim, RefuseDuplicate, End, RestartProcess,
                          Tick, ChainStep

\* The seller has had a receipt for p, and has its reading to answer or its visit
\* to record.
Receipt(h) ==
  (handler[h].stage = "answer" /\ handler[h].reply = "settled") \/ handler[h].stage = "record"

\* Whoever was told that a payment settled, the facilitator returned success for it.
PaidInv ==
  /\ \A p \in everPaid : outcome[p] = "ok"
  /\ \A h \in Handlers : Receipt(h) => handler[h].pay \in everPaid
  /\ \A p \in Payments : heard[p] = "settled" \/ readings[p] > 0 => p \in everPaid
  /\ book[Tab] # NoPayment => book[Tab].age = 0 /\ book[Tab].buy \in everPaid
  /\ page.outcome = "paid" =>
       /\ page.shows \in everPaid
       /\ page.shows \in Terminals => book[Tab] # NoPayment /\ book[Tab].buy = page.shows

\* The handlers that hear say what the facilitator said.
LEMMA ReceiptTold ==
  ASSUME BaseInv, NEW calls \in SUBSET Requests, NEW said \in Replies,
         handler' = Told(calls, said), NEW h \in Handlers, Receipt(h)'
  PROVE  /\ handler'[h].pay = handler[h].pay
         /\ Receipt(h) \/ (handler[h].call \in calls /\ said = "settled")
<1>1. handler[h] \in HandlerStates
  BY HandlerType DEF BaseInv
<1> QED BY <1>1, AfterFields DEF Told, Receipt

LEMMA ReceiptsNext ==
  ASSUME BaseInv, PaidInv, [SaleNext]_allVars, NEW h \in Handlers, Receipt(h)'
  PROVE  handler'[h].pay \in everPaid'
<1>0. /\ handler \in [Handlers -> HandlerStates]
      /\ everPaid \subseteq everPaid'
      /\ Receipt(h) => handler[h].pay \in everPaid
  BY HandlerType, SaleMoves, PaidGrows DEF BaseInv, PaidInv
<1>1. CASE handler'[h] = handler[h]
  BY <1>0, <1>1 DEF Receipt
<1>2. ASSUME NEW g \in Handlers, Verify(g) PROVE handler'[h] = handler[h]
  BY <1>0, <1>2 DEF Verify, Receipt, HandlerStates
<1>3. ASSUME NEW g \in Handlers, CallSettle(g) PROVE handler'[h] = handler[h]
  <2>1. ASSUME NEW r \in Requests, handler' = [handler EXCEPT ![g].call = r]
        PROVE  handler'[h] = handler[h]
    BY <1>0, <1>3, <2>1 DEF CallSettle, Receipt
  <2>2. ASSUME NEW said \in Replies, said # "settled",
               handler' = [handler EXCEPT ![g] = After(@, said)]
        PROVE  handler'[h] = handler[h]
    BY <1>0, <2>2, AfterFields DEF Receipt
  <2>3. \A r \in Requests : RefuseDuplicate(r, handler[g].pay) => SettleHeard(answer') = "duplicate"
    BY CopySays
  <2>4. "duplicate" \in Replies /\ "error" \in Replies
    BY DEF Replies
  <2> QED BY <1>3, <2>1, <2>2, <2>3, <2>4 DEF CallSettle
<1>4. ASSUME NEW r \in Requests, SettleMoves(r) PROVE handler'[h].pay \in everPaid'
  <2>1. CASE phase'[r] = Idle
    <3> DEFINE said == SettleHeard(answer')
    <3>1. /\ said \in Replies
          /\ said = "settled" => pay[r] \in everPaid'
      BY <1>4, <2>1, SettleSays DEF SettleMoves, Replies
    <3>2. handler' = Told({r}, said)
      BY <1>4, <2>1 DEF SettleMoves
    <3> HIDE DEF said
    <3>3. /\ handler'[h].pay = handler[h].pay
          /\ Receipt(h) \/ (handler[h].call = r /\ said = "settled")
      BY <3>1, <3>2, ReceiptTold
    <3>4. handler[h].call = r => handler[h].pay = pay[r]
      BY SaleAssumption DEF BaseInv, CallsInv
    <3> QED BY <1>0, <3>1, <3>3, <3>4
  <2> QED BY <1>1, <1>4, <2>1 DEF SettleMoves
<1>5. ASSUME NEW calls \in SUBSET Requests, handler' = Told(calls, "error")
      PROVE  handler'[h].pay \in everPaid'
  BY <1>0, <1>5, ReceiptTold DEF Replies
<1>6. ASSUME NEW r \in Requests, SettleUnheard(r) PROVE handler'[h].pay \in everPaid'
  BY <1>5, <1>6 DEF SettleUnheard
<1>7. ASSUME NEW f \in Facilitators, FacilitatorRestarts(f) PROVE handler'[h].pay \in everPaid'
  BY <1>5, <1>7 DEF FacilitatorRestarts
<1>8. ASSUME NEW g \in Handlers, Answer(g) PROVE handler'[h].pay \in everPaid'
  <2>1. CASE h = g /\ handler[h].reply = "settled" /\ handler[h].pay \in Terminals
    BY <1>0, <1>8, <2>1 DEF Answer, Receipt, HandlerStates
  <2>2. CASE h = g /\ ~(handler[h].reply = "settled" /\ handler[h].pay \in Terminals)
    BY <1>0, <1>8, <2>2 DEF Answer, Receipt, FreeHandler
  <2>3. CASE h # g
    BY <1>0, <1>1, <1>8, <2>3 DEF Answer
  <2> QED BY <2>1, <2>2, <2>3
<1>9. ASSUME NEW g \in Handlers, Record(g) PROVE handler'[h] = handler[h]
  BY <1>0, <1>9 DEF Record, Receipt, FreeHandler
<1>10. ASSUME NEW g \in Handlers, NEW p \in Payments,
              WalletPays(g, p) \/ TerminalPays(g, p) \/ Resend(g, p)
       PROVE  handler'[h] = handler[h]
  BY <1>0, <1>10 DEF WalletPays, TerminalPays, Resend, Arrives, Receipt, FreeHandler
<1>11. ASSUME NEW p \in Payments, LoseAnswer(p) PROVE handler'[h] = handler[h]
  BY <1>11 DEF LoseAnswer
<1>12. Click \/ Decline \/ PageSteps \/ LookupFails \/ Reload \/ ChainMoves \/ UNCHANGED allVars
       => UNCHANGED handler
  BY DEF Click, Decline, PageSteps, PageHears, Ask, AnswerLookup, HearLookup, LookupFails,
         Reload, ChainMoves, allVars, saleVars
<1> QED BY <1>1, <1>2, <1>3, <1>4, <1>6, <1>7, <1>8, <1>9, <1>10, <1>11, <1>12
        DEF SaleNext, Serve

LEMMA HeardPaidNext ==
  ASSUME BaseInv, PaidInv, [SaleNext]_allVars, NEW p \in Payments,
         (heard[p] = "settled" \/ readings[p] > 0)'
  PROVE  p \in everPaid'
<1>0. /\ SaleTypeOK /\ everPaid \subseteq everPaid'
      /\ heard[p] = "settled" \/ readings[p] > 0 => p \in everPaid
  BY SaleMoves, PaidGrows DEF BaseInv, PaidInv
<1>1. CASE heard'[p] \in {heard[p], "lost"} /\ readings'[p] = readings[p]
  BY <1>0, <1>1
<1>2. ASSUME NEW h \in Handlers, Answer(h) PROVE p \in everPaid'
  <2>1. CASE p = handler[h].pay /\ handler[h].reply = "settled"
    BY <1>0, <1>2, <2>1 DEF Answer, PaidInv, Receipt
  <2>2. CASE ~(p = handler[h].pay /\ handler[h].reply = "settled")
    BY <1>0, <1>2, <2>2 DEF Answer, SaleTypeOK
  <2> QED BY <2>1, <2>2
<1>3. ASSUME NEW q \in Payments, LoseAnswer(q)
      PROVE  heard'[p] \in {heard[p], "lost"} /\ readings'[p] = readings[p]
  BY <1>0, <1>3 DEF LoseAnswer, SaleTypeOK
<1>4. CASE Reload
  BY <1>1, <1>4 DEF Reload
<1>5. ASSUME NEW h \in Handlers, Verify(h) \/ CallSettle(h) \/ Record(h)
      PROVE  UNCHANGED <<heard, readings>>
  BY <1>5 DEF Verify, CallSettle, Record
<1>6. ASSUME NEW h \in Handlers, NEW q \in Payments,
             WalletPays(h, q) \/ TerminalPays(h, q) \/ Resend(h, q)
      PROVE  UNCHANGED <<heard, readings>>
  BY <1>6 DEF WalletPays, TerminalPays, Resend
<1>7. ASSUME NEW r \in Requests, SettleMoves(r) \/ SettleUnheard(r)
      PROVE  UNCHANGED <<heard, readings>>
  BY <1>7 DEF SettleMoves, SettleUnheard
<1>8. ASSUME NEW f \in Facilitators, FacilitatorRestarts(f) PROVE UNCHANGED <<heard, readings>>
  BY <1>8 DEF FacilitatorRestarts
<1>9. Click \/ Decline \/ PageSteps \/ LookupFails \/ ChainMoves \/ UNCHANGED allVars
      => UNCHANGED <<heard, readings>>
  BY DEF Click, Decline, PageSteps, PageHears, Ask, AnswerLookup, HearLookup, LookupFails,
         ChainMoves, allVars, saleVars
<1> QED BY <1>1, <1>2, <1>3, <1>4, <1>5, <1>6, <1>7, <1>8, <1>9 DEF SaleNext, Serve

\* What a step does to the page: a click begins or is given up, the page is loaded
\* anew, its payment is answered, or a lookup is; or it shows what it showed.
LEMMA PageMoves ==
  ASSUME BaseInv, [SaleNext]_allVars
  PROVE  \/ /\ page'.outcome = page.outcome /\ page'.shows = page.shows
            /\ page'.pay = page.pay \/ (page.outcome = "paying" /\ page.pay = NoPayment)
         \/ Click \/ Decline \/ PageHears \/ HearLookup \/ Reload
<1>0. page \in [outcome : Shown, pay : PagePayments \cup {NoPayment},
                shows : Payments \cup {NoPayment}, asking : {"no", "asked", "found"}]
  BY DEF BaseInv, SaleTypeOK
<1>1. ASSUME NEW h \in Handlers, NEW p \in Payments, WalletPays(h, p)
      PROVE  /\ page'.outcome = page.outcome /\ page'.shows = page.shows
             /\ page.outcome = "paying" /\ page.pay = NoPayment
  BY <1>0, <1>1 DEF WalletPays
<1>2. CASE Ask \/ AnswerLookup \/ LookupFails
  BY <1>0, <1>2 DEF Ask, AnswerLookup, LookupFails
<1>3. ASSUME NEW h \in Handlers, Serve(h) PROVE UNCHANGED page
  BY <1>3 DEF Serve, Verify, CallSettle, Answer, Record
<1>4. ASSUME NEW h \in Handlers, NEW p \in Payments, TerminalPays(h, p) \/ Resend(h, p)
      PROVE  UNCHANGED page
  BY <1>4 DEF TerminalPays, Resend
<1>5. ASSUME NEW p \in Payments, LoseAnswer(p) PROVE UNCHANGED page
  BY <1>5 DEF LoseAnswer
<1>6. ASSUME NEW r \in Requests, SettleMoves(r) \/ SettleUnheard(r) PROVE UNCHANGED page
  BY <1>6 DEF SettleMoves, SettleUnheard
<1>7. ASSUME NEW f \in Facilitators, FacilitatorRestarts(f) PROVE UNCHANGED page
  BY <1>7 DEF FacilitatorRestarts
<1>8. ChainMoves \/ UNCHANGED allVars => UNCHANGED page
  BY DEF ChainMoves, allVars, saleVars
<1> QED BY <1>1, <1>2, <1>3, <1>4, <1>5, <1>6, <1>7, <1>8 DEF SaleNext, PageSteps

\* Only recordSettled writes the book, and it keeps what the page's token holds.
LEMMA BookNext ==
  ASSUME BaseInv, PaidInv, [SaleNext]_allVars
  PROVE  /\ book'[Tab] # NoPayment => book'[Tab].age = 0 /\ book'[Tab].buy \in everPaid'
         /\ book[Tab] # NoPayment => book'[Tab] = book[Tab]
<1>0. /\ book \in Book!Books /\ everPaid \subseteq everPaid'
      /\ book[Tab] # NoPayment => book[Tab].age = 0 /\ book[Tab].buy \in everPaid
  BY SaleMoves, PaidGrows DEF BaseInv, SaleTypeOK, PaidInv
<1>1. CASE UNCHANGED book
  BY <1>0, <1>1
<1>2. ASSUME NEW h \in Handlers, Record(h)
      PROVE  /\ book'[Tab] # NoPayment => book'[Tab].age = 0 /\ book'[Tab].buy \in everPaid'
             /\ book[Tab] # NoPayment => book'[Tab] = book[Tab]
  <2>1. handler[h].pay \in everPaid /\ handler[h].pay \in Payments
    BY <1>2, PaidForPayment DEF Record, PaidInv, Receipt
  <2>2. book[Tab] # NoPayment => Book!Findable(book, Tab)
    BY <1>0 DEF Book!Findable, Book!Live, Book!Held, Book!Lapsed
  <2>3. \/ book' = book
        \/ book'[Tab] = [buy |-> handler[h].pay, age |-> 0] /\ ~Book!Findable(book, Tab)
    BY <1>0, <1>2, <2>1, BookRecorded DEF Record
  <2> QED BY <1>0, <2>1, <2>2, <2>3
<1>3. ASSUME NEW h \in Handlers, Verify(h) \/ CallSettle(h) \/ Answer(h) PROVE UNCHANGED book
  BY <1>3 DEF Verify, CallSettle, Answer
<1>4. ASSUME NEW h \in Handlers, NEW p \in Payments,
             WalletPays(h, p) \/ TerminalPays(h, p) \/ Resend(h, p)
      PROVE  UNCHANGED book
  BY <1>4 DEF WalletPays, TerminalPays, Resend
<1>5. ASSUME NEW p \in Payments, LoseAnswer(p) PROVE UNCHANGED book
  BY <1>5 DEF LoseAnswer
<1>6. ASSUME NEW r \in Requests, SettleMoves(r) \/ SettleUnheard(r) PROVE UNCHANGED book
  BY <1>6 DEF SettleMoves, SettleUnheard
<1>7. ASSUME NEW f \in Facilitators, FacilitatorRestarts(f) PROVE UNCHANGED book
  BY <1>7 DEF FacilitatorRestarts
<1>8. Click \/ Decline \/ PageSteps \/ LookupFails \/ Reload \/ ChainMoves \/ UNCHANGED allVars
      => UNCHANGED book
  BY DEF Click, Decline, PageSteps, PageHears, Ask, AnswerLookup, HearLookup, LookupFails,
         Reload, ChainMoves, allVars, saleVars
<1> QED BY <1>1, <1>2, <1>3, <1>4, <1>5, <1>6, <1>7, <1>8 DEF SaleNext, Serve

\* A page that shows a reading shows a paid one; a terminal's, the one in the book.
ShowsPaid ==
  page.outcome = "paid" =>
    /\ page.shows \in everPaid
    /\ page.shows \in Terminals => book[Tab] # NoPayment /\ book[Tab].buy = page.shows

LEMMA ShowsPaidNext == ASSUME BaseInv, PaidInv, [SaleNext]_allVars PROVE ShowsPaid'
<1>0. /\ everPaid \subseteq everPaid'
      /\ book[Tab] # NoPayment => book'[Tab] = book[Tab] /\ book[Tab].buy \in everPaid
      /\ SaleTypeOK /\ FoundInv /\ ShowsPaid
  BY SaleMoves, PaidGrows, BookNext DEF BaseInv, PaidInv, ShowsPaid
<1>1. CASE page'.outcome = page.outcome /\ page'.shows = page.shows
  BY <1>0, <1>1 DEF ShowsPaid
<1>2. CASE Click \/ Decline \/ Reload
  BY <1>0, <1>2 DEF Click, Decline, Reload, FreshPage, ShowsPaid, SaleTypeOK
<1>3. CASE PageHears
  <2>1. page.pay \in PagePayments
    BY <1>0, <1>3 DEF PageHears, SaleTypeOK
  <2>2. CASE heard[page.pay] = "settled"
    <3>1. page.pay \in everPaid
      BY <2>1, <2>2, SaleAssumption DEF PaidInv
    <3>2. page'.shows = page.pay
      BY <1>0, <1>3, <2>2 DEF PageHears, SaleTypeOK
    <3> QED BY <1>0, <2>1, <3>1, <3>2 DEF ShowsPaid, Terminals
  <2>3. CASE heard[page.pay] # "settled"
    <3>1. page'.outcome # "paid"
      BY <1>0, <1>3, <2>3 DEF PageHears, OutcomeOf, SaleTypeOK
    <3> QED BY <3>1 DEF ShowsPaid
  <2> QED BY <2>2, <2>3
<1>4. CASE HearLookup
  <2>1. book[Tab] # NoPayment
    BY <1>0, <1>4 DEF HearLookup, FoundInv
  <2>2. CASE MayShow
    BY <1>0, <1>4, <2>1, <2>2 DEF HearLookup, ShowsPaid, SaleTypeOK
  <2>3. CASE ~MayShow
    BY <1>0, <1>1, <1>4, <2>3 DEF HearLookup, SaleTypeOK
  <2> QED BY <2>2, <2>3
<1> QED BY <1>1, <1>2, <1>3, <1>4, PageMoves

LEMMA PaidInvNext == BaseInv /\ PaidInv /\ [SaleNext]_allVars => PaidInv'
<1> SUFFICES ASSUME BaseInv, PaidInv, [SaleNext]_allVars PROVE PaidInv'
  OBVIOUS
<1>1. \A p \in everPaid' : outcome'[p] = "ok"
  <2>1. \A p \in everPaid' : p \in Payments /\ outcome[p] = "ok"
    BY SaleMoves, PaidGrows DEF PaidInv, BaseInv, PromiseInv, SettleInv, TypeInv, TypeOK
  <2>2. \A p \in everPaid' : p \in Executed
    BY <2>1 DEF Executed
  <2> QED BY <2>1, <2>2, SaleMoves, OutcomeStays DEF BaseInv
<1>2. \A h \in Handlers : Receipt(h)' => handler'[h].pay \in everPaid'
  BY ReceiptsNext
<1>3. \A p \in Payments : (heard[p] = "settled" \/ readings[p] > 0)' => p \in everPaid'
  BY HeardPaidNext
<1> QED BY <1>1, <1>2, <1>3, BookNext, ShowsPaidNext DEF PaidInv, ShowsPaid

LEMMA PaidInvInit == SaleInit => PaidInv
<1> SUFFICES ASSUME SaleInit PROVE PaidInv
  OBVIOUS
<1>1. everPaid = {}
  BY DEF SaleInit, Init
<1>2. \A h \in Handlers : ~Receipt(h)
  BY DEF SaleInit, FreeHandler, Receipt
<1>3. book[Tab] = NoPayment /\ page.outcome = "none"
  BY DEF SaleInit, Book!EmptyBook, FreshPage
<1>4. \A p \in Payments : heard[p] = "none" /\ readings[p] = 0
  BY DEF SaleInit
<1> QED BY <1>1, <1>2, <1>3, <1>4 DEF PaidInv

LEMMA PaidInvariant == SaleSpec => [](BaseInv /\ PaidInv)
BY BaseInit, BaseNext, PaidInvInit, PaidInvNext, PTL DEF SaleSpec

(***************************************************************************)
(* What the page shows as sold, its own payment's reading or the one a        *)
(* lookup found, was paid for on the chain, whatever answers were lost or     *)
(* late and whenever the facilitators restarted (paywall.js, settle and       *)
(* show; visits.go, record and lookup).                                      *)
(***************************************************************************)
THEOREM ShownReadingIsPaid == SaleSpec => []ShownIsPaid
<1>1. BaseInv /\ PaidInv => ShownIsPaid
  BY DEF PaidInv, ShownIsPaid
<1> QED BY <1>1, PaidInvariant, PTL

-----------------------------------------------------------------------------
(* What the page shows of its own payment *)

\* A page that has a payment open is paying.
PageInv == page.pay # NoPayment => page.outcome = "paying"

LEMMA PageInvNext == BaseInv /\ PageInv /\ [SaleNext]_allVars => PageInv'
<1> SUFFICES ASSUME BaseInv, PageInv, [SaleNext]_allVars PROVE PageInv'
  OBVIOUS
<1>0. page \in [outcome : Shown, pay : PagePayments \cup {NoPayment},
                shows : Payments \cup {NoPayment}, asking : {"no", "asked", "found"}]
  BY DEF BaseInv, SaleTypeOK
<1>1. CASE Click \/ Decline
  BY <1>0, <1>1 DEF Click, Decline, PageInv
<1>3. CASE PageHears
  BY <1>0, <1>3 DEF PageHears, PageInv
<1>4. CASE Reload
  BY <1>4 DEF Reload, FreshPage, PageInv
<1>2. CASE HearLookup
  BY <1>0, <1>2 DEF HearLookup, MayShow, PageInv
<1> QED BY <1>1, <1>2, <1>3, <1>4, PageMoves DEF PageInv

LEMMA PageInvariant == SaleSpec => [](BaseInv /\ PageInv)
<1>1. SaleInit => PageInv
  BY DEF SaleInit, FreshPage, PageInv
<1> QED BY <1>1, BaseInit, BaseNext, PageInvNext, PTL DEF SaleSpec

(***************************************************************************)
(* A payment that settled, or may still, stays on the page: neither a lookup  *)
(* that was asked before the click nor another click puts anything in its     *)
(* place (paywall.js, the withdrawn button and the second look of poll).      *)
(***************************************************************************)
THEOREM SentOutcomeStays == SaleSpec => SentStays
<1>1. ASSUME BaseInv, PageInv, [SaleNext]_allVars, page.outcome \in {"paid", "pending"}
      PROVE  page'.outcome = page.outcome \/ page' = FreshPage
  <2>0. page \in [outcome : Shown, pay : PagePayments \cup {NoPayment},
                  shows : Payments \cup {NoPayment}, asking : {"no", "asked", "found"}]
    BY <1>1 DEF BaseInv, SaleTypeOK
  <2>1. page.pay = NoPayment /\ page.outcome \notin {"none", "refused", "paying"}
    BY <1>1 DEF PageInv
  <2>2. ~Click /\ ~Decline /\ ~PageHears
    BY <2>1 DEF Click, Decline, PageHears
  <2>3. HearLookup => page'.outcome = page.outcome
    BY <2>0, <2>1 DEF HearLookup, MayShow
  <2> QED BY <1>1, <2>2, <2>3, PageMoves DEF Reload
<1>2. BaseInv /\ PageInv /\ [SaleNext]_allVars
      => [page.outcome \in {"paid", "pending"}
            => page'.outcome = page.outcome \/ page' = FreshPage]_allVars
  BY <1>1
<1> QED BY <1>2, PageInvariant, PTL DEF SaleSpec, SentStays

\* What a page that pays may come to show.
AnsweredOrLeft ==
  \/ page' = FreshPage
  \/ /\ page.pay = NoPayment
     /\ page'.outcome = "refused" /\ page'.shows = page.shows
  \/ /\ page.pay # NoPayment /\ heard[page.pay] # "none"
     /\ page'.outcome = "paid" <=> heard[page.pay] = "settled"
     /\ page'.shows = IF page'.outcome = "paid" THEN page.pay ELSE page.shows

(***************************************************************************)
(* A click ends by its own payment's answer, in a reading only by its          *)
(* receipt: no lookup shows a terminal's reading while the page pays          *)
(* (paywall.js, poll looks at the outcome again once the seller has answered).*)
(***************************************************************************)
THEOREM PayingAnsweredByItself == SaleSpec => PayingIsAnswered
<1>1. ASSUME BaseInv, [SaleNext]_allVars, page.outcome = "paying",
             <<page'.outcome, page'.shows>> # <<page.outcome, page.shows>>
      PROVE  AnsweredOrLeft
  <2>0. page \in [outcome : Shown, pay : PagePayments \cup {NoPayment},
                  shows : Payments \cup {NoPayment}, asking : {"no", "asked", "found"}]
    BY <1>1 DEF BaseInv, SaleTypeOK
  <2>1. ~Click
    BY <1>1 DEF Click
  <2>2. ~HearLookup
    BY <1>1, <2>0 DEF HearLookup, MayShow
  <2>3. CASE Reload
    BY <2>3 DEF Reload, AnsweredOrLeft
  <2>4. CASE Decline
    BY <2>0, <2>4 DEF Decline, AnsweredOrLeft
  <2>5. CASE PageHears
    <3>1. /\ page.pay # NoPayment /\ heard[page.pay] # "none"
          /\ page'.outcome = OutcomeOf(heard[page.pay])
          /\ page'.shows = IF heard[page.pay] = "settled" THEN page.pay ELSE page.shows
      BY <2>0, <2>5 DEF PageHears
    <3>2. OutcomeOf(heard[page.pay]) = "paid" <=> heard[page.pay] = "settled"
      BY DEF OutcomeOf, MayStillSettle
    <3> QED BY <3>1, <3>2 DEF AnsweredOrLeft
  <2> QED BY <1>1, <2>1, <2>2, <2>3, <2>4, <2>5, PageMoves
<1>2. BaseInv /\ [SaleNext]_allVars
      => [page.outcome = "paying"
            /\ <<page'.outcome, page'.shows>> # <<page.outcome, page.shows>>
          => AnsweredOrLeft]_allVars
  BY <1>1
<1> QED BY <1>2, BaseInvariant, PTL DEF SaleSpec, PayingIsAnswered, AnsweredOrLeft

-----------------------------------------------------------------------------
(* A payment buys one reading *)

\* Handler h is about to answer with a reading.
Selling(h) == handler[h].stage = "answer" /\ handler[h].reply = "settled"

\* One reading at most is sold or about to be for a payment.
ReadInv ==
  /\ \A p \in Payments : readings[p] <= 1
  /\ \A h \in Handlers : Selling(h) => readings[handler[h].pay] = 0
  /\ \A g, h \in Handlers :
       Selling(g) /\ Selling(h) /\ handler[g].pay = handler[h].pay => g = h

\* A handler comes to sell in one step only, which ends its settle in a success that
\* no process returned before.
SellsAnew(h) ==
  /\ UNCHANGED readings
  /\ handler[h].pay \notin everPaid
  /\ \A g \in Handlers \ {h} : handler'[g] = handler[g]

LEMMA SellingNext ==
  ASSUME BaseInv, [SaleNext]_allVars, NEW n, OnceInv(n), NEW h \in Handlers, Selling(h)'
  PROVE  handler'[h].pay = handler[h].pay /\ (Selling(h) \/ SellsAnew(h))
<1>0. handler \in [Handlers -> HandlerStates]
  BY HandlerType DEF BaseInv
<1>1. CASE handler'[h] = handler[h]
  BY <1>1 DEF Selling
<1>2. ASSUME NEW g \in Handlers, Verify(g) PROVE handler'[h] = handler[h]
  BY <1>0, <1>2 DEF Verify, Selling, HandlerStates
<1>3. ASSUME NEW g \in Handlers, CallSettle(g) PROVE handler'[h] = handler[h]
  <2>1. ASSUME NEW r \in Requests, handler' = [handler EXCEPT ![g].call = r]
        PROVE  handler'[h] = handler[h]
    BY <1>0, <1>3, <2>1 DEF CallSettle, Selling
  <2>2. ASSUME NEW said \in Replies, said # "settled",
               handler' = [handler EXCEPT ![g] = After(@, said)]
        PROVE  handler'[h] = handler[h]
    BY <1>0, <2>2, AfterFields DEF Selling
  <2>3. \A r \in Requests : RefuseDuplicate(r, handler[g].pay) => SettleHeard(answer') = "duplicate"
    BY CopySays
  <2>4. "duplicate" \in Replies /\ "error" \in Replies
    BY DEF Replies
  <2> QED BY <1>3, <2>1, <2>2, <2>3, <2>4 DEF CallSettle
<1>4. ASSUME NEW r \in Requests, SettleMoves(r), handler'[h] # handler[h]
      PROVE  handler'[h].pay = handler[h].pay /\ SellsAnew(h)
  <2> DEFINE said == SettleHeard(answer')
  <2>0. phase'[r] = Idle /\ handler' = Told({r}, said)
    BY <1>4 DEF SettleMoves
  <2>1. said \in Replies /\ (said = "settled" => Delivered(r))
    BY <1>4, <2>0, SettleSays DEF SettleMoves, Replies
  <2> HIDE DEF said
  <2>2. \A g \in Handlers : IF handler[g].call = r THEN handler'[g] = After(handler[g], said)
                                                    ELSE handler'[g] = handler[g]
    BY <2>0 DEF Told
  <2>3. handler[h].call = r /\ handler'[h] = After(handler[h], said)
    BY <1>4, <2>2
  <2>4. said = "settled" /\ handler'[h].pay = handler[h].pay
    BY <1>0, <2>1, <2>3, AfterFields DEF Selling
  <2>5. r # NoRequest
    BY SaleAssumption
  <2>6. handler[h].pay = pay[r] /\ \A g \in Handlers : handler[g].call = r => g = h
    BY <2>3, <2>5 DEF BaseInv, CallsInv
  <2>7. pay[r] \notin everPaid
    BY <2>1, <2>4, WaitingNotPaid DEF Delivered, BaseInv
  <2> QED BY <1>4, <2>2, <2>4, <2>6, <2>7 DEF SettleMoves, SellsAnew
<1>5. ASSUME NEW calls, handler' = Told(calls, "error") PROVE handler'[h] = handler[h]
  <2>1. "error" \in Replies
    BY DEF Replies
  <2> QED BY <1>0, <1>5, <2>1, AfterFields DEF Told, Selling
<1>6. ASSUME NEW r \in Requests, SettleUnheard(r) PROVE handler'[h] = handler[h]
  BY <1>5, <1>6 DEF SettleUnheard
<1>7. ASSUME NEW f \in Facilitators, FacilitatorRestarts(f) PROVE handler'[h] = handler[h]
  BY <1>5, <1>7 DEF FacilitatorRestarts
<1>8. ASSUME NEW g \in Handlers, Answer(g) \/ Record(g) PROVE handler'[h] = handler[h]
  BY <1>0, <1>8 DEF Answer, Record, Selling, FreeHandler, HandlerStates
<1>9. ASSUME NEW g \in Handlers, NEW p \in Payments,
             WalletPays(g, p) \/ TerminalPays(g, p) \/ Resend(g, p)
      PROVE  handler'[h] = handler[h]
  BY <1>0, <1>9 DEF WalletPays, TerminalPays, Resend, Arrives, Selling, FreeHandler
<1>10. ASSUME NEW p \in Payments, LoseAnswer(p) PROVE handler'[h] = handler[h]
  BY <1>10 DEF LoseAnswer
<1>11. Click \/ Decline \/ PageSteps \/ LookupFails \/ Reload \/ ChainMoves \/ UNCHANGED allVars
       => UNCHANGED handler
  BY DEF Click, Decline, PageSteps, PageHears, Ask, AnswerLookup, HearLookup, LookupFails,
         Reload, ChainMoves, allVars, saleVars
<1> QED BY <1>1, <1>2, <1>3, <1>4, <1>6, <1>7, <1>8, <1>9, <1>10, <1>11 DEF SaleNext, Serve

\* Only an answer counts a reading, of a payment it was selling and sells no more.
LEMMA ReadingsNext ==
  ASSUME BaseInv, [SaleNext]_allVars
  PROVE  \/ UNCHANGED readings
         \/ \E h \in Handlers :
              /\ Selling(h) /\ ~Selling(h)'
              /\ readings' = [readings EXCEPT ![handler[h].pay] = @ + 1]
              /\ \A g \in Handlers \ {h} : handler'[g] = handler[g]
<1>0. handler \in [Handlers -> HandlerStates]
  BY HandlerType DEF BaseInv
<1>1. ASSUME NEW h \in Handlers, Answer(h), handler[h].reply = "settled"
      PROVE  /\ Selling(h) /\ ~Selling(h)'
             /\ readings' = [readings EXCEPT ![handler[h].pay] = @ + 1]
             /\ \A g \in Handlers \ {h} : handler'[g] = handler[g]
  BY <1>0, <1>1 DEF Answer, Selling, FreeHandler, HandlerStates
<1>2. ASSUME NEW h \in Handlers, Answer(h), handler[h].reply # "settled" PROVE UNCHANGED readings
  BY <1>2 DEF Answer
<1>3. ASSUME NEW h \in Handlers, Verify(h) \/ CallSettle(h) \/ Record(h) PROVE UNCHANGED readings
  BY <1>3 DEF Verify, CallSettle, Record
<1>4. ASSUME NEW h \in Handlers, NEW p \in Payments,
             WalletPays(h, p) \/ TerminalPays(h, p) \/ Resend(h, p)
      PROVE  UNCHANGED readings
  BY <1>4 DEF WalletPays, TerminalPays, Resend
<1>5. ASSUME NEW p \in Payments, LoseAnswer(p) PROVE UNCHANGED readings
  BY <1>5 DEF LoseAnswer
<1>6. ASSUME NEW r \in Requests, SettleMoves(r) \/ SettleUnheard(r) PROVE UNCHANGED readings
  BY <1>6 DEF SettleMoves, SettleUnheard
<1>7. ASSUME NEW f \in Facilitators, FacilitatorRestarts(f) PROVE UNCHANGED readings
  BY <1>7 DEF FacilitatorRestarts
<1>8. Click \/ Decline \/ PageSteps \/ LookupFails \/ Reload \/ ChainMoves \/ UNCHANGED allVars
      => UNCHANGED readings
  BY DEF Click, Decline, PageSteps, PageHears, Ask, AnswerLookup, HearLookup, LookupFails,
         Reload, ChainMoves, allVars, saleVars
<1> QED BY <1>1, <1>2, <1>3, <1>4, <1>5, <1>6, <1>7, <1>8 DEF SaleNext, Serve

LEMMA ReadInvNext ==
  ASSUME BaseInv, PaidInv, ReadInv, [SaleNext]_allVars, NEW n, OnceInv(n)
  PROVE  ReadInv'
<1>0. /\ readings \in [Payments -> Nat] /\ handler \in [Handlers -> HandlerStates]
      /\ \A h \in Handlers : Selling(h) =>
           handler[h].pay \in Payments /\ handler[h].pay \in everPaid
      /\ \A p \in Payments : p \notin everPaid => readings[p] = 0
  <2>1. \A h \in Handlers : Selling(h) => handler[h].stage # "free" /\ Receipt(h)
    BY DEF Selling, Receipt
  <2>2. \A h \in Handlers : Selling(h) => handler[h].pay \in Payments
    BY <2>1, PaidForPayment
  <2> QED BY <2>1, <2>2, HandlerType DEF BaseInv, SaleTypeOK, PaidInv
<1>1. \A h \in Handlers : Selling(h)' =>
        handler'[h].pay = handler[h].pay /\ (Selling(h) \/ SellsAnew(h))
  BY SellingNext
<1>2. CASE UNCHANGED readings
  <2>1. \A h \in Handlers : Selling(h)' => readings'[handler'[h].pay] = 0
    <3> TAKE h \in Handlers
    <3> HAVE Selling(h)'
    <3>1. handler[h].pay \in Payments
      <4>1. handler[h].stage # "free"
        <5>1. handler'[h].pay # NoPayment
          BY HandlersNext DEF CallsInv, Selling
        <5> QED BY <1>1, <5>1 DEF BaseInv, CallsInv
      <4> QED BY <4>1, PaidForPayment
    <3> QED BY <1>0, <1>1, <1>2, <3>1 DEF ReadInv, SellsAnew
  <2>2. ASSUME NEW g \in Handlers, NEW h \in Handlers, Selling(g)', Selling(h)',
               handler'[g].pay = handler'[h].pay, g # h
        PROVE  FALSE
    <3>1. handler[g].pay = handler[h].pay
      BY <1>1, <2>2
    <3>2. CASE SellsAnew(h)
      <4>1. Selling(g)
        BY <2>2, <3>2 DEF SellsAnew, Selling
      <4> QED BY <1>0, <3>1, <3>2, <4>1 DEF SellsAnew
    <3>3. CASE SellsAnew(g)
      <4>1. Selling(h)
        BY <2>2, <3>3 DEF SellsAnew, Selling
      <4> QED BY <1>0, <3>1, <3>3, <4>1 DEF SellsAnew
    <3> QED BY <1>1, <2>2, <3>1, <3>2, <3>3 DEF ReadInv
  <2> QED BY <1>2, <2>1, <2>2 DEF ReadInv
<1>3. ASSUME NEW h \in Handlers, Selling(h), ~Selling(h)',
             readings' = [readings EXCEPT ![handler[h].pay] = @ + 1],
             \A g \in Handlers \ {h} : handler'[g] = handler[g]
      PROVE  ReadInv'
  <2>1. readings[handler[h].pay] = 0 /\ handler[h].pay \in Payments
    BY <1>0, <1>3 DEF ReadInv
  <2>2. \A g \in Handlers : Selling(g)' =>
          /\ Selling(g) /\ handler'[g].pay = handler[g].pay
          /\ handler[g].pay # handler[h].pay /\ handler[g].pay \in Payments
    <3> TAKE g \in Handlers
    <3> HAVE Selling(g)'
    <3>1. g # h /\ handler'[g] = handler[g]
      BY <1>3
    <3>2. Selling(g)
      BY <3>1 DEF Selling
    <3> QED BY <1>0, <1>3, <3>1, <3>2 DEF ReadInv
  <2>3. \A p \in Payments : readings'[p] <= 1
    BY <1>0, <1>3, <2>1 DEF ReadInv
  <2>4. \A g \in Handlers : Selling(g)' => readings'[handler'[g].pay] = 0
    BY <1>0, <1>3, <2>1, <2>2 DEF ReadInv
  <2>5. \A f, g \in Handlers :
          Selling(f)' /\ Selling(g)' /\ handler'[f].pay = handler'[g].pay => f = g
    BY <2>2 DEF ReadInv
  <2> QED BY <2>3, <2>4, <2>5 DEF ReadInv
<1> QED BY <1>2, <1>3, ReadingsNext

LEMMA ReadInvInit == SaleInit => ReadInv
<1> SUFFICES ASSUME SaleInit PROVE ReadInv
  OBVIOUS
<1>1. \A h \in Handlers : ~Selling(h)
  BY DEF SaleInit, FreeHandler, Selling
<1> QED BY <1>1 DEF SaleInit, ReadInv

\* Behind one node, a payment the sale settled is settled once.
LEMMA SaleOnceInvariant ==
  ASSUME NEW n, OneNode(n) PROVE SaleSpec => [](BaseInv /\ GroundsInv /\ OnceInv(n))
<1>1. SaleInit => GroundsInv /\ OnceInv(n)
  BY GroundsInit, OnceInit DEF SaleInit
<1>2. BaseInv /\ GroundsInv /\ OnceInv(n) /\ [SaleNext]_allVars => (GroundsInv /\ OnceInv(n))'
  BY SaleMoves, GroundsNext, OnceNext DEF BaseInv
<1> QED BY <1>1, <1>2, BaseInit, BaseNext, PTL DEF SaleSpec

(***************************************************************************)
(* A payment buys one reading, and the chain executed it, though a browser    *)
(* may have its request run twice at once, replicas share no record, and a    *)
(* restarted one has forgotten what it settled: behind one node that executes *)
(* every block at once and keeps its mempool, no process returns success for  *)
(* a payment another did, so no second handler has a receipt to answer with.  *)
(***************************************************************************)
THEOREM OneReadingBehindOneNode ==
  ASSUME NEW n, OneNode(n) PROVE SaleSpec => []OneReadingPerPayment
<1>1. BaseInv /\ PaidInv /\ ReadInv /\ OnceInv(n) /\ [SaleNext]_allVars => ReadInv'
  BY ReadInvNext
<1>2. BaseInv /\ PaidInv /\ ReadInv => OneReadingPerPayment
  <2> SUFFICES ASSUME BaseInv, PaidInv, ReadInv, NEW p \in Payments
               PROVE  readings[p] <= 1 /\ (readings[p] = 1 => outcome[p] = "ok")
    BY DEF OneReadingPerPayment
  <2>1. readings[p] = 1 => p \in everPaid
    BY DEF PaidInv
  <2> QED BY <2>1 DEF ReadInv, PaidInv
<1> QED BY <1>1, <1>2, ReadInvInit, SaleOnceInvariant, PaidInvariant, PTL DEF SaleSpec

(***************************************************************************)
(* In the sale as by themselves, the processes behind that node report a      *)
(* payment settled once, ever.                                               *)
(***************************************************************************)
THEOREM SaleSettlesOnceBehindOneNode ==
  ASSUME NEW n, OneNode(n) PROVE SaleSpec => SettledOnceEver
<1>1. ASSUME BaseInv, OnceInv(n), [SaleNext]_allVars
      PROVE  [Answering /\ answer'.kind = "settled" => answer'.pay \notin everPaid]_vars
  BY <1>1, SaleMoves, PaidAnew DEF BaseInv
<1> QED BY <1>1, SaleOnceInvariant, PTL DEF SaleSpec, SettledOnceEver

-----------------------------------------------------------------------------
(* What the facilitator promises, a sale keeps *)

(***************************************************************************)
(* Whatever handlers, pages and terminals make of them, the verdicts a sale   *)
(* is told are the chain's, and success is returned once while it is          *)
(* remembered: the sale implements SettlementPromise.                        *)
(***************************************************************************)
THEOREM SaleKeepsPromise == SaleSpec => KeepsPromise
<1>1. SaleInit => Promise!PromiseInit
  BY PromiseInitial DEF SaleInit
<1>2. BaseInv /\ [SaleNext]_allVars => [Promise!PromiseNext]_(Promise!promiseVars)
  BY SaleMoves, PromiseStep DEF BaseInv
<1> QED BY <1>1, <1>2, BaseInvariant, PTL DEF SaleSpec, KeepsPromise, Promise!PromiseSpec

(***************************************************************************)
(* The settles of a sale claim and record payments as settles do by           *)
(* themselves: a claim is held by one settle, what is recorded has grounds,   *)
(* success is not returned twice in its time, and only a first settle leaves  *)
(* a copy without its hash.                                                  *)
(***************************************************************************)
THEOREM SaleSettlesAsClaimed ==
  SaleSpec => /\ []ClaimIsHeld
              /\ []RecordHasGrounds
              /\ SettledOnce
              /\ HashlessDuplicateMeansFirstSettle
<1>1. SaleInit => GroundsInv
  BY GroundsInit DEF SaleInit
<1>2. BaseInv /\ GroundsInv /\ [SaleNext]_allVars => GroundsInv'
  BY SaleMoves, GroundsNext DEF BaseInv
<1>3. BaseInv => ClaimIsHeld
  BY DEF BaseInv, PromiseInv, SettleInv
<1>4. GroundsInv => RecordHasGrounds
  BY DEF GroundsInv, Grounded, RecordHasGrounds
<1>5. ASSUME BaseInv, [SaleNext]_allVars
      PROVE  [Answering /\ answer'.kind = "settled"
                => ~Recent(paid[answer'.by][answer'.pay])]_vars
  BY <1>5, SaleMoves, SettledAnew DEF BaseInv, PromiseInv
<1>6. ASSUME BaseInv, GroundsInv, [SaleNext]_allVars
      PROVE  [Answering /\ answer'.kind = "duplicate" /\ ~answer'.hash
                => \E r \in Holders(answer'.by, answer'.pay) : phase[r] # "reconcile"]_vars
  BY <1>6, SaleMoves, HashlessCopy DEF BaseInv
<1> QED BY <1>1, <1>2, <1>3, <1>4, <1>5, <1>6, BaseInvariant, PTL
        DEF SaleSpec, SettledOnce, HashlessDuplicateMeansFirstSettle

-----------------------------------------------------------------------------
(* A refused payment was not charged for *)

\* One process settles, nothing restarts it, and no browser sends a request twice: a
\* second handler, or a process that knows nothing of the first settle, would be
\* refused a payment that is on its way into a block.
Steady ==
  /\ "restart" \notin Faults
  /\ "resend" \notin Faults
  /\ \A r, s \in Requests : Serves[r] = Serves[s]

\* Every payment a node holds or a block executed was sent to some node.
LooseInv ==
  /\ Executed \subseteq loose
  /\ \A n \in Nodes : mempool[n] \subseteq loose

\* No clock runs in a sale: no entry of a record lapses.
DatesInv == \A f \in Facilitators, p \in Payments : record[f][p].at <= 0

\* A settle that may still be refused is of a payment no node was sent.
UnsentInv ==
  \A r \in Requests :
    phase[r] \in {"account", "simulate", "checked", "sending"} => pay[r] \notin loose

\* No node was sent p, and no settle of it is under way or recorded.
Untouched(p) ==
  /\ p \notin loose
  /\ \A r \in Requests : record[Serves[r]][p].state = "unclaimed"

\* What a handler rests on: before its settle the payment is untouched, before its
\* second one it is pending, and what it answers is so.
HandlerRests(h) ==
  LET p == handler[h].pay IN
  /\ handler[h].stage \in {"verify", "settle"} /\ handler[h].call = NoRequest => Untouched(p)
  /\ handler[h].stage = "again" /\ handler[h].call = NoRequest =>
       \A r \in Requests : record[Serves[r]][p].state = "pending"
  /\ handler[h].stage = "answer" =>
       /\ handler[h].reply \in {"unverified", "unchecked", "refused"} => Untouched(p)
       /\ handler[h].reply = "aborted" => outcome[p] = "aborted"

HandlersInv ==
  /\ \A h \in Handlers : HandlerRests(h)
  /\ \A g, h \in Handlers : handler[g].pay = handler[h].pay => g = h \/ handler[h].pay = NoPayment
  /\ \A h \in Handlers : handler[h].pay \in signed \cup {NoPayment}
  /\ \A p \in Payments \ signed : Untouched(p)

\* A buyer told that a payment was refused was told so, and no handler is left of it.
HeardInv ==
  \A p \in Payments :
    /\ heard[p] \in {"unverified", "unchecked", "refused"} => Untouched(p)
    /\ heard[p] = "aborted" => outcome[p] = "aborted"
    /\ ToldNotPaid(p) =>
         /\ p \in signed
         /\ waits[p] = NoHandler
         /\ \A h \in Handlers : handler[h].pay # p

RefusalInv == LooseInv /\ DatesInv /\ UnsentInv /\ HandlersInv /\ HeardInv

\* What a steady sale does to the facilitator, the chain and the nodes.
LEMMA SteadySteps ==
  ASSUME Steady, BaseInv, [SaleNext]_allVars
  PROVE  \/ \E r \in Requests : SettleMoves(r)
         \/ \E h \in Handlers, r \in Requests :
              CallSettle(h) /\ Claim(r, handler[h].pay) /\ UNCHANGED loose
         \/ \E h \in Handlers, r \in Requests :
              CallSettle(h) /\ RefuseDuplicate(r, handler[h].pay) /\ UNCHANGED loose
         \/ ChainMoves
         \/ UNCHANGED <<chainVars, record, phase, pay, loose>>
<1>1. ASSUME NEW h \in Handlers, CallSettle(h)
      PROVE  \/ \E r \in Requests : Claim(r, handler[h].pay) /\ UNCHANGED loose
             \/ \E r \in Requests : RefuseDuplicate(r, handler[h].pay) /\ UNCHANGED loose
             \/ UNCHANGED <<chainVars, record, phase, pay, loose>>
  BY <1>1 DEF CallSettle, FacilitatorRests
<1>2. ASSUME NEW h \in Handlers, Verify(h) \/ Answer(h) \/ Record(h)
      PROVE  UNCHANGED <<chainVars, record, phase, pay, loose>>
  BY <1>2 DEF Verify, Answer, Record, FacilitatorRests
<1>3. ASSUME NEW h \in Handlers, NEW p \in Payments,
             WalletPays(h, p) \/ TerminalPays(h, p) \/ Resend(h, p)
      PROVE  UNCHANGED <<chainVars, record, phase, pay, loose>>
  BY <1>3 DEF WalletPays, TerminalPays, Resend, FacilitatorRests
<1>4. ASSUME NEW p \in Payments, LoseAnswer(p)
      PROVE  UNCHANGED <<chainVars, record, phase, pay, loose>>
  BY <1>4 DEF LoseAnswer, FacilitatorRests
<1>5. ASSUME NEW r \in Requests, SettleUnheard(r)
      PROVE  UNCHANGED <<chainVars, record, phase, pay, loose>>
  BY <1>5 DEF SettleUnheard, End
<1>6. ASSUME NEW f \in Facilitators, FacilitatorRestarts(f) PROVE FALSE
  BY <1>6 DEF FacilitatorRestarts, Steady
<1>7. Click \/ Decline \/ PageSteps \/ LookupFails \/ Reload
      => UNCHANGED <<chainVars, record, phase, pay, loose>>
  BY DEF Click, Decline, PageSteps, PageHears, Ask, AnswerLookup, HearLookup, LookupFails,
         Reload, FacilitatorRests
<1>8. UNCHANGED allVars => UNCHANGED <<chainVars, record, phase, pay, loose>>
  BY DEF allVars, vars, facVars, saleVars
<1> QED BY <1>1, <1>2, <1>3, <1>4, <1>5, <1>6, <1>7, <1>8 DEF SaleNext, Serve

\* A broadcast whose payment a node has, or may get, counts it among the loose ones.
LEMMA SentIsLoose ==
  ASSUME BaseInv, NEW r \in Requests, SettleMoves(r)
  PROVE  /\ loose \subseteq loose'
         /\ loose' \subseteq loose \cup {pay[r]}
         /\ loose' # loose => phase[r] = "sending"
         /\ \A n \in Nodes : mempool'[n] \subseteq mempool[n] \cup loose'
<1>0. mempool \in [Nodes -> SUBSET Payments] /\ Reach(r) \subseteq Nodes
  BY FacilitatorAssumption
     DEF BaseInv, PromiseInv, SettleInv, TypeInv, TypeOK, ChainTypeOK, Reach
<1>1. ASSUME NEW n \in Nodes, Admitted(r, n) \/ Unanswered(r, n)
      PROVE  \A m \in Nodes : mempool'[m] \subseteq mempool[m] \cup loose'
  <2>1. pay[r] \in loose'
    BY <1>1 DEF SettleMoves, Admitted, Unanswered, Proceed, GiveBack, Return, SettleHeard, NoAnswer
  <2>2. UNCHANGED mempool \/ mempool' = [mempool EXCEPT ![n] = @ \cup {pay[r]}]
    BY <1>1 DEF Admitted, Unanswered, Admit
  <2> QED BY <1>0, <2>1, <2>2
<1>2. (\E n \in Nodes : Admitted(r, n) \/ Unanswered(r, n)) \/ UNCHANGED mempool
  BY <1>0 DEF SettleMoves, Step, ReadAccount, Simulate, StartBroadcast, Broadcast, RefusedByNode,
              Delivered, NotDelivered, Panic, chainVars
<1>3. /\ loose \subseteq loose'
      /\ loose' \subseteq loose \cup {pay[r]}
      /\ loose' # loose => phase[r] = "sending"
  BY DEF SettleMoves
<1> QED BY <1>0, <1>1, <1>2, <1>3

LEMMA LooseNext ==
  ASSUME Steady, BaseInv, LooseInv, [SaleNext]_allVars
  PROVE  LooseInv' /\ loose \subseteq loose'
<1>0. ChainTypeOK /\ ChainInv /\ TypeInv
  BY DEF BaseInv, PromiseInv, SettleInv, TypeInv, TypeOK
<1>1. ASSUME NEW r \in Requests, SettleMoves(r) PROVE LooseInv' /\ loose \subseteq loose'
  <2>1. UNCHANGED outcome
    BY <1>0, <1>1, StepsOnChain DEF SettleMoves, chainVars
  <2> QED BY <1>1, <2>1, SentIsLoose DEF LooseInv, Executed
<1>2. CASE ChainMoves
  <2>1. ASSUME NEW n \in Nodes, NEW p \in Payments, Commit(n, p) PROVE Executed' \subseteq loose
    <3>1. Executed' = Executed \cup {p}
      BY <1>0, <2>1, CommitExecutes
    <3> QED BY <2>1, <3>1 DEF Commit, LooseInv
  <2>2. Executed' \subseteq loose
    BY <1>2, <2>1 DEF ChainMoves, ChainStep, ChainNext, Hear, CatchUp, RestartNode, LooseInv, Executed
  <2>3. \A n \in Nodes : mempool'[n] \subseteq loose
    BY <1>2 DEF ChainMoves, LooseInv
  <2> QED BY <1>2, <2>2, <2>3 DEF ChainMoves, saleVars, LooseInv
<1>3. CASE UNCHANGED <<chainVars, loose>>
  BY <1>3 DEF LooseInv, chainVars, Executed
<1> QED BY <1>1, <1>2, <1>3, SteadySteps DEF Claim, RefuseDuplicate

\* A claim, or a copy's refusal, sweeps nothing.
LEMMA SweptNothing ==
  ASSUME BaseInv, DatesInv, NEW f \in Facilitators
  PROVE  record[f] \in Records /\ Swept(record[f]) = record[f]
<1>1. record[f] \in Records
  BY DEF BaseInv, PromiseInv, SettleInv, TypeInv, TypeOK
<1>2. ASSUME NEW p \in Payments PROVE record[f][p].at \in Times /\ record[f][p].at <= TTL
  <2>1. record[f][p] \in Entries
    BY <1>1 DEF Records
  <2>2. record[f][p].at \in Times /\ record[f][p].at <= 0
    BY <2>1 DEF DatesInv, Entries, Fields
  <2>3. \A t \in Times : t <= 0 => t <= TTL
    BY TTLAssumption DEF Times, Ages, NoTime
  <2> QED BY <2>2, <2>3
<1>3. \A p \in Payments : Swept(record[f])[p] = record[f][p]
  BY <1>1, <1>2, SweptEntry
<1> QED BY <1>1, <1>3 DEF Swept, Records

LEMMA DatesNext ==
  ASSUME Steady, BaseInv, DatesInv, [SaleNext]_allVars PROVE DatesInv'
<1>0. /\ record \in [Facilitators -> Records] /\ Serves \in [Requests -> Facilitators]
      /\ TypeInv
  BY FacilitatorAssumption DEF BaseInv, PromiseInv, SettleInv, TypeInv, TypeOK
<1>1. ASSUME NEW r \in Requests, SettleMoves(r), NEW f \in Facilitators, NEW p \in Payments
      PROVE  record'[f][p].at <= 0
  <2>1. CASE Ends(r) /\ f = Serves[r] /\ p = pay[r]
    <3> DEFINE rec == record[f]
    <3>1. PICK kept \in {Released(rec, p), MarkedSettled(rec, p), MarkedPending(rec, p)} :
             record' = [record EXCEPT ![f] = kept]
      BY <2>1 DEF Ends
    <3>2. rec \in Records /\ rec[p].at \in Times /\ rec[p].at <= 0
      BY <1>0 DEF Records, Entries, Fields, DatesInv
    <3>3. Released(rec, p)[p].at <= 0
      BY <3>2, ReleasedEntries DEF Unclaimed, NoTime
    <3>4. MarkedSettled(rec, p)[p].at <= 0
      BY <3>2, MarkedSettledEntries
    <3>5. MarkedPending(rec, p)[p].at <= 0
      <4>1. MarkedPending(rec, p)[p] =
              [state |-> "pending", hash |-> TRUE,
               at |-> IF rec[p].at = NoTime THEN 0 ELSE rec[p].at]
        BY <3>2, MarkedPendingEntries
      <4> QED BY <3>2, <4>1
    <3> QED BY <1>0, <3>1, <3>3, <3>4, <3>5
  <2>2. CASE Ends(r) /\ ~(f = Serves[r] /\ p = pay[r])
    BY <1>0, <2>2, EndsEntries DEF DatesInv
  <2>3. CASE UNCHANGED record
    BY <2>3 DEF DatesInv
  <2> QED BY <1>1, <2>1, <2>2, <2>3, StepEndsOrKeeps DEF SettleMoves
<1>2. ASSUME NEW h \in Handlers, NEW r \in Requests, CallSettle(h), Claim(r, handler[h].pay),
             NEW f \in Facilitators, NEW p \in Payments
      PROVE  record'[f][p].at <= 0
  <2>1. handler[h].pay \in Payments
    BY <1>2, PaidForPayment DEF CallSettle
  <2>2. record'[f][p].at = record[f][p].at
    BY <1>0, <1>2, <2>1, ClaimEntries, SweptNothing
  <2> QED BY <2>2 DEF DatesInv
<1>3. ASSUME NEW h \in Handlers, NEW r \in Requests, RefuseDuplicate(r, handler[h].pay)
      PROVE  UNCHANGED record
  BY <1>0, <1>3, SweptNothing DEF RefuseDuplicate
<1>4. CASE UNCHANGED record
  BY <1>4 DEF DatesInv
<1> QED BY <1>1, <1>2, <1>3, <1>4, SteadySteps DEF DatesInv, ChainMoves, ChainStep

LEMMA UnsentNext ==
  ASSUME Steady, BaseInv, LooseInv, DatesInv, UnsentInv, HandlersInv, [SaleNext]_allVars
  PROVE  UnsentInv'
<1>0. /\ phase \in [Requests -> Phases] /\ pay \in [Requests -> Payments \cup {NoPayment}]
      /\ TypeInv /\ ClaimIsHeld /\ Serves \in [Requests -> Facilitators]
  BY FacilitatorAssumption DEF BaseInv, PromiseInv, SettleInv, TypeInv, TypeOK
<1>1. ASSUME NEW r \in Requests, SettleMoves(r), NEW s \in Requests,
             phase'[s] \in {"account", "simulate", "checked", "sending"}
      PROVE  pay'[s] \notin loose'
  <2>1. /\ phase[r] # Idle /\ phase'[s] # Idle
        /\ loose' \subseteq loose \cup {pay[r]}
        /\ loose' # loose => phase[r] = "sending"
    BY <1>1, SentIsLoose, StepEndsOrKeeps DEF SettleMoves, Ends, Idle
  <2>2. CASE s = r
    <3>1. Advances(r)
      BY <1>0, <1>1, <2>2, StepCases
         DEF SettleMoves, GivesUp, Admission, Delivered, NotDelivered, Return, Idle
    <3>2. phase[r] \in {"account", "simulate", "checked"} /\ pay'[r] = pay[r]
      BY <3>1 DEF Advances
    <3> QED BY <2>1, <2>2, <3>2 DEF UnsentInv
  <2>3. CASE s # r
    <3>1. pay'[s] = pay[s] /\ phase'[s] = phase[s]
      BY <1>0, <1>1, <2>3, StepCases
         DEF SettleMoves, GivesUp, Admission, Advances, Delivered, NotDelivered, Return
    <3>2. pay[s] # pay[r]
      BY <1>0, <2>1, <2>3, <3>1, SettlesDiffer DEF Steady
    <3> QED BY <1>1, <2>1, <3>1, <3>2 DEF UnsentInv
  <2> QED BY <2>2, <2>3
<1>2. ASSUME NEW h \in Handlers, NEW r \in Requests, CallSettle(h), Claim(r, handler[h].pay),
             UNCHANGED loose
      PROVE  UnsentInv'
  <2> DEFINE p == handler[h].pay
  <2>1. /\ phase' = [phase EXCEPT ![r] =
             IF record[Serves[r]][p].state = "pending" THEN "reconcile" ELSE "account"]
        /\ pay' = [pay EXCEPT ![r] = p]
    BY <1>0, <1>2, SweptNothing DEF Claim
  <2>2. record[Serves[r]][p].state = "pending" \/ p \notin loose
    BY <1>2 DEF CallSettle, HandlersInv, HandlerRests, Untouched
  <2> HIDE DEF p
  <2> QED BY <1>0, <1>2, <2>1, <2>2 DEF UnsentInv
<1>3. CASE UNCHANGED <<phase, pay, loose>>
  BY <1>3 DEF UnsentInv
<1> QED BY <1>1, <1>2, <1>3, SteadySteps
        DEF UnsentInv, ChainMoves, ChainStep, RefuseDuplicate, saleVars

\* What a steady sale does not settle stays as it is recorded, and with no node.
LEMMA EntryUnmoved ==
  ASSUME Steady, BaseInv, DatesInv, [SaleNext]_allVars, NEW p \in Payments,
         \A s \in Requests : record[Serves[s]][p].state # "settling",
         \A h \in Handlers : handler[h].pay = p => ~CallSettle(h)
  PROVE  /\ \A s \in Requests : record'[Serves[s]][p] = record[Serves[s]][p]
         /\ p \notin loose => p \notin loose'
<1>0. /\ TypeInv /\ ClaimIsHeld /\ Serves \in [Requests -> Facilitators]
      /\ record \in [Facilitators -> Records]
  BY FacilitatorAssumption DEF BaseInv, PromiseInv, SettleInv, TypeInv, TypeOK
<1>1. ASSUME NEW r \in Requests, SettleMoves(r)
      PROVE  /\ \A s \in Requests : record'[Serves[s]][p] = record[Serves[s]][p]
             /\ p \notin loose => p \notin loose'
  <2>1. pay[r] # p
    BY <1>0 DEF ClaimIsHeld, Holders
  <2>2. \A s \in Requests : record'[Serves[s]][p] = record[Serves[s]][p]
    BY <1>0, <1>1, <2>1, StepEndsOrKeeps, EndsEntries DEF SettleMoves
  <2> QED BY <1>1, <2>1, <2>2, SentIsLoose
<1>2. ASSUME NEW h \in Handlers, NEW r \in Requests, CallSettle(h), Claim(r, handler[h].pay)
      PROVE  \A s \in Requests : record'[Serves[s]][p] = record[Serves[s]][p]
  <2>1. handler[h].pay \in Payments /\ handler[h].pay # p
    BY <1>2, PaidForPayment DEF CallSettle
  <2> QED BY <1>0, <1>2, <2>1, ClaimEntries, SweptNothing
<1>3. ASSUME NEW h \in Handlers, NEW r \in Requests, RefuseDuplicate(r, handler[h].pay)
      PROVE  UNCHANGED record
  BY <1>0, <1>3, SweptNothing DEF RefuseDuplicate
<1> QED BY <1>1, <1>2, <1>3, SteadySteps DEF ChainMoves, ChainStep, saleVars

LEMMA UntouchedStays ==
  ASSUME Steady, BaseInv, DatesInv, [SaleNext]_allVars, NEW p \in Payments, Untouched(p),
         \A h \in Handlers : handler[h].pay = p => ~CallSettle(h)
  PROVE  Untouched(p)'
BY EntryUnmoved DEF Untouched

LEMMA SignedGrows == SaleTypeOK /\ [SaleNext]_allVars => signed \subseteq signed'
<1> SUFFICES ASSUME SaleTypeOK, [SaleNext]_allVars PROVE signed \subseteq signed'
  OBVIOUS
<1>1. ASSUME NEW h \in Handlers, Serve(h) PROVE UNCHANGED signed
  BY <1>1 DEF Serve, Verify, CallSettle, Answer, Record
<1>2. ASSUME NEW h \in Handlers, NEW p \in Payments,
             WalletPays(h, p) \/ TerminalPays(h, p) \/ Resend(h, p)
      PROVE  signed \subseteq signed'
  BY <1>2 DEF WalletPays, TerminalPays, Resend
<1>3. ASSUME NEW p \in Payments, LoseAnswer(p) PROVE UNCHANGED signed
  BY <1>3 DEF LoseAnswer
<1>4. ASSUME NEW r \in Requests, SettleMoves(r) \/ SettleUnheard(r) PROVE UNCHANGED signed
  BY <1>4 DEF SettleMoves, SettleUnheard
<1>5. ASSUME NEW f \in Facilitators, FacilitatorRestarts(f) PROVE UNCHANGED signed
  BY <1>5 DEF FacilitatorRestarts
<1>6. Click \/ Decline \/ PageSteps \/ LookupFails \/ Reload \/ ChainMoves \/ UNCHANGED allVars
      => UNCHANGED signed
  BY DEF Click, Decline, PageSteps, PageHears, Ask, AnswerLookup, HearLookup, LookupFails,
         Reload, ChainMoves, allVars, saleVars
<1> QED BY <1>1, <1>2, <1>3, <1>4, <1>5, <1>6 DEF SaleNext

\* Handler h gets a payment signed in this step.
Opens(h) ==
  /\ handler[h].stage = "free"
  /\ \E p \in Payments \ signed :
       /\ handler'[h] = [FreeHandler EXCEPT !.stage = "verify", !.pay = p]
       /\ p \in signed'
  /\ \A g \in Handlers \ {h} : handler'[g] = handler[g]
  /\ UNCHANGED heard

\* Handler h goes on with its payment, with nothing to rest on but a verdict of verify.
GoesOn(h) ==
  /\ handler'[h].pay = handler[h].pay
  /\ \/ /\ handler[h].stage = "verify"
        /\ \/ handler'[h].stage = "settle"
           \/ handler'[h].stage = "answer" /\ handler'[h].reply \in {"unverified", "unchecked"}
     \/ handler'[h].stage \in {"settle", "again"} /\ handler'[h].call # NoRequest
     \/ handler'[h].stage = "answer" /\ handler'[h].reply \in {"duplicate", "error"}
     \/ handler'[h].stage = "record"

\* Handler h hears how the settle it called ended.
HearsSettle(h) ==
  \E r \in Requests :
    /\ SettleMoves(r)
    /\ phase'[r] = Idle
    /\ handler[h].call = r
    /\ handler'[h] = After(handler[h], SettleHeard(answer'))

LEMMA HandlerMoves ==
  ASSUME Steady, BaseInv, [SaleNext]_allVars, NEW h \in Handlers
  PROVE  \/ handler'[h] = handler[h]
         \/ handler'[h] = FreeHandler
         \/ Opens(h)
         \/ GoesOn(h)
         \/ HearsSettle(h)
<1>0. handler \in [Handlers -> HandlerStates]
  BY HandlerType DEF BaseInv
<1>1. ASSUME NEW g \in Handlers, Verify(g) PROVE handler'[h] = handler[h] \/ GoesOn(h)
  <2>1. CASE g = h
    BY <1>0, <1>1, <2>1 DEF Verify, GoesOn, HandlerStates
  <2>2. CASE g # h
    BY <1>0, <1>1, <2>2 DEF Verify
  <2> QED BY <2>1, <2>2
<1>2. ASSUME NEW g \in Handlers, CallSettle(g) PROVE handler'[h] = handler[h] \/ GoesOn(h)
  <2>1. ASSUME NEW r \in Requests, handler' = [handler EXCEPT ![g].call = r]
        PROVE  handler'[h] = handler[h] \/ GoesOn(h)
    <3>1. r # NoRequest
      BY SaleAssumption
    <3> QED BY <1>0, <1>2, <2>1, <3>1 DEF CallSettle, GoesOn, HandlerStates
  <2>2. ASSUME NEW said \in {"duplicate", "error"}, handler' = [handler EXCEPT ![g] = After(@, said)]
        PROVE  handler'[h] = handler[h] \/ GoesOn(h)
    BY <1>0, <2>2, AfterFields DEF GoesOn, Replies
  <2>3. \A r \in Requests : RefuseDuplicate(r, handler[g].pay) => SettleHeard(answer') = "duplicate"
    BY CopySays
  <2> QED BY <1>2, <2>1, <2>2, <2>3 DEF CallSettle
<1>3. ASSUME NEW r \in Requests, SettleMoves(r) PROVE handler'[h] = handler[h] \/ HearsSettle(h)
  BY <1>0, <1>3 DEF SettleMoves, Told, HearsSettle
<1>4. ASSUME NEW calls, handler' = Told(calls, "error") PROVE handler'[h] = handler[h] \/ GoesOn(h)
  BY <1>0, <1>4, AfterFields DEF Told, GoesOn, Replies
<1>5. ASSUME NEW r \in Requests, SettleUnheard(r) PROVE handler'[h] = handler[h] \/ GoesOn(h)
  BY <1>4, <1>5 DEF SettleUnheard
<1>6. ASSUME NEW f \in Facilitators, FacilitatorRestarts(f)
      PROVE  handler'[h] = handler[h] \/ GoesOn(h)
  BY <1>4, <1>6 DEF FacilitatorRestarts
<1>7. ASSUME NEW g \in Handlers, Answer(g) \/ Record(g)
      PROVE  handler'[h] = handler[h] \/ handler'[h] = FreeHandler \/ GoesOn(h)
  BY <1>0, <1>7 DEF Answer, Record, GoesOn, HandlerStates
<1>8. ASSUME NEW g \in Handlers, NEW p \in Payments,
             WalletPays(g, p) \/ TerminalPays(g, p) \/ Resend(g, p)
      PROVE  handler'[h] = handler[h] \/ Opens(h)
  <2>1. /\ Arrives(g, p) /\ p \in Payments \ signed /\ p \in signed' /\ UNCHANGED heard
    BY <1>8 DEF WalletPays, TerminalPays, Resend, Steady, Terminals
  <2> DEFINE hd == [FreeHandler EXCEPT !.stage = "verify", !.pay = p]
  <2>2. handler' = [handler EXCEPT ![g] = hd] /\ handler[g].stage = "free"
    BY <2>1 DEF Arrives
  <2>3. CASE g = h
    <3>1. handler'[h] = hd /\ \A f \in Handlers \ {h} : handler'[f] = handler[f]
      BY <1>0, <2>2, <2>3
    <3> QED BY <2>1, <2>2, <2>3, <3>1 DEF Opens
  <2>4. CASE g # h
    BY <1>0, <2>2, <2>4
  <2> QED BY <2>3, <2>4
<1>9. ASSUME NEW p \in Payments, LoseAnswer(p) PROVE handler'[h] = handler[h]
  BY <1>9 DEF LoseAnswer
<1>10. Click \/ Decline \/ PageSteps \/ LookupFails \/ Reload \/ ChainMoves \/ UNCHANGED allVars
       => UNCHANGED handler
  BY DEF Click, Decline, PageSteps, PageHears, Ask, AnswerLookup, HearLookup, LookupFails,
         Reload, ChainMoves, allVars, saleVars
<1> QED BY <1>1, <1>2, <1>3, <1>5, <1>6, <1>7, <1>8, <1>9, <1>10 DEF SaleNext, Serve

\* Nobody settles a payment no handler is about to settle.
LEMMA QuietHandler ==
  ASSUME BaseInv, HandlersInv, NEW h \in Handlers, handler'[h] = handler[h], handler[h].stage # "free",
         NEW g \in Handlers, handler[g].pay = handler[h].pay
  PROVE  ~CallSettle(g)
<1>1. g = h
  BY DEF HandlersInv, BaseInv, CallsInv
<1>0. handler \in [Handlers -> HandlerStates]
  BY HandlerType DEF BaseInv
<1>2. ASSUME CallSettle(h) PROVE handler'[h] # handler[h]
  <2>1. ASSUME NEW r \in Requests, handler' = [handler EXCEPT ![h].call = r]
        PROVE  handler'[h] # handler[h]
    BY <1>0, <1>2, <2>1, SaleAssumption DEF CallSettle, HandlerStates
  <2>2. ASSUME NEW said \in {"duplicate", "error"}, handler' = [handler EXCEPT ![h] = After(@, said)]
        PROVE  handler'[h] # handler[h]
    BY <1>0, <1>2, <2>2, AfterFields DEF CallSettle, Replies
  <2>3. \A r \in Requests : RefuseDuplicate(r, handler[h].pay) => SettleHeard(answer') = "duplicate"
    BY CopySays
  <2> QED BY <1>2, <2>1, <2>2, <2>3 DEF CallSettle
<1> QED BY <1>1, <1>2

\* The settle that h called says a payment is refused, pending or aborted, and so it is.
LEMMA HeardSettleRests ==
  ASSUME Steady, BaseInv, LooseInv, UnsentInv, [SaleNext]_allVars, NEW h \in Handlers,
         HearsSettle(h)
  PROVE  HandlerRests(h)' /\ handler'[h].pay = handler[h].pay
<1> PICK r \in Requests : /\ SettleMoves(r)
                          /\ phase'[r] = Idle
                          /\ handler[h].call = r
                          /\ handler'[h] = After(handler[h], SettleHeard(answer'))
  BY DEF HearsSettle
<1> DEFINE said == SettleHeard(answer')
<1>0. /\ handler[h] \in HandlerStates /\ r # NoRequest
      /\ TypeInv /\ ClaimIsHeld /\ Serves \in [Requests -> Facilitators]
      /\ record \in [Facilitators -> Records] /\ phase[r] # Idle
      /\ Step(r) \/ Panic(r)
  BY HandlerType, FacilitatorAssumption, SaleAssumption, StepEndsOrKeeps
     DEF BaseInv, PromiseInv, SettleInv, TypeInv, TypeOK, SettleMoves, Ends
<1>1. pay[r] = handler[h].pay /\ handler[h].pay \in Payments
  BY <1>0, PaidForPayment DEF BaseInv, CallsInv
<1> PICK p \in Payments : p = handler[h].pay /\ p = pay[r]
  BY <1>1
<1>2. /\ said \in {"settled", "aborted", "pending", "refused", "error"}
      /\ said = "aborted" => outcome[p] = "aborted"
      /\ said = "pending" => NotDelivered(r)
      /\ said = "refused" => GivesUp(r) /\ ~Delivering(r)
  BY <1>0, SettleSays
<1>3. ASSUME NEW s \in Requests
      PROVE  /\ said = "pending" => record'[Serves[s]][p].state = "pending"
             /\ said = "refused" => record'[Serves[s]][p].state = "unclaimed"
  <2>1. Serves[s] = Serves[r] /\ record[Serves[r]] \in Records /\ Serves[r] \in Facilitators
    BY <1>0 DEF Steady
  <2>2. said = "pending" => record'[Serves[r]][p].state = "pending"
    <3>1. said = "pending" =>
            record' = [record EXCEPT ![Serves[r]] = MarkedPending(record[Serves[r]], p)]
      BY <1>2 DEF NotDelivered, Return
    <3>2. MarkedPending(record[Serves[r]], p)[p] =
            [state |-> "pending", hash |-> TRUE,
             at |-> IF record[Serves[r]][p].at = NoTime THEN 0 ELSE record[Serves[r]][p].at]
      BY <1>1, <2>1, MarkedPendingEntries
    <3>3. MarkedPending(record[Serves[r]], p)[p].state = "pending"
      BY <3>2
    <3> QED BY <1>0, <2>1, <3>1, <3>3
  <2>3. said = "refused" => record'[Serves[r]][p].state = "unclaimed"
    <3>1. said = "refused" =>
            record' = [record EXCEPT ![Serves[r]] = Released(record[Serves[r]], p)]
      BY <1>2 DEF GivesUp
    <3>2. Released(record[Serves[r]], p)[p].state = "unclaimed"
      BY <1>1, <2>1, ReleasedEntries DEF Unclaimed
    <3> QED BY <1>0, <2>1, <3>1, <3>2
  <2> QED BY <2>1, <2>2, <2>3
<1>4. said = "refused" => p \notin loose'
  <2>1. said = "refused" => phase[r] \in {"account", "simulate", "checked", "sending"}
    BY <1>0, <1>2 DEF Delivering, Phases, Idle, TypeInv, TypeOK
  <2> QED BY <2>1 DEF UnsentInv, SettleMoves
<1>5. outcome[p] = "aborted" => outcome'[p] = "aborted"
  <2>1. outcome[p] = "aborted" => p \in Executed
    BY <1>1 DEF Executed
  <2> QED BY <2>1, SaleMoves, OutcomeStays DEF BaseInv
<1>6. said \in Replies
  BY <1>2 DEF Replies
<1>7. handler'[h] = After(handler[h], said)
  OBVIOUS
<1> HIDE DEF said
<1>8. /\ handler'[h].pay = p /\ handler'[h].call = NoRequest
      /\ \/ said = "pending" /\ handler'[h].stage = "again"
         \/ handler'[h].stage = "answer" /\ handler'[h].reply = said
  BY <1>0, <1>1, <1>6, <1>7, AfterFields
<1>9. said = "refused" => Untouched(p)'
  BY <1>3, <1>4 DEF Untouched
<1> QED BY <1>1, <1>2, <1>3, <1>5, <1>8, <1>9 DEF HandlerRests

\* A payment without a handler, or whose handler does not settle, rests as it did.
LEMMA HandlerRestsNext ==
  ASSUME Steady, BaseInv, LooseInv, DatesInv, UnsentInv, HandlersInv, [SaleNext]_allVars,
         NEW h \in Handlers
  PROVE  HandlerRests(h)'
<1>0. handler \in [Handlers -> HandlerStates]
  BY HandlerType DEF BaseInv
<1>1. CASE handler'[h] = handler[h]
  <2>1. CASE handler[h].stage = "free"
    BY <1>1, <2>1 DEF HandlerRests
  <2>2. CASE handler[h].stage # "free"
    <3>1. PICK p \in Payments : handler[h].pay = p
      BY <2>2, PaidForPayment
    <3>2. \A g \in Handlers : handler[g].pay = p => ~CallSettle(g)
      BY <1>1, <2>2, <3>1, QuietHandler
    <3>3. Untouched(p) => Untouched(p)'
      BY <3>2, UntouchedStays
    <3>4. (\A r \in Requests : record[Serves[r]][p].state = "pending")
          => \A r \in Requests : record'[Serves[r]][p].state = "pending"
      BY <3>2, EntryUnmoved
    <3>5. outcome[p] = "aborted" => outcome'[p] = "aborted"
      <4>1. outcome[p] = "aborted" => p \in Executed
        BY DEF Executed
      <4> QED BY <4>1, SaleMoves, OutcomeStays DEF BaseInv
    <3>6. handler'[h].pay = p /\ HandlerRests(h)
      BY <1>1, <3>1 DEF HandlersInv
    <3> QED BY <1>1, <3>1, <3>3, <3>4, <3>5, <3>6 DEF HandlerRests
  <2> QED BY <2>1, <2>2
<1>2. CASE handler'[h] = FreeHandler
  BY <1>2 DEF HandlerRests, FreeHandler
<1>3. CASE Opens(h)
  <2>1. PICK p \in Payments \ signed :
          handler'[h] = [FreeHandler EXCEPT !.stage = "verify", !.pay = p]
    BY <1>3 DEF Opens
  <2>2. \A g \in Handlers : handler[g].pay # p
    BY <2>1, FacilitatorAssumption DEF HandlersInv
  <2>3. Untouched(p)'
    BY <2>1, <2>2, UntouchedStays DEF HandlersInv
  <2> QED BY <2>1, <2>3 DEF HandlerRests, FreeHandler
<1>4. CASE GoesOn(h)
  <2>1. CASE handler[h].stage = "verify"
    <3>1. PICK p \in Payments : handler[h].pay = p
      BY <2>1, PaidForPayment
    <3>2. handler[h].call = NoRequest
      BY <2>1 DEF BaseInv, CallsInv
    <3>3. \A g \in Handlers : handler[g].pay = p => ~CallSettle(g)
      <4>1. ~CallSettle(h)
        BY <2>1 DEF CallSettle
      <4> QED BY <3>1, <4>1, FacilitatorAssumption DEF HandlersInv
    <3>4. Untouched(p)'
      <4>1. Untouched(p)
        BY <2>1, <3>1, <3>2 DEF HandlersInv, HandlerRests
      <4> QED BY <3>3, <4>1, UntouchedStays
    <3>5. handler'[h].pay = p
      BY <1>4, <3>1 DEF GoesOn
    <3> QED BY <1>4, <2>1, <3>4, <3>5 DEF GoesOn, HandlerRests
  <2>2. CASE handler[h].stage # "verify"
    BY <1>4, <2>2 DEF GoesOn, HandlerRests
  <2> QED BY <2>1, <2>2
<1>5. CASE HearsSettle(h)
  BY <1>5, HeardSettleRests
<1> QED BY <1>1, <1>2, <1>3, <1>4, <1>5, HandlerMoves

\* Whose payment a handler has: the one it had, one signed in this step, or none.
LEMMA HandlerPays ==
  ASSUME Steady, BaseInv, LooseInv, UnsentInv, [SaleNext]_allVars, NEW h \in Handlers
  PROVE  handler'[h].pay \in {handler[h].pay, NoPayment} \/ Opens(h)
<1>1. FreeHandler.pay = NoPayment
  BY DEF FreeHandler
<1> QED BY <1>1, HandlerMoves, HeardSettleRests DEF GoesOn

LEMMA HandlersInvNext ==
  ASSUME Steady, BaseInv, LooseInv, DatesInv, UnsentInv, HandlersInv, [SaleNext]_allVars
  PROVE  HandlersInv'
<1>0. signed \subseteq signed' /\ signed' \subseteq Payments
  BY SignedGrows, PageTypeNext DEF BaseInv
<1>1. ASSUME NEW h \in Handlers, Opens(h)
      PROVE  \E p \in Payments \ signed : handler'[h].pay = p /\ p \in signed'
  BY <1>1 DEF Opens, FreeHandler
<1>2. \A h \in Handlers : handler'[h].pay \in signed' \cup {NoPayment}
  BY <1>0, <1>1, HandlerPays DEF HandlersInv
<1>3. ASSUME NEW g \in Handlers, NEW h \in Handlers,
             handler'[g].pay = handler'[h].pay, handler'[h].pay # NoPayment
      PROVE  g = h
  <2>1. ASSUME NEW f \in Handlers, NEW k \in Handlers, Opens(f), f # k,
               handler'[k].pay = handler'[f].pay
        PROVE  FALSE
    <3>1. handler'[k].pay \in signed \cup {NoPayment}
      BY <2>1 DEF Opens, HandlersInv
    <3> QED BY <1>1, <2>1, <3>1, FacilitatorAssumption
  <2>2. CASE Opens(g) \/ Opens(h)
    BY <1>3, <2>1, <2>2
  <2>3. CASE ~Opens(g) /\ ~Opens(h)
    BY <1>3, <2>3, HandlerPays DEF HandlersInv
  <2> QED BY <2>2, <2>3
<1>4. ASSUME NEW p \in Payments \ signed' PROVE Untouched(p)'
  <2>1. p \in Payments \ signed
    BY <1>0, <1>4
  <2>2. \A h \in Handlers : handler[h].pay # p
    BY <2>1, FacilitatorAssumption DEF HandlersInv
  <2> QED BY <2>1, <2>2, UntouchedStays DEF HandlersInv
<1>5. \A h \in Handlers : HandlerRests(h)'
  BY HandlerRestsNext
<1> QED BY <1>2, <1>3, <1>4, <1>5 DEF HandlersInv

\* What the buyer of p hears, and what it waits for.
LEMMA HeardMoves ==
  ASSUME Steady, BaseInv, [SaleNext]_allVars, NEW p \in Payments
  PROVE  \/ /\ heard'[p] \in {heard[p], "lost"}
            /\ waits'[p] \in {waits[p], NoHandler} \/ p \notin signed
         \/ \E h \in Handlers :
              /\ Answer(h) /\ handler[h].pay = p
              /\ heard'[p] = handler[h].reply /\ waits'[p] = NoHandler
<1>0. SaleTypeOK
  BY DEF BaseInv
<1>1. ASSUME NEW h \in Handlers, Answer(h)
      PROVE  \/ heard'[p] = heard[p] /\ waits'[p] = waits[p]
             \/ /\ handler[h].pay = p
                /\ heard'[p] = handler[h].reply /\ waits'[p] = NoHandler
  BY <1>0, <1>1 DEF Answer, SaleTypeOK
<1>2. ASSUME NEW h \in Handlers, Verify(h) \/ CallSettle(h) \/ Record(h)
      PROVE  UNCHANGED <<heard, waits>>
  BY <1>2 DEF Verify, CallSettle, Record
<1>3. ASSUME NEW h \in Handlers, NEW q \in Payments,
             WalletPays(h, q) \/ TerminalPays(h, q) \/ Resend(h, q)
      PROVE  UNCHANGED heard /\ (waits'[p] = waits[p] \/ p \notin signed)
  <2>1. /\ q \notin signed /\ UNCHANGED heard
        /\ waits' = [waits EXCEPT ![q] = h]
    BY <1>3 DEF WalletPays, TerminalPays, Resend, Arrives, Steady
  <2> QED BY <1>0, <2>1 DEF SaleTypeOK
<1>4. ASSUME NEW q \in Payments, LoseAnswer(q)
      PROVE  heard'[p] \in {heard[p], "lost"} /\ waits'[p] \in {waits[p], NoHandler}
  BY <1>0, <1>4 DEF LoseAnswer, SaleTypeOK
<1>5. CASE Reload
  BY <1>5 DEF Reload
<1>6. ASSUME NEW r \in Requests, SettleMoves(r) \/ SettleUnheard(r)
      PROVE  UNCHANGED <<heard, waits>>
  BY <1>6 DEF SettleMoves, SettleUnheard
<1>7. ASSUME NEW f \in Facilitators, FacilitatorRestarts(f) PROVE UNCHANGED <<heard, waits>>
  BY <1>7 DEF FacilitatorRestarts
<1>8. Click \/ Decline \/ PageSteps \/ LookupFails \/ ChainMoves \/ UNCHANGED allVars
      => UNCHANGED <<heard, waits>>
  BY DEF Click, Decline, PageSteps, PageHears, Ask, AnswerLookup, HearLookup, LookupFails,
         ChainMoves, allVars, saleVars
<1> QED BY <1>1, <1>2, <1>3, <1>4, <1>5, <1>6, <1>7, <1>8 DEF SaleNext, Serve

\* What a buyer was told of a refused payment stays told, and stays so.
LEMMA ToldStays ==
  ASSUME Steady, BaseInv, RefusalInv, [SaleNext]_allVars, NEW p \in Payments, ToldNotPaid(p)
  PROVE  /\ heard'[p] = heard[p] /\ waits'[p] = NoHandler
         /\ p \in signed'
         /\ Untouched(p) => Untouched(p)'
         /\ outcome[p] = "aborted" => outcome'[p] = "aborted"
         /\ \A h \in Handlers : handler'[h].pay # p
<1>0. /\ p \in signed /\ waits[p] = NoHandler /\ p # NoPayment
      /\ \A h \in Handlers : handler[h].pay # p
  BY FacilitatorAssumption DEF RefusalInv, HeardInv
<1>1. heard'[p] \in {heard[p], "lost"} /\ waits'[p] = NoHandler
  BY <1>0, HeardMoves
<1>2. heard'[p] = heard[p]
  <2>1. ASSUME NEW q \in Payments, LoseAnswer(q) PROVE q # p
    BY <1>0, <2>1 DEF LoseAnswer
  <2>2. ASSUME NEW q \in Payments, LoseAnswer(q) PROVE heard'[p] = heard[p]
    BY <2>1, <2>2 DEF LoseAnswer, BaseInv, SaleTypeOK
  <2>3. Reload => heard'[p] = heard[p]
    BY DEF Reload, ToldNotPaid
  <2>4. ASSUME NEW h \in Handlers, Serve(h) PROVE heard'[p] = heard[p]
    <3>1. Answer(h) => heard'[p] = heard[p]
      BY <1>0 DEF Answer, BaseInv, SaleTypeOK
    <3> QED BY <2>4, <3>1 DEF Serve, Verify, CallSettle, Record
  <2>5. ASSUME NEW h \in Handlers, NEW q \in Payments,
               WalletPays(h, q) \/ TerminalPays(h, q) \/ Resend(h, q)
        PROVE  heard'[p] = heard[p]
    BY <2>5 DEF WalletPays, TerminalPays, Resend
  <2>6. ASSUME NEW r \in Requests, SettleMoves(r) \/ SettleUnheard(r) PROVE heard'[p] = heard[p]
    BY <2>6 DEF SettleMoves, SettleUnheard
  <2>7. ASSUME NEW f \in Facilitators, FacilitatorRestarts(f) PROVE heard'[p] = heard[p]
    BY <2>7 DEF FacilitatorRestarts
  <2>8. Click \/ Decline \/ PageSteps \/ LookupFails \/ ChainMoves \/ UNCHANGED allVars
        => heard'[p] = heard[p]
    BY DEF Click, Decline, PageSteps, PageHears, Ask, AnswerLookup, HearLookup, LookupFails,
           ChainMoves, allVars, saleVars
  <2> QED BY <2>2, <2>3, <2>4, <2>5, <2>6, <2>7, <2>8 DEF SaleNext
<1>3. p \in signed'
  BY <1>0, SignedGrows DEF BaseInv
<1>4. Untouched(p) => Untouched(p)'
  BY <1>0, UntouchedStays DEF RefusalInv
<1>5. outcome[p] = "aborted" => outcome'[p] = "aborted"
  <2>1. outcome[p] = "aborted" => p \in Executed
    BY DEF Executed
  <2> QED BY <2>1, SaleMoves, OutcomeStays DEF BaseInv
<1>6. ASSUME NEW h \in Handlers PROVE handler'[h].pay # p
  <2>1. Opens(h) => handler'[h].pay \in Payments \ signed
    BY DEF Opens, FreeHandler
  <2> QED BY <1>0, <2>1, HandlerPays DEF RefusalInv
<1> QED BY <1>1, <1>2, <1>3, <1>4, <1>5, <1>6

\* What an answer tells a buyer of a refused payment is so, and ends its handler.
LEMMA AnswerTells ==
  ASSUME Steady, BaseInv, RefusalInv, [SaleNext]_allVars, NEW h \in Handlers, Answer(h),
         handler[h].reply \in {"unverified", "unchecked", "refused", "aborted"},
         NEW p \in Payments, p = handler[h].pay
  PROVE  /\ handler[h].reply # "aborted" => Untouched(p)'
         /\ handler[h].reply = "aborted" => outcome'[p] = "aborted"
         /\ p \in signed'
         /\ \A g \in Handlers : handler'[g].pay # p
<1>0. /\ handler \in [Handlers -> HandlerStates] /\ p # NoPayment
      /\ HandlersInv /\ handler[h].stage = "answer"
  BY HandlerType, FacilitatorAssumption DEF BaseInv, RefusalInv, Answer
<1>1. \A g \in Handlers : handler[g].pay = p => g = h
  BY <1>0 DEF HandlersInv
<1>2. ~CallSettle(h)
  BY <1>0 DEF CallSettle
<1>3. handler[h].reply # "aborted" => Untouched(p)'
  <2>1. handler[h].reply # "aborted" => Untouched(p)
    BY <1>0 DEF HandlersInv, HandlerRests
  <2> QED BY <1>1, <1>2, <2>1, UntouchedStays DEF RefusalInv
<1>4. handler[h].reply = "aborted" => outcome'[p] = "aborted"
  <2>1. handler[h].reply = "aborted" => outcome[p] = "aborted" /\ p \in Executed
    BY <1>0 DEF HandlersInv, HandlerRests, Executed
  <2> QED BY <2>1, SaleMoves, OutcomeStays DEF BaseInv
<1>5. p \in signed'
  <2>1. p \in signed
    BY <1>0 DEF HandlersInv
  <2> QED BY <2>1, SignedGrows DEF BaseInv
<1>6. handler' = [handler EXCEPT ![h] = FreeHandler]
  BY <1>0 DEF Answer
<1>7. FreeHandler.pay = NoPayment
  BY DEF FreeHandler
<1> QED BY <1>0, <1>1, <1>3, <1>4, <1>5, <1>6, <1>7

LEMMA HeardInvNext ==
  ASSUME Steady, BaseInv, RefusalInv, [SaleNext]_allVars PROVE HeardInv'
<1> SUFFICES ASSUME NEW p \in Payments, ToldNotPaid(p)'
             PROVE  /\ heard'[p] \in {"unverified", "unchecked", "refused"} => Untouched(p)'
                    /\ heard'[p] = "aborted" => outcome'[p] = "aborted"
                    /\ p \in signed'
                    /\ waits'[p] = NoHandler
                    /\ \A h \in Handlers : handler'[h].pay # p
  BY DEF HeardInv, ToldNotPaid
<1>1. CASE ToldNotPaid(p)
  BY <1>1, ToldStays DEF RefusalInv, HeardInv
<1>2. CASE ~ToldNotPaid(p)
  <2>1. PICK h \in Handlers :
          /\ Answer(h) /\ handler[h].pay = p
          /\ heard'[p] = handler[h].reply /\ waits'[p] = NoHandler
    BY <1>2, HeardMoves DEF ToldNotPaid
  <2> QED BY <2>1, AnswerTells DEF ToldNotPaid
<1> QED BY <1>1, <1>2

LEMMA RefusalInvNext ==
  ASSUME Steady, BaseInv, RefusalInv, [SaleNext]_allVars PROVE RefusalInv'
BY LooseNext, DatesNext, UnsentNext, HandlersInvNext, HeardInvNext DEF RefusalInv

LEMMA RefusalInvInit == SaleInit => RefusalInv
<1> SUFFICES ASSUME SaleInit PROVE RefusalInv
  OBVIOUS
<1>1. /\ Executed = {} /\ loose = {} /\ \A n \in Nodes : mempool[n] = {}
      /\ \A r \in Requests : phase[r] = Idle
      /\ \A f \in Facilitators, p \in Payments : record[f][p] = Unclaimed
      /\ Serves \in [Requests -> Facilitators]
  BY FacilitatorAssumption DEF SaleInit, Init, ChainInit, Executed, NewRecord
<1>2. LooseInv /\ DatesInv /\ UnsentInv
  BY <1>1 DEF LooseInv, DatesInv, UnsentInv, Unclaimed, NoTime, Idle
<1>3. \A p \in Payments : Untouched(p)
  BY <1>1 DEF Untouched, Unclaimed
<1>4. \A h \in Handlers : handler[h].stage = "free" /\ handler[h].pay = NoPayment
  BY DEF SaleInit, FreeHandler
<1>5. \A h \in Handlers : HandlerRests(h)
  BY <1>4 DEF HandlerRests
<1>6. HandlersInv
  BY <1>3, <1>4, <1>5 DEF HandlersInv
<1>7. HeardInv
  BY DEF SaleInit, HeardInv, ToldNotPaid
<1> QED BY <1>2, <1>6, <1>7 DEF RefusalInv

LEMMA RefusalInvariant == ASSUME Steady PROVE SaleSpec => [](BaseInv /\ RefusalInv)
<1>1. BaseInv /\ RefusalInv /\ [SaleNext]_allVars => RefusalInv'
  BY RefusalInvNext
<1> QED BY <1>1, BaseInit, BaseNext, RefusalInvInit, PTL DEF SaleSpec

LEMMA ToldNotCharged ==
  ASSUME BaseInv, RefusalInv, NEW p \in Payments, ToldNotPaid(p) PROVE outcome[p] # "ok"
<1>1. Untouched(p) => p \notin Executed
  BY DEF RefusalInv, LooseInv, Untouched
<1> QED BY <1>1 DEF RefusalInv, HeardInv, ToldNotPaid, Executed

(***************************************************************************)
(* A buyer told that a payment was refused was not charged, and will not be,  *)
(* with one process that nothing restarts and browsers that send a request    *)
(* once: a refusal is given only of a payment no node was sent, or that the   *)
(* chain aborted, and the second settle of the middleware reconciles and      *)
(* never checks the payment anew (facilitator.go, reconcile; the seller's     *)
(* middleware and answerSettleError).                                         *)
(***************************************************************************)
THEOREM RefusedWasNotCharged == ASSUME Steady PROVE SaleSpec => []RefusedIsNotCharged
<1>1. BaseInv /\ RefusalInv => RefusedIsNotCharged
  BY ToldNotCharged DEF RefusedIsNotCharged
<1> QED BY <1>1, RefusalInvariant, PTL

-----------------------------------------------------------------------------
(* A page pays once for a reading *)

\* Of the payments signed since the page was loaded, all but one were refused to it,
\* and all were while its button may be clicked.
LoadsInv ==
  /\ page.outcome \in {"none", "refused"} => \A p \in loads : ToldNotPaid(p)
  /\ page.outcome = "paying" => \A p \in loads \ {page.pay} : ToldNotPaid(p)
  /\ \E c \in Payments \cup {NoPayment} : \A p \in loads \ {c} : ToldNotPaid(p)

\* Only a wallet adds to them, and only a page that pays has one.
LEMMA LoadsMove ==
  ASSUME BaseInv, PageInv, [SaleNext]_allVars
  PROVE  \/ UNCHANGED loads /\ page'.outcome = page.outcome /\ page'.pay = page.pay
         \/ UNCHANGED loads /\ (Click \/ Decline \/ PageHears \/ HearLookup)
         \/ loads' = {}
         \/ /\ page.outcome = "paying" /\ page'.outcome = "paying" /\ page.pay = NoPayment
            /\ page'.pay \in Payments /\ loads' = loads \cup {page'.pay}
<1>0. page \in [outcome : Shown, pay : PagePayments \cup {NoPayment},
                shows : Payments \cup {NoPayment}, asking : {"no", "asked", "found"}]
  BY DEF BaseInv, SaleTypeOK
<1>1. ASSUME NEW h \in Handlers, NEW p \in Payments, WalletPays(h, p)
      PROVE  /\ page.outcome = "paying" /\ page'.outcome = "paying" /\ page.pay = NoPayment
             /\ page'.pay \in Payments /\ loads' = loads \cup {page'.pay}
  BY <1>0, <1>1 DEF WalletPays
<1>2. CASE Ask \/ AnswerLookup \/ LookupFails
  BY <1>0, <1>2 DEF Ask, AnswerLookup, LookupFails
<1>3. Click \/ Decline \/ PageHears \/ HearLookup => UNCHANGED loads
  BY DEF Click, Decline, PageHears, HearLookup
<1>4. ASSUME NEW h \in Handlers, Serve(h) PROVE UNCHANGED <<page, loads>>
  BY <1>4 DEF Serve, Verify, CallSettle, Answer, Record
<1>5. ASSUME NEW h \in Handlers, NEW p \in Payments, TerminalPays(h, p) \/ Resend(h, p)
      PROVE  UNCHANGED <<page, loads>>
  BY <1>5 DEF TerminalPays, Resend
<1>6. ASSUME NEW p \in Payments, LoseAnswer(p) PROVE UNCHANGED <<page, loads>>
  BY <1>6 DEF LoseAnswer
<1>7. ASSUME NEW r \in Requests, SettleMoves(r) \/ SettleUnheard(r)
      PROVE  UNCHANGED <<page, loads>>
  BY <1>7 DEF SettleMoves, SettleUnheard
<1>8. ASSUME NEW f \in Facilitators, FacilitatorRestarts(f) PROVE UNCHANGED <<page, loads>>
  BY <1>8 DEF FacilitatorRestarts
<1>9. ChainMoves \/ UNCHANGED allVars => UNCHANGED <<page, loads>>
  BY DEF ChainMoves, allVars, saleVars
<1>10. Reload => loads' = {}
  BY DEF Reload
<1> QED BY <1>1, <1>2, <1>3, <1>4, <1>5, <1>6, <1>7, <1>8, <1>9, <1>10 DEF SaleNext, PageSteps

LEMMA LoadsInvNext ==
  ASSUME Steady, BaseInv, RefusalInv, PageInv, LoadsInv, [SaleNext]_allVars
  PROVE  LoadsInv'
<1>0. /\ loads \subseteq Payments /\ NoPayment \notin Payments
      /\ heard \in [Payments -> Replies \cup {"none", "lost"}]
      /\ page \in [outcome : Shown, pay : PagePayments \cup {NoPayment},
                   shows : Payments \cup {NoPayment}, asking : {"no", "asked", "found"}]
      /\ PagePayments \subseteq Payments
  BY FacilitatorAssumption, SaleAssumption DEF BaseInv, SaleTypeOK
<1>1. \A p \in loads : ToldNotPaid(p) => ToldNotPaid(p)'
  BY <1>0, ToldStays DEF ToldNotPaid
<1>2. CASE UNCHANGED loads /\ page'.outcome = page.outcome /\ page'.pay = page.pay
  BY <1>1, <1>2 DEF LoadsInv
<1>3. CASE loads' = {}
  BY <1>3 DEF LoadsInv
<1>4. CASE /\ page.outcome = "paying" /\ page'.outcome = "paying" /\ page.pay = NoPayment
           /\ page'.pay \in Payments /\ loads' = loads \cup {page'.pay}
  <2>1. \A p \in loads : ToldNotPaid(p)'
    BY <1>0, <1>1, <1>4 DEF LoadsInv
  <2>2. \A p \in loads' \ {page'.pay} : ToldNotPaid(p)'
    BY <1>4, <2>1
  <2> QED BY <1>4, <2>2 DEF LoadsInv
<1>5. ASSUME UNCHANGED loads, \A p \in loads : ToldNotPaid(p)' PROVE LoadsInv'
  BY <1>5 DEF LoadsInv
<1>6. CASE UNCHANGED loads /\ (Click \/ HearLookup)
  <2>1. CASE page.outcome \in {"none", "refused"}
    BY <1>1, <1>5, <1>6, <2>1 DEF LoadsInv
  <2>2. CASE page.outcome \notin {"none", "refused"}
    <3>1. page'.outcome = page.outcome /\ page'.pay = page.pay
      BY <1>0, <1>6, <2>2 DEF Click, HearLookup, MayShow
    <3> QED BY <1>2, <1>6, <3>1
  <2> QED BY <2>1, <2>2
<1>7. CASE UNCHANGED loads /\ Decline
  BY <1>0, <1>1, <1>5, <1>7 DEF Decline, LoadsInv
<1>8. CASE UNCHANGED loads /\ PageHears
  <2>0. page.pay \in Payments /\ heard[page.pay] # "none"
    BY <1>0, <1>8 DEF PageHears
  <2>1. \A p \in loads \ {page.pay} : ToldNotPaid(p) /\ ToldNotPaid(p)'
    BY <1>1, <1>8 DEF PageHears, PageInv, LoadsInv
  <2>2. CASE ToldNotPaid(page.pay)
    BY <1>1, <1>5, <1>8, <2>1, <2>2
  <2>3. CASE ~ToldNotPaid(page.pay)
    <3>1. page'.outcome \in {"paid", "pending"}
      <4>1. heard[page.pay] \in {"settled", "pending", "duplicate", "error", "lost"}
        BY <1>0, <2>0, <2>3 DEF ToldNotPaid, Replies
      <4>2. OutcomeOf(heard[page.pay]) \in {"paid", "pending"}
        BY <4>1 DEF OutcomeOf, MayStillSettle
      <4> QED BY <1>0, <1>8, <4>2 DEF PageHears
    <3>2. \E c \in Payments \cup {NoPayment} : \A p \in loads' \ {c} : ToldNotPaid(p)'
      BY <1>8, <2>0, <2>1
    <3> QED BY <3>1, <3>2 DEF LoadsInv
  <2> QED BY <2>2, <2>3
<1> QED BY <1>2, <1>3, <1>4, <1>6, <1>7, <1>8, LoadsMove

(***************************************************************************)
(* A page pays for a reading once, under the same conditions: the button      *)
(* comes back only after a refusal, which is of a payment that was not and     *)
(* will not be executed, and is withdrawn by any payment that may still be     *)
(* (paywall.js, settle and mayStillSettle).                                   *)
(***************************************************************************)
THEOREM OnePaymentPerPage == ASSUME Steady PROVE SaleSpec => []OnePaymentPerReading
<1>1. SaleInit => LoadsInv
  BY DEF SaleInit, LoadsInv
<1>2. BaseInv /\ RefusalInv /\ PageInv /\ LoadsInv /\ [SaleNext]_allVars => LoadsInv'
  BY LoadsInvNext
<1>3. BaseInv /\ RefusalInv /\ LoadsInv => OnePaymentPerReading
  <2> SUFFICES ASSUME BaseInv, RefusalInv, LoadsInv, NEW p \in loads, NEW q \in loads,
                      outcome[p] = "ok", outcome[q] = "ok"
               PROVE  p = q
    BY DEF OnePaymentPerReading
  <2>1. p \in Payments /\ q \in Payments
    BY DEF BaseInv, SaleTypeOK
  <2>2. ~ToldNotPaid(p) /\ ~ToldNotPaid(q)
    BY <2>1, ToldNotCharged
  <2> QED BY <2>2 DEF LoadsInv
<1> QED BY <1>1, <1>2, <1>3, RefusalInvariant, PageInvariant, PTL DEF SaleSpec

=============================================================================
