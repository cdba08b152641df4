------------------------- MODULE FacilitatorProofs -------------------------
(***************************************************************************)
(* Theorems about Facilitator, for any number of processes, requests,        *)
(* payments and nodes, lagging and restarting as they may, and any TTL.      *)
(***************************************************************************)
EXTENDS Facilitator, TLAPS

USE DEF Recent, NoTime

-----------------------------------------------------------------------------
(* The settlement record's operators *)

LEMMA OlderType == ASSUME NEW t \in Times PROVE Older(t) \in Times
BY TTLAssumption DEF Older, Times, Ages

LEMMA UnclaimedType == Unclaimed \in Entries /\ NewRecord \in Records
BY TTLAssumption DEF Unclaimed, Entries, Fields, NewRecord, Records, Times, Ages

LEMMA SweptType == ASSUME NEW rec \in Records PROVE Swept(rec) \in Records
BY UnclaimedType DEF Swept, Records

LEMMA ClaimedType ==
  ASSUME NEW rec \in Records, NEW p \in Payments
  PROVE  Claimed(rec, p) \in Records
<1> DEFINE old == Swept(rec)[p]
<1>1. Swept(rec) \in Records /\ old \in Entries
  BY SweptType DEF Records
<1>2. [old EXCEPT !.state = "settling"] \in Entries
  <2>1. old \in Fields /\ (old.hash <=> old.at # NoTime)
    BY <1>1 DEF Entries, Fields
  <2> HIDE DEF old
  <2> QED BY <2>1 DEF Entries, Fields
<1>3. Claimed(rec, p) = [Swept(rec) EXCEPT ![p] = [old EXCEPT !.state = "settling"]]
  BY <1>1 DEF Claimed, Records
<1> QED BY <1>1, <1>2, <1>3 DEF Records

LEMMA ReleasedType ==
  ASSUME NEW rec \in Records, NEW p \in Payments
  PROVE  Released(rec, p) \in Records
BY UnclaimedType DEF Released, Records

LEMMA MarkedSettledType ==
  ASSUME NEW rec \in Records, NEW p \in Payments
  PROVE  MarkedSettled(rec, p) \in Records
<1>1. [state |-> "settled", hash |-> TRUE, at |-> 0] \in Entries
  BY TTLAssumption DEF Entries, Fields, Times, Ages
<1> QED BY <1>1 DEF MarkedSettled, Records

LEMMA MarkedPendingType ==
  ASSUME NEW rec \in Records, NEW p \in Payments
  PROVE  MarkedPending(rec, p) \in Records
<1> DEFINE e == [state |-> "pending", hash |-> TRUE,
                 at |-> IF rec[p].at = NoTime THEN 0 ELSE rec[p].at]
<1>1. rec[p] \in Entries
  BY DEF Records
<1>2. e \in Entries
  BY <1>1, TTLAssumption DEF Entries, Fields, Times, Ages
<1>3. MarkedPending(rec, p) = [rec EXCEPT ![p] = e]
  BY DEF MarkedPending, Records
<1> QED BY <1>2, <1>3 DEF Records

LEMMA AgedType == ASSUME NEW rec \in Records PROVE Aged(rec) \in Records
<1> SUFFICES ASSUME NEW p \in Payments
             PROVE  [rec[p] EXCEPT !.at = Older(@)] \in Entries
  BY DEF Aged, Records
<1>1. rec[p] \in Entries
  BY DEF Records
<1>2. /\ Older(rec[p].at) \in Times
      /\ Older(rec[p].at) = NoTime <=> rec[p].at = NoTime
  BY <1>1, OlderType, TTLAssumption DEF Entries, Fields, Older, Times, Ages
<1> QED BY <1>1, <1>2 DEF Entries, Fields

-----------------------------------------------------------------------------
(* Types *)

\* A request settles a payment exactly while its settle is under way.
RequestOK == \A r \in Requests : phase[r] = Idle <=> pay[r] = NoPayment

TypeInv == TypeOK /\ RequestOK

LEMMA InitType == Init => TypeInv
<1> SUFFICES ASSUME Init PROVE TypeInv
  OBVIOUS
<1>1. ChainTypeOK
  BY DEF Init, ChainInit, ChainTypeOK, Outcomes
<1>2. NewRecord \in Records
  BY UnclaimedType
<1>3. Never \in [Facilitators -> [Payments -> Times]]
  BY DEF Never, Times
<1> QED BY <1>1, <1>2, <1>3 DEF Init, TypeInv, TypeOK, RequestOK, Phases, Idle

LEMMA AdmitType ==
  ASSUME ChainTypeOK, NEW n \in Nodes, NEW p \in Payments, Admit(n, p),
         UNCHANGED <<outcome, view>>
  PROVE  ChainTypeOK'
BY DEF ChainTypeOK, Admit

LEMMA ChainNextType == ChainTypeOK /\ ChainNext => ChainTypeOK'
<1> SUFFICES ASSUME ChainTypeOK, ChainNext PROVE ChainTypeOK'
  OBVIOUS
<1>e. Executed \subseteq Payments
  BY DEF Executed
<1> PICK n \in Nodes : \/ \E p \in Payments : Hear(n, p) \/ Commit(n, p)
                       \/ CatchUp(n)
                       \/ RestartNode(n)
  BY DEF ChainNext
<1>1. ASSUME NEW p \in Payments, Hear(n, p) PROVE ChainTypeOK'
  BY <1>1, AdmitType DEF Hear
<1>2. ASSUME NEW p \in Payments, Commit(n, p) PROVE ChainTypeOK'
  <2>1. outcome' \in [Payments -> Outcomes]
    BY <1>2 DEF Commit, ChainTypeOK
  <2>2. view' \in [Nodes -> SUBSET Payments]
    BY <1>2, <1>e DEF Commit, ChainTypeOK
  <2>3. mempool' \in [Nodes -> SUBSET Payments]
    BY <1>2 DEF Commit, ChainTypeOK
  <2> QED BY <2>1, <2>2, <2>3 DEF ChainTypeOK
<1>3. CASE CatchUp(n)
  BY <1>3, <1>e DEF CatchUp, ChainTypeOK
<1>4. CASE RestartNode(n)
  BY <1>4 DEF RestartNode, ChainTypeOK
<1> QED BY <1>1, <1>2, <1>3, <1>4

\* A settle that returns leaves what it returned well typed, and its request idle.
LEMMA ReturnType ==
  ASSUME TypeInv, NEW r \in Requests, phase[r] # Idle,
         NEW kind \in AnswerKinds, NEW hash \in BOOLEAN, NEW kept \in Records,
         Return(r, kind, hash, kept)
  PROVE  /\ record' \in [Facilitators -> Records]
         /\ phase' \in [Requests -> Phases]
         /\ pay' \in [Requests -> Payments \cup {NoPayment}]
         /\ ended' \in [Requests -> BOOLEAN]
         /\ answer' \in Answers
         /\ RequestOK'
<1>1. Serves[r] \in Facilitators /\ pay[r] \in Payments
  BY FacilitatorAssumption DEF TypeInv, TypeOK, RequestOK
<1>2. answer' \in Answers
  BY <1>1 DEF Return, Answers
<1>3. record' \in [Facilitators -> Records]
  BY <1>1 DEF Return, TypeInv, TypeOK
<1>4. RequestOK'
  BY DEF Return, TypeInv, TypeOK, RequestOK
<1> QED BY <1>2, <1>3, <1>4 DEF Return, TypeInv, TypeOK, Phases

LEMMA GiveBackType ==
  ASSUME TypeInv, NEW r \in Requests, phase[r] # Idle,
         NEW kind \in AnswerKinds, GiveBack(r, kind), ChainTypeOK'
  PROVE  TypeInv'
<1>1. Serves[r] \in Facilitators /\ pay[r] \in Payments
  BY FacilitatorAssumption DEF TypeInv, TypeOK, RequestOK
<1>2. Released(record[Serves[r]], pay[r]) \in Records
  BY <1>1, ReleasedType DEF TypeInv, TypeOK
<1> QED BY <1>2, ReturnType DEF GiveBack, TypeInv, TypeOK

LEMMA ProceedType ==
  ASSUME TypeInv, NEW r \in Requests, phase[r] # Idle,
         NEW next \in Phases \ {Idle}, Proceed(r, next), ChainTypeOK',
         sent' \in [Facilitators -> [Payments -> Times]]
  PROVE  TypeInv'
<1>1. RequestOK'
  BY DEF Proceed, TypeInv, TypeOK, RequestOK
<1> QED BY <1>1 DEF Proceed, TypeInv, TypeOK

LEMMA StepType == ASSUME TypeInv, NEW r \in Requests, Step(r) PROVE TypeInv'
<1>1. Serves[r] \in Facilitators
  BY FacilitatorAssumption
<1>2. sent \in [Facilitators -> [Payments -> Times]] /\ ChainTypeOK
  BY DEF TypeInv, TypeOK
<1>3. CASE ReadAccount(r)
  <2>1. phase[r] # Idle /\ ChainTypeOK'
    BY <1>3, <1>2 DEF ReadAccount, Idle, chainVars, ChainTypeOK
  <2>2. CASE Proceed(r, "simulate") /\ UNCHANGED sent
    BY <1>2, <2>1, <2>2, ProceedType DEF Phases, Idle
  <2>3. CASE GiveBack(r, "refused") \/ GiveBack(r, "noverdict")
    BY <2>1, <2>3, GiveBackType DEF AnswerKinds
  <2> QED BY <1>3, <2>2, <2>3 DEF ReadAccount
<1>4. CASE Simulate(r)
  <2>1. phase[r] # Idle /\ ChainTypeOK'
    BY <1>4, <1>2 DEF Simulate, Idle, chainVars, ChainTypeOK
  <2>2. CASE Proceed(r, "checked") /\ UNCHANGED sent
    BY <1>2, <2>1, <2>2, ProceedType DEF Phases, Idle
  <2>3. CASE GiveBack(r, "refused") \/ GiveBack(r, "noverdict")
    BY <2>1, <2>3, GiveBackType DEF AnswerKinds
  <2> QED BY <1>4, <2>2, <2>3 DEF Simulate
<1>5. CASE StartBroadcast(r)
  <2>1. phase[r] # Idle /\ ChainTypeOK'
    BY <1>5, <1>2 DEF StartBroadcast, Idle, chainVars, ChainTypeOK
  <2> QED BY <1>2, <1>5, <2>1, ProceedType DEF StartBroadcast, Phases, Idle
<1>6. CASE Broadcast(r)
  <2> PICK n \in Reach(r) : Admitted(r, n) \/ RefusedByNode(r, n) \/ Unanswered(r, n)
    BY <1>6 DEF Broadcast
  <2>1. n \in Nodes
    BY <1>1, FacilitatorAssumption DEF Reach
  <2>2. phase[r] # Idle /\ pay[r] \in Payments
    BY FacilitatorAssumption DEF Admitted, RefusedByNode, Unanswered, Idle, TypeInv, TypeOK, RequestOK
  <2>3. CASE Admitted(r, n)
    <3>1. ChainTypeOK'
      BY <1>2, <2>1, <2>2, <2>3, AdmitType DEF Admitted
    <3>2. sent' \in [Facilitators -> [Payments -> Times]]
      BY <1>1, <1>2, <2>2, <2>3, TTLAssumption DEF Admitted, Times, Ages
    <3> QED BY <2>2, <2>3, <3>1, <3>2, ProceedType DEF Admitted, Phases, Idle
  <2>4. CASE RefusedByNode(r, n)
    <3>1. ChainTypeOK'
      BY <1>2, <2>4 DEF RefusedByNode, chainVars, ChainTypeOK
    <3> QED BY <2>2, <2>4, <3>1, GiveBackType DEF RefusedByNode, AnswerKinds
  <2>5. CASE Unanswered(r, n)
    <3>1. ChainTypeOK'
      BY <1>2, <2>1, <2>2, <2>5, AdmitType DEF Unanswered, ChainTypeOK
    <3> QED BY <2>2, <2>5, <3>1, GiveBackType DEF Unanswered, AnswerKinds
  <2> QED BY <2>3, <2>4, <2>5
<1>7. CASE Delivered(r)
  <2> DEFINE kind == IF outcome[pay[r]] = "ok" THEN "settled" ELSE "aborted"
             kept == MarkedSettled(record[Serves[r]], pay[r])
  <2>1. phase[r] # Idle /\ pay[r] \in Payments
    BY <1>7, FacilitatorAssumption DEF Delivered, Delivering, Idle, TypeInv, TypeOK, RequestOK
  <2>2. kind \in AnswerKinds /\ kept \in Records
    BY <1>1, <2>1, MarkedSettledType DEF AnswerKinds, TypeInv, TypeOK
  <2>3. Return(r, kind, TRUE, kept)
    BY <1>7 DEF Delivered
  <2>4. /\ paid' \in [Facilitators -> [Payments -> Times]]
        /\ everPaid' \subseteq Payments
    <3>1. 0 \in Times
      BY TTLAssumption DEF Times, Ages
    <3>2. CASE outcome[pay[r]] = "ok"
      <4>1. /\ paid' = [paid EXCEPT ![Serves[r]][pay[r]] = 0]
            /\ everPaid' = everPaid \cup {pay[r]}
        BY <1>7, <3>2 DEF Delivered
      <4> QED BY <2>1, <3>1, <4>1 DEF TypeInv, TypeOK
    <3>3. CASE outcome[pay[r]] # "ok"
      <4>1. UNCHANGED <<paid, everPaid>>
        BY <1>7, <3>3 DEF Delivered
      <4> QED BY <4>1 DEF TypeInv, TypeOK
    <3> QED BY <3>2, <3>3
  <2>5. ChainTypeOK' /\ UNCHANGED sent
    BY <1>2, <1>7 DEF Delivered, chainVars, ChainTypeOK
  <2> HIDE DEF kind, kept
  <2> QED BY <1>2, <2>1, <2>2, <2>3, <2>4, <2>5, ReturnType DEF TypeInv, TypeOK
<1>8. CASE NotDelivered(r)
  <2> DEFINE kept == MarkedPending(record[Serves[r]], pay[r])
  <2>1. phase[r] # Idle /\ pay[r] \in Payments
    BY <1>8, FacilitatorAssumption DEF NotDelivered, Delivering, Idle, TypeInv, TypeOK, RequestOK
  <2>2. kept \in Records
    BY <1>1, <2>1, MarkedPendingType DEF TypeInv, TypeOK
  <2>3. Return(r, "pending", TRUE, kept)
    BY <1>8 DEF NotDelivered
  <2>4. ChainTypeOK' /\ UNCHANGED <<paid, sent, everPaid>>
    BY <1>2, <1>8 DEF NotDelivered, chainVars, ChainTypeOK
  <2> HIDE DEF kept
  <2> QED BY <2>1, <2>2, <2>3, <2>4, ReturnType DEF TypeInv, TypeOK, AnswerKinds
<1> QED BY <1>3, <1>4, <1>5, <1>6, <1>7, <1>8 DEF Step

LEMMA PresentType ==
  ASSUME TypeInv, NEW r \in Requests, NEW p \in Payments, Present(r, p)
  PROVE  TypeInv'
<1>1. Serves[r] \in Facilitators /\ p \in Payments /\ p # NoPayment
  BY FacilitatorAssumption
<1>2. record[Serves[r]] \in Records
  BY <1>1 DEF TypeInv, TypeOK
<1>3. CASE Claim(r, p)
  <2>1. Claimed(record[Serves[r]], p) \in Records
    BY <1>1, <1>2, ClaimedType
  <2>2. record' \in [Facilitators -> Records]
    BY <1>1, <1>3, <2>1 DEF Claim, TypeInv, TypeOK
  <2>3. phase'[r] # Idle /\ phase' \in [Requests -> Phases]
    BY <1>3 DEF Claim, TypeInv, TypeOK, Phases, Idle
  <2>4. RequestOK'
    BY <1>1, <1>3, <2>3 DEF Claim, TypeInv, TypeOK, RequestOK
  <2> QED BY <1>1, <1>3, <2>2, <2>3, <2>4
          DEF Claim, TypeInv, TypeOK, chainVars, ChainTypeOK
<1>4. CASE RefuseDuplicate(r, p)
  <2>1. record' \in [Facilitators -> Records]
    BY <1>1, <1>2, <1>4, SweptType DEF RefuseDuplicate, TypeInv, TypeOK
  <2>2. answer' \in Answers
    BY <1>1, <1>2, <1>4 DEF RefuseDuplicate, Answers, AnswerKinds, Records, Entries, Fields
  <2> QED BY <1>4, <2>1, <2>2
          DEF RefuseDuplicate, TypeInv, TypeOK, RequestOK, chainVars, ChainTypeOK
<1> QED BY <1>3, <1>4 DEF Present

\* The facilitators and the chain stay as they are, whatever moves beside them.
Rests ==
  /\ answer' \in {answer, NoAnswer}
  /\ UNCHANGED <<chainVars, record, phase, pay, ended, paid, sent, everPaid>>

\* Whatever may happen to them: a step of their own, in a system that composes
\* them with others, or none.
Moves ==
  \/ \E r \in Requests : (\E p \in Payments : Present(r, p)) \/ Step(r) \/ Panic(r) \/ End(r)
  \/ \E f \in Facilitators : RestartProcess(f)
  \/ ChainStep
  \/ Tick
  \/ Rests

LEMMA NextMoves == [Next]_vars => Moves
BY FacilitatorAssumption DEF Next, Moves, Rests, vars, facVars

LEMMA NextType == TypeInv /\ Moves => TypeInv'
<1> SUFFICES ASSUME TypeInv, Moves PROVE TypeInv'
  OBVIOUS
<1>1. ASSUME NEW r \in Requests, NEW p \in Payments, Present(r, p) PROVE TypeInv'
  BY <1>1, PresentType
<1>2. ASSUME NEW r \in Requests, Step(r) PROVE TypeInv'
  BY <1>2, StepType
<1>3. ASSUME NEW r \in Requests, Panic(r) PROVE TypeInv'
  <2>1. Serves[r] \in Facilitators /\ pay[r] \in Payments
    BY <1>3, FacilitatorAssumption DEF Panic, TypeInv, TypeOK, RequestOK
  <2>2. record' \in [Facilitators -> Records]
    BY <1>3, <2>1, ReleasedType DEF Panic, TypeInv, TypeOK
  <2>3. RequestOK'
    BY <1>3 DEF Panic, TypeInv, TypeOK, RequestOK
  <2> QED BY <1>3, <2>2, <2>3
          DEF Panic, TypeInv, TypeOK, Phases, chainVars, ChainTypeOK
<1>4. ASSUME NEW r \in Requests, End(r) PROVE TypeInv'
  BY <1>4 DEF End, TypeInv, TypeOK, RequestOK, chainVars, ChainTypeOK
<1>5. ASSUME NEW f \in Facilitators, RestartProcess(f) PROVE TypeInv'
  <2>1. record' \in [Facilitators -> Records]
    BY <1>5, UnclaimedType DEF RestartProcess, TypeInv, TypeOK
  <2>2. /\ paid' \in [Facilitators -> [Payments -> Times]]
        /\ sent' \in [Facilitators -> [Payments -> Times]]
    BY <1>5 DEF RestartProcess, TypeInv, TypeOK, Never, Times
  <2>3. /\ phase' \in [Requests -> Phases]
        /\ pay' \in [Requests -> Payments \cup {NoPayment}]
        /\ RequestOK'
    BY <1>5 DEF RestartProcess, TypeInv, TypeOK, RequestOK, Phases
  <2>4. ended' \in [Requests -> BOOLEAN]
    BY <1>5 DEF RestartProcess, TypeInv, TypeOK
  <2> QED BY <1>5, <2>1, <2>2, <2>3, <2>4
          DEF RestartProcess, TypeInv, TypeOK, chainVars, ChainTypeOK
<1>6. CASE ChainStep
  BY <1>6, ChainNextType DEF ChainStep, TypeInv, TypeOK, RequestOK
<1>7. CASE Tick
  <2>1. record' \in [Facilitators -> Records]
    BY <1>7, AgedType DEF Tick, TypeInv, TypeOK
  <2>2. /\ paid' \in [Facilitators -> [Payments -> Times]]
        /\ sent' \in [Facilitators -> [Payments -> Times]]
    BY <1>7, OlderType DEF Tick, OlderAll, TypeInv, TypeOK
  <2> QED BY <1>7, <2>1, <2>2 DEF Tick, TypeInv, TypeOK, RequestOK, chainVars, ChainTypeOK
<1>8. CASE Rests
  BY <1>8 DEF Rests, chainVars, TypeInv, TypeOK, ChainTypeOK, RequestOK
<1> QED BY <1>1, <1>2, <1>3, <1>4, <1>5, <1>6, <1>7, <1>8 DEF Moves

(***************************************************************************)
(* Every variable keeps its type, whatever requests, processes and nodes do. *)
(***************************************************************************)
THEOREM TypeCorrect == Spec => []TypeOK
<1>1. TypeInv /\ [Next]_vars => TypeInv'
  BY NextType, NextMoves
<1>2. TypeInv => TypeOK
  BY DEF TypeInv
<1> QED BY InitType, <1>1, <1>2, PTL DEF Spec

-----------------------------------------------------------------------------
(* A claim is held by one settle *)

IsSettling(f, p) == record[f][p].state = "settling"

\* Sweeping and ageing neither make nor unmake a claim.
LEMMA SweptKeepsClaims ==
  ASSUME NEW rec \in Records, NEW p \in Payments
  PROVE  Swept(rec)[p].state = "settling" <=> rec[p].state = "settling"
BY DEF Swept, Expired, Unclaimed, Records, Entries, Fields

LEMMA AgedKeepsStates ==
  ASSUME NEW rec \in Records, NEW p \in Payments
  PROVE  /\ Aged(rec)[p].state = rec[p].state
         /\ Aged(rec)[p].hash = rec[p].hash
         /\ Aged(rec)[p].at = Older(rec[p].at)
<1>1. rec[p] \in Entries
  BY DEF Records
<1>2. Aged(rec)[p] = [rec[p] EXCEPT !.at = Older(rec[p].at)]
  BY DEF Aged
<1> QED BY <1>1, <1>2 DEF Entries, Fields

\* A step that moves no request and no claim.
LEMMA ClaimsUnmoved ==
  ASSUME ClaimIsHeld, UNCHANGED pay,
         \A f \in Facilitators, p \in Payments : IsSettling(f, p)' <=> IsSettling(f, p)
  PROVE  ClaimIsHeld'
BY DEF ClaimIsHeld, Holders, IsSettling

\* A settle that ends, however it does, gives up its claim and no other.
LEMMA ClaimGivenUp ==
  ASSUME TypeInv, ClaimIsHeld, NEW r \in Requests, phase[r] # Idle,
         pay' = [pay EXCEPT ![r] = NoPayment],
         NEW kept \in Records,
         record' = [record EXCEPT ![Serves[r]] = kept],
         kept[pay[r]].state # "settling",
         \A q \in Payments \ {pay[r]} : kept[q] = record[Serves[r]][q]
  PROVE  ClaimIsHeld'
<1>1. /\ Serves[r] \in Facilitators /\ pay[r] \in Payments
      /\ record \in [Facilitators -> Records]
      /\ pay \in [Requests -> Payments \cup {NoPayment}]
  BY FacilitatorAssumption DEF TypeInv, TypeOK, RequestOK
<1> SUFFICES ASSUME NEW f \in Facilitators, NEW p \in Payments
             PROVE  /\ record'[f][p].state = "settling" <=> Holders(f, p)' # {}
                    /\ \A s, t \in Holders(f, p)' : s = t
  BY DEF ClaimIsHeld
<1>2. Holders(f, p)' = Holders(f, p) \ {r}
  BY <1>1, FacilitatorAssumption DEF Holders
<1>3. CASE f = Serves[r] /\ p = pay[r]
  <2>1. r \in Holders(f, p)
    BY <1>3 DEF Holders
  <2>2. Holders(f, p)' = {}
    BY <1>2, <2>1 DEF ClaimIsHeld
  <2> QED BY <1>1, <1>3, <2>2
<1>4. CASE ~(f = Serves[r] /\ p = pay[r])
  <2>1. r \notin Holders(f, p)
    BY <1>4 DEF Holders
  <2>2. record'[f][p] = record[f][p]
    BY <1>1, <1>4
  <2> QED BY <1>2, <2>1, <2>2 DEF ClaimIsHeld
<1> QED BY <1>3, <1>4

LEMMA ReleasedEntries ==
  ASSUME NEW rec \in Records, NEW p \in Payments
  PROVE  /\ Released(rec, p)[p] = Unclaimed
         /\ \A q \in Payments \ {p} : Released(rec, p)[q] = rec[q]
BY DEF Released, Records

LEMMA MarkedSettledEntries ==
  ASSUME NEW rec \in Records, NEW p \in Payments
  PROVE  /\ MarkedSettled(rec, p)[p] = [state |-> "settled", hash |-> TRUE, at |-> 0]
         /\ \A q \in Payments \ {p} : MarkedSettled(rec, p)[q] = rec[q]
BY DEF MarkedSettled, Records

LEMMA MarkedPendingEntries ==
  ASSUME NEW rec \in Records, NEW p \in Payments
  PROVE  /\ MarkedPending(rec, p)[p] =
              [state |-> "pending", hash |-> TRUE,
               at |-> IF rec[p].at = NoTime THEN 0 ELSE rec[p].at]
         /\ \A q \in Payments \ {p} : MarkedPending(rec, p)[q] = rec[q]
BY DEF MarkedPending, Records

\* Whichever way a settle ends, the record gives up that claim and keeps the rest.
LEMMA KeptEntries ==
  ASSUME NEW rec \in Records, NEW p \in Payments,
         NEW kept \in {Released(rec, p), MarkedSettled(rec, p), MarkedPending(rec, p)}
  PROVE  /\ kept \in Records
         /\ kept[p].state # "settling"
         /\ \A q \in Payments \ {p} : kept[q] = rec[q]
<1>1. CASE kept = Released(rec, p)
  BY <1>1, ReleasedType, ReleasedEntries DEF Unclaimed
<1>2. CASE kept = MarkedSettled(rec, p)
  BY <1>2, MarkedSettledType, MarkedSettledEntries
<1>3. CASE kept = MarkedPending(rec, p)
  <2>1. kept \in Records
    BY <1>3, MarkedPendingType
  <2>2. kept[p].state = "pending"
    <3>1. kept[p] = [state |-> "pending", hash |-> TRUE,
                     at |-> IF rec[p].at = NoTime THEN 0 ELSE rec[p].at]
      BY <1>3, MarkedPendingEntries
    <3> QED BY <3>1
  <2>3. \A q \in Payments \ {p} : kept[q] = rec[q]
    BY <1>3, MarkedPendingEntries
  <2> QED BY <2>1, <2>2, <2>3
<1> QED BY <1>1, <1>2, <1>3

\* What a step of a settle does to its claim: nothing, or it ends and leaves the
\* record in one of three ways.
Ends(r) ==
  /\ phase[r] # Idle
  /\ phase' = [phase EXCEPT ![r] = Idle]
  /\ pay' = [pay EXCEPT ![r] = NoPayment]
  /\ LET rec == record[Serves[r]] IN
     \E kept \in {Released(rec, pay[r]), MarkedSettled(rec, pay[r]),
                  MarkedPending(rec, pay[r])} :
       record' = [record EXCEPT ![Serves[r]] = kept]

LEMMA StepEndsOrKeeps ==
  ASSUME NEW r \in Requests, Step(r) \/ Panic(r)
  PROVE  Ends(r) \/ (UNCHANGED <<pay, record>> /\ phase[r] # Idle)
BY DEF Step, ReadAccount, Simulate, StartBroadcast, Broadcast, Admitted, RefusedByNode,
       Unanswered, Delivered, NotDelivered, Delivering, Panic, Proceed, GiveBack, Return,
       Ends, Idle

LEMMA EndsGivesUp ==
  ASSUME TypeInv, ClaimIsHeld, NEW r \in Requests, Ends(r)
  PROVE  ClaimIsHeld'
<1>1. Serves[r] \in Facilitators /\ pay[r] \in Payments
  BY FacilitatorAssumption DEF TypeInv, TypeOK, RequestOK, Ends
<1> DEFINE rec == record[Serves[r]]
<1>2. rec \in Records
  BY <1>1 DEF TypeInv, TypeOK
<1> PICK kept \in {Released(rec, pay[r]), MarkedSettled(rec, pay[r]),
                   MarkedPending(rec, pay[r])} :
           record' = [record EXCEPT ![Serves[r]] = kept]
  BY DEF Ends
<1>3. /\ kept \in Records
      /\ kept[pay[r]].state # "settling"
      /\ \A q \in Payments \ {pay[r]} : kept[q] = rec[q]
  BY <1>1, <1>2, KeptEntries
<1> QED BY <1>3, ClaimGivenUp DEF Ends

LEMMA ClaimTakes ==
  ASSUME TypeInv, ClaimIsHeld, NEW r \in Requests, NEW p \in Payments, Claim(r, p)
  PROVE  ClaimIsHeld'
<1> DEFINE f == Serves[r]
           rec == record[f]
<1>1. f \in Facilitators /\ p \in Payments /\ p # NoPayment
  BY FacilitatorAssumption
<1>2. rec \in Records /\ record \in [Facilitators -> Records]
  BY <1>1 DEF TypeInv, TypeOK
<1>3. /\ Claimed(rec, p)[p].state = "settling"
      /\ \A q \in Payments \ {p} : Claimed(rec, p)[q] = Swept(rec)[q]
  BY <1>1, <1>2, SweptType DEF Claimed, Records, Entries, Fields
<1>4. Holders(f, p) = {} /\ pay[r] = NoPayment
  <2>1. ~IsSettling(f, p)
    BY <1>1, <1>2, SweptKeepsClaims DEF Claim, Claimable, IsSettling
  <2> QED BY <1>1, <2>1 DEF ClaimIsHeld, IsSettling, Claim, TypeInv, RequestOK
<1> SUFFICES ASSUME NEW g \in Facilitators, NEW q \in Payments
             PROVE  /\ record'[g][q].state = "settling" <=> Holders(g, q)' # {}
                    /\ \A s, t \in Holders(g, q)' : s = t
  BY DEF ClaimIsHeld
<1>5. pay' = [pay EXCEPT ![r] = p] /\ record' = [record EXCEPT ![f] = Claimed(rec, p)]
  BY DEF Claim
<1>6. CASE g = f /\ q = p
  <2>1. Holders(g, q)' = {r}
    BY <1>1, <1>4, <1>5, <1>6 DEF Holders, TypeInv, TypeOK
  <2> QED BY <1>1, <1>2, <1>3, <1>5, <1>6, <2>1
<1>7. CASE ~(g = f /\ q = p)
  <2>1. Holders(g, q)' = Holders(g, q)
    BY <1>1, <1>4, <1>5, <1>7, FacilitatorAssumption DEF Holders, TypeInv, TypeOK
  <2>2. record'[g][q].state = "settling" <=> record[g][q].state = "settling"
    <3>1. CASE g = f
      BY <1>1, <1>2, <1>3, <1>5, <1>7, <3>1, SweptKeepsClaims
    <3>2. CASE g # f
      BY <1>2, <1>5, <3>2
    <3> QED BY <3>1, <3>2
  <2> QED BY <2>1, <2>2 DEF ClaimIsHeld
<1> QED BY <1>6, <1>7

LEMMA ClaimIsHeldNext == TypeInv /\ ClaimIsHeld /\ Moves => ClaimIsHeld'
<1> SUFFICES ASSUME TypeInv, ClaimIsHeld, Moves PROVE ClaimIsHeld'
  OBVIOUS
<1>0. record \in [Facilitators -> Records]
  BY DEF TypeInv, TypeOK
<1>1. ASSUME NEW r \in Requests, NEW p \in Payments, Present(r, p) PROVE ClaimIsHeld'
  <2>1. CASE Claim(r, p)
    BY <2>1, ClaimTakes
  <2>2. CASE RefuseDuplicate(r, p)
    <3>1. ASSUME NEW f \in Facilitators, NEW q \in Payments
          PROVE  IsSettling(f, q)' <=> IsSettling(f, q)
      <4>1. record[f] \in Records
        BY <1>0
      <4>2. record'[f] = record[f] \/ record'[f] = Swept(record[f])
        BY <1>0, <2>2 DEF RefuseDuplicate
      <4> QED BY <4>1, <4>2, SweptKeepsClaims DEF IsSettling
    <3> QED BY <2>2, <3>1, ClaimsUnmoved DEF RefuseDuplicate
  <2> QED BY <1>1, <2>1, <2>2 DEF Present
<1>2. ASSUME NEW r \in Requests, Step(r) \/ Panic(r) PROVE ClaimIsHeld'
  <2>1. CASE Ends(r)
    BY <2>1, EndsGivesUp
  <2>2. CASE UNCHANGED <<pay, record>>
    BY <2>2, ClaimsUnmoved DEF IsSettling
  <2> QED BY <1>2, <2>1, <2>2, StepEndsOrKeeps
<1>3. ASSUME NEW r \in Requests, End(r) PROVE ClaimIsHeld'
  BY <1>3, ClaimsUnmoved DEF End, IsSettling
<1>4. ASSUME NEW f \in Facilitators, RestartProcess(f) PROVE ClaimIsHeld'
  <2> SUFFICES ASSUME NEW g \in Facilitators, NEW p \in Payments
               PROVE  /\ record'[g][p].state = "settling" <=> Holders(g, p)' # {}
                      /\ \A s, t \in Holders(g, p)' : s = t
    BY DEF ClaimIsHeld
  <2>1. CASE g = f
    <3>1. Holders(g, p)' = {}
      BY <1>4, <2>1, FacilitatorAssumption DEF Holders, RestartProcess
    <3>2. record'[g][p] = Unclaimed
      BY <1>0, <1>4, <2>1 DEF RestartProcess, NewRecord
    <3> QED BY <3>1, <3>2 DEF Unclaimed
  <2>2. CASE g # f
    <3>1. Holders(g, p)' = Holders(g, p)
      BY <1>4, <2>2 DEF Holders, RestartProcess
    <3>2. record'[g] = record[g]
      BY <1>0, <1>4, <2>2 DEF RestartProcess
    <3> QED BY <3>1, <3>2 DEF ClaimIsHeld
  <2> QED BY <2>1, <2>2
<1>5. CASE ChainStep
  BY <1>5, ClaimsUnmoved DEF ChainStep, IsSettling
<1>6. CASE Tick
  <2>1. ASSUME NEW f \in Facilitators, NEW q \in Payments
        PROVE  IsSettling(f, q)' <=> IsSettling(f, q)
    BY <1>0, <1>6, AgedKeepsStates DEF Tick, IsSettling
  <2> QED BY <1>6, <2>1, ClaimsUnmoved DEF Tick
<1>7. CASE Rests
  BY <1>7, ClaimsUnmoved DEF Rests, IsSettling
<1> QED BY <1>1, <1>2, <1>3, <1>4, <1>5, <1>6, <1>7 DEF Moves

LEMMA ClaimIsHeldInit == Init => ClaimIsHeld
BY FacilitatorAssumption DEF Init, ClaimIsHeld, Holders, NewRecord, Unclaimed

(***************************************************************************)
(* claim and its deferred release: whatever interleaving of requests, node   *)
(* failures, panics and restarts, an entry is "settling" exactly while one   *)
(* settle of its payment runs, and never while two do.                       *)
(***************************************************************************)
THEOREM ClaimHeldByOne == Spec => []ClaimIsHeld
<1>1. TypeInv /\ ClaimIsHeld /\ [Next]_vars => (TypeInv /\ ClaimIsHeld)'
  BY NextMoves, NextType, ClaimIsHeldNext
<1> QED BY InitType, ClaimIsHeldInit, <1>1, PTL DEF Spec

-----------------------------------------------------------------------------
(* A payment is reported settled once within TTL *)

\* While success was reported within TTL, the record holds the payment settled
\* since then: this is what refuses a copy.
PaidIsRecorded ==
  \A f \in Facilitators, p \in Payments :
    Recent(paid[f][p]) =>
      record[f][p].state = "settled" /\ record[f][p].at = paid[f][p]

SettleInv == TypeInv /\ ClaimIsHeld /\ PaidIsRecorded

LEMMA SweptKeepsSettled ==
  ASSUME NEW rec \in Records, NEW p \in Payments,
         rec[p].state = "settled", Recent(rec[p].at)
  PROVE  Swept(rec)[p] = rec[p]
BY TTLAssumption DEF Swept, Expired, Records, Entries, Fields, Times, Ages

\* The payment of a settle under way was not reported settled within TTL.
LEMMA RunningNotPaid ==
  ASSUME SettleInv, NEW r \in Requests, phase[r] # Idle
  PROVE  ~Recent(paid[Serves[r]][pay[r]])
<1>1. Serves[r] \in Facilitators /\ pay[r] \in Payments
  BY FacilitatorAssumption DEF SettleInv, TypeInv, TypeOK, RequestOK
<1>2. r \in Holders(Serves[r], pay[r])
  BY DEF Holders
<1>3. record[Serves[r]][pay[r]].state = "settling"
  BY <1>1, <1>2 DEF SettleInv, ClaimIsHeld
<1> QED BY <1>1, <1>3 DEF SettleInv, PaidIsRecorded

LEMMA EndsEntries ==
  ASSUME TypeInv, NEW r \in Requests, Ends(r), NEW f \in Facilitators, NEW q \in Payments,
         f # Serves[r] \/ q # pay[r]
  PROVE  record'[f][q] = record[f][q]
<1>1. /\ Serves[r] \in Facilitators /\ pay[r] \in Payments
      /\ record \in [Facilitators -> Records]
  BY FacilitatorAssumption DEF TypeInv, TypeOK, RequestOK, Ends
<1> DEFINE rec == record[Serves[r]]
<1>2. rec \in Records
  BY <1>1
<1> PICK kept \in {Released(rec, pay[r]), MarkedSettled(rec, pay[r]),
                   MarkedPending(rec, pay[r])} :
           record' = [record EXCEPT ![Serves[r]] = kept]
  BY DEF Ends
<1>3. \A p \in Payments \ {pay[r]} : kept[p] = rec[p]
  BY <1>1, <1>2, KeptEntries
<1> QED BY <1>1, <1>3

LEMMA DeliveredPays ==
  ASSUME SettleInv, NEW r \in Requests, Delivered(r)
  PROVE  PaidIsRecorded'
<1>1. /\ Serves[r] \in Facilitators /\ pay[r] \in Payments /\ phase[r] # Idle
      /\ record \in [Facilitators -> Records]
      /\ paid \in [Facilitators -> [Payments -> Times]]
  BY FacilitatorAssumption
     DEF Delivered, Delivering, Idle, SettleInv, TypeInv, TypeOK, RequestOK
<1>2. /\ record' = [record EXCEPT ![Serves[r]] = MarkedSettled(record[Serves[r]], pay[r])]
      /\ paid' = [paid EXCEPT ![Serves[r]][pay[r]] = 0] \/ UNCHANGED paid
  BY DEF Delivered, Return
<1> SUFFICES ASSUME NEW f \in Facilitators, NEW q \in Payments, Recent(paid'[f][q])
             PROVE  record'[f][q].state = "settled" /\ record'[f][q].at = paid'[f][q]
  BY DEF PaidIsRecorded
<1>3. CASE f = Serves[r] /\ q = pay[r]
  <2>1. record'[f][q] = [state |-> "settled", hash |-> TRUE, at |-> 0]
    BY <1>1, <1>2, <1>3, MarkedSettledEntries
  <2>2. paid'[f][q] = 0 \/ paid'[f][q] = paid[f][q]
    BY <1>1, <1>2, <1>3
  <2>3. ~Recent(paid[f][q])
    BY <1>1, <1>3, RunningNotPaid
  <2> QED BY <2>1, <2>2, <2>3
<1>4. CASE ~(f = Serves[r] /\ q = pay[r])
  <2>1. record'[f][q] = record[f][q]
    BY <1>1, <1>2, <1>4, MarkedSettledEntries
  <2>2. paid'[f][q] = paid[f][q]
    BY <1>1, <1>2, <1>4
  <2> QED BY <2>1, <2>2 DEF SettleInv, PaidIsRecorded
<1> QED BY <1>3, <1>4

LEMMA PaidIsRecordedNext == SettleInv /\ Moves => PaidIsRecorded'
<1> SUFFICES ASSUME SettleInv, Moves PROVE PaidIsRecorded'
  OBVIOUS
<1>0. /\ TypeInv
      /\ record \in [Facilitators -> Records]
      /\ paid \in [Facilitators -> [Payments -> Times]]
  BY DEF SettleInv, TypeInv, TypeOK
<1>1. ASSUME NEW r \in Requests, NEW p \in Payments, Present(r, p) PROVE PaidIsRecorded'
  <2> SUFFICES ASSUME NEW f \in Facilitators, NEW q \in Payments, Recent(paid[f][q])
               PROVE  record'[f][q] = record[f][q]
    BY <1>1 DEF Present, Claim, RefuseDuplicate, SettleInv, PaidIsRecorded
  <2>1. p \in Payments /\ Serves[r] \in Facilitators /\ record[f] \in Records
    BY <1>0, FacilitatorAssumption
  <2>2. record[f][q].state = "settled" /\ Recent(record[f][q].at)
    BY DEF SettleInv, PaidIsRecorded
  <2>3. Swept(record[f])[q] = record[f][q]
    BY <2>1, <2>2, SweptKeepsSettled
  <2>4. CASE Claim(r, p) /\ f = Serves[r]
    <3>1. q # p
      BY <2>2, <2>3, <2>4 DEF Claim, Claimable
    <3>2. record'[f] = Claimed(record[f], p)
      BY <1>0, <2>4 DEF Claim
    <3>3. Claimed(record[f], p)[q] = Swept(record[f])[q]
      BY <2>1, <3>1, SweptType DEF Claimed, Records
    <3> QED BY <2>3, <3>2, <3>3
  <2>5. CASE Claim(r, p) /\ f # Serves[r]
    BY <1>0, <2>5 DEF Claim
  <2>6. CASE RefuseDuplicate(r, p)
    BY <1>0, <2>3, <2>6 DEF RefuseDuplicate
  <2> QED BY <1>1, <2>4, <2>5, <2>6 DEF Present
<1>2. ASSUME NEW r \in Requests, Step(r) \/ Panic(r) PROVE PaidIsRecorded'
  <2>1. CASE Delivered(r)
    BY <2>1, DeliveredPays
  <2>2. CASE ~Delivered(r)
    <3>1. UNCHANGED paid
      BY <1>2, <2>2
         DEF Step, ReadAccount, Simulate, StartBroadcast, Broadcast, Admitted, RefusedByNode,
             Unanswered, NotDelivered, Panic, Proceed, GiveBack
    <3>2. CASE Ends(r)
      <4> SUFFICES ASSUME NEW f \in Facilitators, NEW q \in Payments, Recent(paid[f][q])
                   PROVE  record'[f][q] = record[f][q]
        BY <3>1 DEF SettleInv, PaidIsRecorded
      <4>1. f # Serves[r] \/ q # pay[r]
        BY <3>2, RunningNotPaid DEF Ends
      <4> QED BY <1>0, <3>2, <4>1, EndsEntries
    <3>3. CASE UNCHANGED <<pay, record>>
      BY <3>1, <3>3 DEF SettleInv, PaidIsRecorded
    <3> QED BY <1>2, <3>2, <3>3, StepEndsOrKeeps
  <2> QED BY <2>1, <2>2
<1>3. ASSUME NEW r \in Requests, End(r) PROVE PaidIsRecorded'
  BY <1>3 DEF End, SettleInv, PaidIsRecorded
<1>4. ASSUME NEW f \in Facilitators, RestartProcess(f) PROVE PaidIsRecorded'
  <2> SUFFICES ASSUME NEW g \in Facilitators, NEW q \in Payments, Recent(paid'[g][q])
               PROVE  record'[g][q].state = "settled" /\ record'[g][q].at = paid'[g][q]
    BY DEF PaidIsRecorded
  <2>1. g # f
    BY <1>0, <1>4 DEF RestartProcess, Never
  <2>2. record'[g] = record[g] /\ paid'[g] = paid[g]
    BY <1>0, <1>4, <2>1 DEF RestartProcess
  <2> QED BY <2>2 DEF SettleInv, PaidIsRecorded
<1>5. CASE ChainStep
  BY <1>5 DEF ChainStep, SettleInv, PaidIsRecorded
<1>6. CASE Tick
  <2> SUFFICES ASSUME NEW f \in Facilitators, NEW q \in Payments, Recent(paid'[f][q])
               PROVE  record'[f][q].state = "settled" /\ record'[f][q].at = paid'[f][q]
    BY DEF PaidIsRecorded
  <2>1. paid'[f][q] = Older(paid[f][q]) /\ paid[f][q] \in Times
    BY <1>0, <1>6 DEF Tick, OlderAll
  <2>2. Recent(paid[f][q])
    BY <2>1, TTLAssumption DEF Older, Times, Ages
  <2>3. record[f][q].state = "settled" /\ record[f][q].at = paid[f][q]
    BY <2>2 DEF SettleInv, PaidIsRecorded
  <2>4. /\ record'[f][q].state = record[f][q].state
        /\ record'[f][q].at = Older(record[f][q].at)
    BY <1>0, <1>6, AgedKeepsStates DEF Tick
  <2> QED BY <2>1, <2>3, <2>4
<1>7. CASE Rests
  BY <1>7 DEF Rests, SettleInv, PaidIsRecorded
<1> QED BY <1>1, <1>2, <1>3, <1>4, <1>5, <1>6, <1>7 DEF Moves

LEMMA SettleInvInit == Init => SettleInv
<1>1. Init => PaidIsRecorded
  BY DEF Init, Never, PaidIsRecorded
<1> QED BY <1>1, InitType, ClaimIsHeldInit DEF SettleInv

LEMMA SettleInvNext == SettleInv /\ Moves => SettleInv'
BY NextType, ClaimIsHeldNext, PaidIsRecordedNext DEF SettleInv

LEMMA SettleInvariant == Spec => []SettleInv
<1>1. SettleInv /\ [Next]_vars => SettleInv'
  BY NextMoves, SettleInvNext
<1> QED BY <1>1, SettleInvInit, PTL DEF Spec

\* Only a delivery is answered with what the chain made of the payment.
LEMMA OthersSaySomethingElse ==
  ASSUME Moves, ~Rests, ~ \E r \in Requests : Delivered(r)
  PROVE  answer'.kind \notin {"settled", "aborted"}
<1>1. ASSUME NEW r \in Requests, NEW p \in Payments, Present(r, p)
      PROVE  answer'.kind \notin {"settled", "aborted"}
  BY <1>1 DEF Present, Claim, RefuseDuplicate, NoAnswer
<1>2. ASSUME NEW r \in Requests, Step(r) PROVE answer'.kind \notin {"settled", "aborted"}
  BY <1>2 DEF Step, ReadAccount, Simulate, StartBroadcast, Broadcast, Admitted, RefusedByNode,
              Unanswered, NotDelivered, Proceed, GiveBack, Return, NoAnswer
<1> QED
  BY <1>1, <1>2 DEF Moves, Panic, End, RestartProcess, ChainStep, Tick, NoAnswer

LEMMA SettledAnew ==
  ASSUME SettleInv, Moves, Answering, answer'.kind = "settled"
  PROVE  ~Recent(paid[answer'.by][answer'.pay])
<1>1. ~Rests
  BY DEF Rests, Answering
<1> PICK r \in Requests : Delivered(r)
  BY <1>1, OthersSaySomethingElse
<1>2. answer'.by = Serves[r] /\ answer'.pay = pay[r] /\ phase[r] # Idle
  BY DEF Delivered, Delivering, Return, Idle
<1> QED BY <1>2, RunningNotPaid

(***************************************************************************)
(* A process returns success for a payment at most once within TTL, though  *)
(* a lagging node would admit a copy of it and find the original's          *)
(* delivery: markSettled keeps what claim refuses the copy by.              *)
(***************************************************************************)
THEOREM SettledOncePerProcess == Spec => SettledOnce
<1>1. ASSUME SettleInv, [Next]_vars
      PROVE  [Answering /\ answer'.kind = "settled"
                => ~Recent(paid[answer'.by][answer'.pay])]_vars
  BY <1>1, NextMoves, SettledAnew
<1> QED BY <1>1, SettleInvariant, PTL DEF Spec, SettledOnce

-----------------------------------------------------------------------------
(* The processes keep their promise *)

\* A node's blocks are the chain's, one that does not lag has them all, and no
\* mempool holds what a block its node executed has spent the sequence of.
ChainInv ==
  \A n \in Nodes :
    /\ view[n] \subseteq Executed
    /\ n \notin Laggards => view[n] = Executed
    /\ \A p \in mempool[n] : Rivals(p) \cap view[n] = {}

LEMMA ChainInvAdmit ==
  ASSUME ChainTypeOK, ChainInv, NEW n \in Nodes, NEW p \in Payments, Admits(n, p),
         Admit(n, p), UNCHANGED <<outcome, view>>
  PROVE  ChainInv'
BY DEF ChainTypeOK, ChainInv, Admits, Admit, Fresh, Executed

LEMMA CommitExecutes ==
  ASSUME ChainTypeOK, ChainInv, NEW n \in Nodes, NEW p \in Payments, Commit(n, p)
  PROVE  /\ Executed' = Executed \cup {p}
         /\ Rivals(p) \cap Executed = {}
<1>1. PICK o \in Outcomes \ {"none"} : outcome' = [outcome EXCEPT ![p] = o]
  BY DEF Commit
<1> QED BY <1>1 DEF ChainTypeOK, ChainInv, Commit, Executed, Rivals

LEMMA ChainInvNext == ChainTypeOK /\ ChainInv /\ ChainNext => ChainInv'
<1> SUFFICES ASSUME ChainTypeOK, ChainInv, ChainNext PROVE ChainInv'
  OBVIOUS
<1> PICK n \in Nodes : \/ \E p \in Payments : Hear(n, p) \/ Commit(n, p)
                       \/ CatchUp(n)
                       \/ RestartNode(n)
  BY DEF ChainNext
<1>1. ASSUME NEW p \in Payments, Hear(n, p) PROVE ChainInv'
  BY <1>1, ChainInvAdmit DEF Hear
<1>2. ASSUME NEW p \in Payments, Commit(n, p) PROVE ChainInv'
  <2>1. Executed' = Executed \cup {p} /\ Rivals(p) \cap Executed = {}
    BY <1>2, CommitExecutes
  <2> SUFFICES ASSUME NEW m \in Nodes
               PROVE  /\ view'[m] \subseteq Executed'
                      /\ m \notin Laggards => view'[m] = Executed'
                      /\ \A q \in mempool'[m] : Rivals(q) \cap view'[m] = {}
    BY DEF ChainInv, Rivals
  <2>2. CASE m \in Laggards \ {n}
    <3>1. view'[m] = view[m] /\ mempool'[m] = mempool[m]
      BY <1>2, <2>2 DEF Commit
    <3> QED BY <2>1, <2>2, <3>1 DEF ChainInv
  <2>3. CASE m \notin Laggards \ {n}
    <3>1. view'[m] = Executed \cup {p} /\ mempool'[m] = mempool[m] \ Rivals(p)
      BY <1>2, <2>3 DEF Commit
    <3>2. view[m] = Executed
      BY <1>2, <2>3 DEF ChainInv, Commit
    <3>3. \A q \in mempool'[m] : Rivals(q) \cap view'[m] = {}
      BY <1>2, <3>1, <3>2 DEF ChainInv, ChainTypeOK, Rivals
    <3> QED BY <2>1, <3>1, <3>3
  <2> QED BY <2>2, <2>3
<1>3. CASE CatchUp(n)
  BY <1>3 DEF CatchUp, ChainTypeOK, ChainInv, Executed
<1>4. CASE RestartNode(n)
  BY <1>4 DEF RestartNode, ChainTypeOK, ChainInv, Executed
<1> QED BY <1>1, <1>2, <1>3, <1>4

\* A settle touches the chain only by handing a payment to a node that admits it.
LEMMA StepsOnChain ==
  ASSUME TypeInv, NEW r \in Requests, Step(r) \/ Panic(r)
  PROVE  \/ UNCHANGED chainVars
         \/ /\ UNCHANGED <<outcome, view>>
            /\ \E n \in Nodes : Admits(n, pay[r]) /\ Admit(n, pay[r])
            /\ pay[r] \in Payments
<1>1. Reach(r) \subseteq Nodes
  BY FacilitatorAssumption DEF Reach
<1>2. phase[r] = "sending" => pay[r] \in Payments
  BY DEF TypeInv, TypeOK, RequestOK, Idle
<1> QED BY <1>1, <1>2
  DEF Step, ReadAccount, Simulate, StartBroadcast, Broadcast, Admitted, RefusedByNode,
      Unanswered, Delivered, NotDelivered, Panic, chainVars

PromiseInv == SettleInv /\ ChainInv

LEMMA ChainInvMoves == SettleInv /\ ChainInv /\ Moves => ChainInv'
<1> SUFFICES ASSUME SettleInv, ChainInv, Moves PROVE ChainInv'
  OBVIOUS
<1>0. ChainTypeOK /\ TypeInv
  BY DEF SettleInv, TypeInv, TypeOK
<1>1. ASSUME UNCHANGED chainVars PROVE ChainInv'
  BY <1>1 DEF chainVars, ChainInv, Executed
<1>2. ASSUME NEW r \in Requests, Step(r) \/ Panic(r) PROVE ChainInv'
  BY <1>0, <1>1, <1>2, StepsOnChain, ChainInvAdmit
<1>3. CASE ChainStep
  BY <1>0, <1>3, ChainInvNext DEF ChainStep
<1>4. ASSUME NEW r \in Requests, NEW p \in Payments, Present(r, p)
      PROVE  UNCHANGED chainVars
  BY <1>4 DEF Present, Claim, RefuseDuplicate
<1>5. ASSUME NEW r \in Requests, End(r) PROVE UNCHANGED chainVars
  BY <1>5 DEF End
<1>6. ASSUME NEW f \in Facilitators, RestartProcess(f) PROVE UNCHANGED chainVars
  BY <1>6 DEF RestartProcess
<1>7. CASE Tick
  BY <1>1, <1>7 DEF Tick
<1>8. CASE Rests
  BY <1>1, <1>8 DEF Rests
<1> QED BY <1>1, <1>2, <1>3, <1>4, <1>5, <1>6, <1>7, <1>8 DEF Moves

LEMMA PromiseInvInit == Init => PromiseInv
<1>1. Init => ChainInv
  BY DEF Init, ChainInit, ChainInv, Executed
<1> QED BY <1>1, SettleInvInit DEF PromiseInv

LEMMA PromiseInvNext == PromiseInv /\ Moves => PromiseInv'
BY SettleInvNext, ChainInvMoves DEF PromiseInv

LEMMA PromiseInvariant == Spec => []PromiseInv
<1>1. PromiseInv /\ [Next]_vars => PromiseInv'
  BY NextMoves, PromiseInvNext
<1> QED BY <1>1, PromiseInvInit, PTL DEF Spec

\* A step that gives no verdict and reports no payment anew keeps the promise.
LEMMA SilentStep ==
  ASSUME TypeInv, UNCHANGED outcome, answer'.kind \notin {"settled", "aborted"},
         \A f \in Facilitators, p \in Payments :
           Recent(paid'[f][p]) => Recent(paid[f][p])
  PROVE  Promise!Forget
BY DEF Promise!Forget, Promise!Silence

LEMMA OlderNotRecentAnew ==
  ASSUME NEW t \in Times, Recent(Older(t)) PROVE Recent(t)
BY TTLAssumption DEF Older, Times, Ages

LEMMA DeliveredKeepsPromise ==
  ASSUME PromiseInv, NEW r \in Requests, Delivered(r)
  PROVE  Promise!PromiseNext
<1>0. pay[r] \in Payments
  BY DEF Delivered, Delivering, Idle, PromiseInv, SettleInv, TypeInv, TypeOK, RequestOK
<1> PICK p \in Payments : p = pay[r]
  BY <1>0
<1> DEFINE f == Serves[r]
<1>1. /\ f \in Facilitators /\ phase[r] # Idle
      /\ outcome \in [Payments -> Outcomes]
      /\ paid \in [Facilitators -> [Payments -> Times]]
  BY FacilitatorAssumption
     DEF Delivered, Delivering, Idle, PromiseInv, SettleInv, TypeInv, TypeOK, RequestOK,
         ChainTypeOK
<1>2. p \in Executed
  BY FacilitatorAssumption DEF Delivered, Reach, PromiseInv, ChainInv
<1>3. ~Recent(paid[f][p])
  BY <1>1, RunningNotPaid DEF PromiseInv
<1>4. UNCHANGED outcome
  BY DEF Delivered, chainVars
<1>5. CASE outcome[p] = "ok"
  <2>1. answer' = [by |-> f, pay |-> p, kind |-> "settled", hash |-> TRUE]
    BY <1>5 DEF Delivered, Return
  <2>2. paid' = [paid EXCEPT ![f][p] = 0]
    BY <1>5 DEF Delivered
  <2>3. \A g \in Facilitators :
          {q \in Payments : Recent(paid'[g][q])} =
            IF g = f THEN {q \in Payments : Recent(paid[g][q])} \cup {p}
                     ELSE {q \in Payments : Recent(paid[g][q])}
    BY <1>1, <2>2, TTLAssumption
  <2> DEFINE reported == [g \in Facilitators |-> {q \in Payments : Recent(paid[g][q])}]
             told == IF answer.kind \in {"settled", "aborted"}
                       THEN [by |-> answer.by, pay |-> answer.pay, kind |-> answer.kind]
                       ELSE [kind |-> "none"]
  <2>4. p \notin reported[f] /\ reported' = [reported EXCEPT ![f] = @ \cup {p}]
    BY <1>1, <1>3, <2>3
  <2>5. told' = [by |-> f, pay |-> p, kind |-> "settled"]
    BY <2>1
  <2>6. Promise!ReportSettled(f, p)
    BY <1>1, <1>4, <1>5, <2>4, <2>5 DEF Promise!ReportSettled, Promise!Verdict
  <2> QED BY <1>1, <2>6 DEF Promise!PromiseNext
<1>6. CASE outcome[p] # "ok"
  <2>1. outcome[p] = "aborted"
    BY <1>1, <1>2, <1>6 DEF Executed, Outcomes
  <2>2. answer' = [by |-> f, pay |-> p, kind |-> "aborted", hash |-> TRUE] /\ UNCHANGED paid
    BY <1>6 DEF Delivered, Return
  <2>3. Promise!ReportAborted(f, p)
    BY <1>4, <2>1, <2>2 DEF Promise!ReportAborted, Promise!Verdict
  <2> QED BY <1>1, <2>3 DEF Promise!PromiseNext
<1> QED BY <1>5, <1>6

LEMMA ChainStepKeepsPromise ==
  ASSUME PromiseInv, ChainStep
  PROVE  Promise!PromiseNext
<1>1. ChainTypeOK /\ ChainInv /\ TypeInv
  BY DEF PromiseInv, SettleInv, TypeInv, TypeOK
<1>2. answer' = NoAnswer /\ UNCHANGED paid
  BY DEF ChainStep
<1>3. ASSUME NEW n \in Nodes, NEW p \in Payments, Commit(n, p) PROVE Promise!Execute(p)
  <2>1. \A q \in Promise!Rivals(p) : outcome[q] = "none"
    BY <1>1, <1>3, CommitExecutes DEF Promise!Rivals, Rivals, Executed
  <2>2. \E o \in {"ok", "aborted"} : outcome' = [outcome EXCEPT ![p] = o]
    BY <1>3 DEF Commit, Outcomes
  <2> QED BY <1>2, <2>1, <2>2 DEF Promise!Execute, Promise!Silence, NoAnswer
<1>4. CASE UNCHANGED outcome
  BY <1>1, <1>2, <1>4, SilentStep DEF NoAnswer, Promise!PromiseNext
<1> QED BY <1>3, <1>4
        DEF ChainStep, ChainNext, Hear, CatchUp, RestartNode, Promise!PromiseNext

LEMMA PromiseInitial == Init => Promise!PromiseInit
BY DEF Init, ChainInit, Never, NoAnswer, Promise!PromiseInit, Promise!Silence

LEMMA PromiseStep ==
  ASSUME PromiseInv, Moves
  PROVE  [Promise!PromiseNext]_(Promise!promiseVars)
<1>0. TypeInv /\ paid \in [Facilitators -> [Payments -> Times]]
  BY DEF PromiseInv, SettleInv, TypeInv, TypeOK
<1>1. CASE Rests
  <2>1. CASE answer' = answer
    BY <1>1, <2>1 DEF Rests, chainVars, Promise!promiseVars
  <2>2. CASE answer' = NoAnswer
    BY <1>0, <1>1, <2>2, SilentStep DEF Rests, NoAnswer, chainVars, Promise!PromiseNext
  <2> QED BY <1>1, <2>1, <2>2 DEF Rests
<1>2. CASE \E r \in Requests : Delivered(r)
  BY <1>2, DeliveredKeepsPromise
<1>3. CASE ~Rests /\ ~ \E r \in Requests : Delivered(r)
  <2>1. answer'.kind \notin {"settled", "aborted"}
    BY <1>3, OthersSaySomethingElse
  <2>2. CASE ChainStep
    BY <2>2, ChainStepKeepsPromise
  <2>3. ASSUME NEW r \in Requests,
               (\E p \in Payments : Present(r, p)) \/ Step(r) \/ Panic(r) \/ End(r)
        PROVE  UNCHANGED <<outcome, paid>>
    BY <1>3, <2>3
       DEF Present, Claim, RefuseDuplicate, Step, ReadAccount, Simulate, StartBroadcast,
           Broadcast, Admitted, RefusedByNode, Unanswered, NotDelivered, Panic, End,
           Proceed, GiveBack, chainVars
  <2>4. ASSUME NEW f \in Facilitators, RestartProcess(f)
        PROVE  /\ UNCHANGED outcome
               /\ \A g \in Facilitators, p \in Payments :
                    Recent(paid'[g][p]) => Recent(paid[g][p])
    BY <1>0, <2>4 DEF RestartProcess, Never, chainVars
  <2>5. CASE Tick
    <3>1. \A g \in Facilitators, p \in Payments :
            Recent(paid'[g][p]) => Recent(paid[g][p])
      BY <1>0, <2>5, OlderNotRecentAnew DEF Tick, OlderAll
    <3> QED BY <1>0, <2>1, <2>5, <3>1, SilentStep DEF Tick, chainVars, Promise!PromiseNext
  <2>6. CASE (\E r \in Requests : (\E p \in Payments : Present(r, p))
                                     \/ Step(r) \/ Panic(r) \/ End(r))
             \/ \E f \in Facilitators : RestartProcess(f)
    BY <1>0, <2>1, <2>3, <2>4, <2>6, SilentStep DEF Promise!PromiseNext
  <2> QED BY <1>3, <2>2, <2>5, <2>6 DEF Moves
<1> QED BY <1>1, <1>2, <1>3

(***************************************************************************)
(* Facilitator implements SettlementPromise: what is reported of a payment  *)
(* is what the one block that executed it made of it, and success is        *)
(* reported once while it is remembered.                                    *)
(***************************************************************************)
THEOREM PromiseKept == Spec => KeepsPromise
<1>1. PromiseInv /\ [Next]_vars => [Promise!PromiseNext]_(Promise!promiseVars)
  BY NextMoves, PromiseStep
<1> QED BY <1>1, PromiseInitial, PromiseInvariant, PTL
        DEF Spec, KeepsPromise, Promise!PromiseSpec

-----------------------------------------------------------------------------
(* What the steps of a settle do to the record and the admissions *)

\* A settle that leaves nothing in the record. One that waits for a delivery does
\* so only by a panic.
GivesUp(r) ==
  /\ phase[r] # Idle
  /\ MayPanic \/ ~Delivering(r)
  /\ phase' = [phase EXCEPT ![r] = Idle]
  /\ pay' = [pay EXCEPT ![r] = NoPayment]
  /\ record' = [record EXCEPT ![Serves[r]] = Released(record[Serves[r]], pay[r])]
  /\ UNCHANGED sent

\* A settle that goes on towards its broadcast.
Advances(r) ==
  /\ phase[r] \in {"account", "simulate", "checked"}
  /\ \E next \in {"simulate", "checked", "sending"} : phase' = [phase EXCEPT ![r] = next]
  /\ UNCHANGED <<record, pay, sent>>

\* A settle whose payment a node has admitted.
Admission(r) ==
  /\ phase[r] = "sending"
  /\ phase' = [phase EXCEPT ![r] = "await"]
  /\ sent' = [sent EXCEPT ![Serves[r]][pay[r]] = 0]
  /\ UNCHANGED <<record, pay>>

LEMMA StepCases ==
  ASSUME NEW r \in Requests, Step(r) \/ Panic(r)
  PROVE  GivesUp(r) \/ Advances(r) \/ Admission(r) \/ Delivered(r) \/ NotDelivered(r)
<1>1. CASE ReadAccount(r) \/ Simulate(r) \/ StartBroadcast(r)
  BY <1>1 DEF ReadAccount, Simulate, StartBroadcast, GiveBack, Return, Proceed, GivesUp,
              Advances, Delivering, Idle
<1>2. CASE Broadcast(r)
  BY <1>2 DEF Broadcast, Admitted, RefusedByNode, Unanswered, GiveBack, Return, Proceed,
              GivesUp, Admission, Delivering, Idle
<1>3. CASE Panic(r)
  BY <1>3 DEF Panic, GivesUp
<1> QED BY <1>1, <1>2, <1>3 DEF Step

\* Two settles under way in a process settle different payments.
LEMMA SettlesDiffer ==
  ASSUME TypeInv, ClaimIsHeld, NEW r \in Requests, NEW s \in Requests, r # s,
         phase[r] # Idle, phase[s] # Idle
  PROVE  Serves[r] # Serves[s] \/ pay[r] # pay[s]
BY FacilitatorAssumption DEF TypeInv, TypeOK, RequestOK, ClaimIsHeld, Holders

LEMMA SweptEntry ==
  ASSUME NEW rec \in Records, NEW p \in Payments
  PROVE  /\ Swept(rec)[p] = rec[p] \/ Swept(rec)[p] = Unclaimed
         /\ rec[p].state = "settling" => Swept(rec)[p] = rec[p]
         /\ rec[p].at <= TTL => Swept(rec)[p] = rec[p]
         /\ Swept(rec)[p] \in Entries
<1>1. Swept(rec)[p] = IF Expired(rec[p]) THEN Unclaimed ELSE rec[p]
  BY DEF Swept
<1>2. rec[p].at \in Times
  BY DEF Records, Entries, Fields
<1>3. Swept(rec)[p] \in Entries
  BY SweptType DEF Records
<1>4. rec[p].at <= TTL => ~Expired(rec[p])
  BY <1>2, TTLAssumption DEF Expired, Times, Ages
<1> QED BY <1>1, <1>3, <1>4 DEF Expired

LEMMA ClaimedEntries ==
  ASSUME NEW rec \in Records, NEW p \in Payments
  PROVE  /\ Claimed(rec, p)[p].state = "settling"
         /\ Claimed(rec, p)[p].hash = Swept(rec)[p].hash
         /\ Claimed(rec, p)[p].at = Swept(rec)[p].at
         /\ \A q \in Payments \ {p} : Claimed(rec, p)[q] = Swept(rec)[q]
BY SweptType DEF Claimed, Records, Entries, Fields

\* The payment a claim takes is settled by nobody, in the process that takes it.
LEMMA ClaimedByNoOther ==
  ASSUME TypeInv, ClaimIsHeld, NEW r \in Requests, NEW p \in Payments, Claim(r, p),
         NEW s \in Requests, phase[s] # Idle
  PROVE  Serves[s] # Serves[r] \/ pay[s] # p
<1>1. Serves[r] \in Facilitators /\ record[Serves[r]] \in Records
  BY FacilitatorAssumption DEF TypeInv, TypeOK
<1>2. record[Serves[r]][p].state # "settling"
  BY <1>1, SweptKeepsClaims DEF Claim, Claimable
<1> QED BY <1>1, <1>2 DEF ClaimIsHeld, Holders

\* What a claim does to the entries of its process.
LEMMA ClaimEntries ==
  ASSUME TypeInv, NEW r \in Requests, NEW p \in Payments, Claim(r, p),
         NEW f \in Facilitators, NEW q \in Payments
  PROVE  \/ f = Serves[r] /\ q = p /\ record'[f][q].state = "settling"
            /\ record'[f][q].hash = Swept(record[f])[q].hash
            /\ record'[f][q].at = Swept(record[f])[q].at
         \/ ~(f = Serves[r] /\ q = p)
            /\ record'[f][q] \in {record[f][q], Swept(record[f])[q]}
<1>1. record \in [Facilitators -> Records] /\ Serves[r] \in Facilitators
  BY FacilitatorAssumption DEF TypeInv, TypeOK
<1>2. record' = [record EXCEPT ![Serves[r]] = Claimed(record[Serves[r]], p)]
  BY DEF Claim
<1> QED BY <1>1, <1>2, ClaimedEntries

-----------------------------------------------------------------------------
(* The record has grounds *)

\* What the executed blocks only add to.
LEMMA ExecutedGrows == PromiseInv /\ Moves => Executed \subseteq Executed'
<1> SUFFICES ASSUME PromiseInv, Moves PROVE Executed \subseteq Executed'
  OBVIOUS
<1>0. ChainTypeOK /\ ChainInv /\ TypeInv
  BY DEF PromiseInv, SettleInv, TypeInv, TypeOK
<1>1. ASSUME NEW r \in Requests, Step(r) \/ Panic(r) PROVE UNCHANGED outcome
  BY <1>0, <1>1, StepsOnChain DEF chainVars
<1>2. CASE ChainStep
  <2>1. ASSUME NEW n \in Nodes, NEW p \in Payments, Commit(n, p)
        PROVE  Executed \subseteq Executed'
    BY <1>0, <2>1, CommitExecutes
  <2> QED BY <1>2, <2>1 DEF ChainStep, ChainNext, Hear, CatchUp, RestartNode, Executed
<1>3. CASE UNCHANGED outcome
  BY <1>3 DEF Executed
<1>4. CASE UNCHANGED chainVars
  BY <1>3, <1>4 DEF chainVars
<1> QED BY <1>1, <1>2, <1>3, <1>4
        DEF Moves, Present, Claim, RefuseDuplicate, End, RestartProcess, Tick, Rests

\* An entry of process f for p has grounds.
Grounded(f, p) ==
  /\ record[f][p].state = "settled" => p \in Executed
  /\ record[f][p].state \in {"settled", "pending"} => record[f][p].hash
  /\ record[f][p].hash => sent[f][p] # NoTime

\* A settle that waits for a delivery was told of an admission, and the claim of
\* one that reconciles kept its hash.
AdmissionKnown(r) ==
  /\ Delivering(r) => sent[Serves[r]][pay[r]] # NoTime
  /\ phase[r] = "reconcile" => record[Serves[r]][pay[r]].hash

GroundsInv ==
  /\ \A f \in Facilitators, p \in Payments : Grounded(f, p)
  /\ \A r \in Requests : AdmissionKnown(r)

\* An entry that stays, or is forgotten, keeps its grounds while its admission is known.
LEMMA KeptGrounded ==
  ASSUME GroundsInv, Executed \subseteq Executed', NEW f \in Facilitators,
         NEW p \in Payments, sent[f][p] # NoTime => sent'[f][p] # NoTime,
         \/ record'[f][p] = Unclaimed
         \/ /\ record'[f][p].state \in {record[f][p].state, "settling"}
            /\ record'[f][p].hash = record[f][p].hash
  PROVE  Grounded(f, p)'
BY DEF GroundsInv, Grounded, Unclaimed

LEMMA GroundsClaim ==
  ASSUME PromiseInv, GroundsInv, Executed \subseteq Executed',
         NEW r \in Requests, NEW p \in Payments, Claim(r, p)
  PROVE  GroundsInv'
<1>0. /\ TypeInv /\ ClaimIsHeld /\ Serves[r] \in Facilitators
      /\ record \in [Facilitators -> Records]
      /\ phase \in [Requests -> Phases] /\ pay \in [Requests -> Payments \cup {NoPayment}]
      /\ Serves \in [Requests -> Facilitators]
  BY FacilitatorAssumption DEF PromiseInv, SettleInv, TypeInv, TypeOK
<1>1. /\ UNCHANGED sent
      /\ pay' = [pay EXCEPT ![r] = p]
      /\ phase' = [phase EXCEPT ![r] =
           IF Swept(record[Serves[r]])[p].state = "pending" THEN "reconcile" ELSE "account"]
  BY DEF Claim
<1>2. ASSUME NEW f \in Facilitators, NEW q \in Payments PROVE Grounded(f, q)'
  <2>1. Swept(record[f])[q] \in {record[f][q], Unclaimed}
    BY <1>0, SweptEntry
  <2>2. CASE f = Serves[r] /\ q = p
    <3>1. /\ record'[f][q].state = "settling"
          /\ record'[f][q].hash = Swept(record[f])[q].hash
      BY <1>0, <2>2, ClaimEntries
    <3>2. CASE Swept(record[f])[q] = record[f][q]
      BY <1>1, <3>1, <3>2, KeptGrounded
    <3>3. CASE Swept(record[f])[q] = Unclaimed
      BY <3>1, <3>3 DEF Grounded, Unclaimed
    <3> QED BY <2>1, <3>2, <3>3
  <2>3. CASE ~(f = Serves[r] /\ q = p)
    <3>1. record'[f][q] \in {record[f][q], Unclaimed}
      BY <1>0, <2>1, <2>3, ClaimEntries
    <3> QED BY <1>1, <3>1, KeptGrounded
  <2> QED BY <2>2, <2>3
<1>3. ASSUME NEW s \in Requests PROVE AdmissionKnown(s)'
  <2>1. CASE s = r
    <3> SUFFICES ASSUME phase'[r] \in {"await", "reconcile"}
                 PROVE  sent'[Serves[r]][p] # NoTime /\ record'[Serves[r]][p].hash
      BY <1>0, <1>1, <2>1 DEF AdmissionKnown, Delivering
    <3>1. Swept(record[Serves[r]])[p].state = "pending"
      BY <1>0, <1>1
    <3>2. Swept(record[Serves[r]])[p] = record[Serves[r]][p]
      BY <1>0, <3>1, SweptEntry DEF Unclaimed
    <3>3. record[Serves[r]][p].hash /\ sent[Serves[r]][p] # NoTime
      BY <1>0, <3>1, <3>2 DEF GroundsInv, Grounded
    <3> QED BY <1>0, <1>1, <3>2, <3>3, ClaimEntries
  <2>2. CASE s # r
    <3>1. phase'[s] = phase[s] /\ pay'[s] = pay[s] /\ AdmissionKnown(s)
      BY <1>0, <1>1, <2>2 DEF GroundsInv
    <3>2. CASE phase[s] = "reconcile"
      <4>1. Serves[s] \in Facilitators /\ pay[s] \in Payments /\ phase[s] # Idle
        BY <1>0, <3>2 DEF TypeInv, RequestOK, Idle
      <4>2. record[Serves[s]][pay[s]].state = "settling"
        BY <1>0, <4>1 DEF ClaimIsHeld, Holders
      <4>3. Swept(record[Serves[s]])[pay[s]] = record[Serves[s]][pay[s]]
        BY <1>0, <4>1, <4>2, SweptEntry
      <4>4. record'[Serves[s]][pay[s]].hash = record[Serves[s]][pay[s]].hash
        BY <1>0, <4>1, <4>3, ClaimEntries
      <4> QED BY <1>1, <3>1, <4>4 DEF AdmissionKnown, Delivering
    <3>3. CASE phase[s] # "reconcile"
      BY <1>1, <3>1, <3>3 DEF AdmissionKnown, Delivering
    <3> QED BY <3>2, <3>3
  <2> QED BY <2>1, <2>2
<1> QED BY <1>2, <1>3 DEF GroundsInv

\* A settle that ends leaves an entry with grounds, and the others as they were.
LEMMA GroundsEnds ==
  ASSUME PromiseInv, GroundsInv, Executed \subseteq Executed', UNCHANGED sent,
         NEW r \in Requests, GivesUp(r) \/ Delivered(r) \/ NotDelivered(r)
  PROVE  GroundsInv'
<1>0. /\ TypeInv /\ ClaimIsHeld /\ ChainInv
      /\ Serves \in [Requests -> Facilitators]
      /\ record \in [Facilitators -> Records]
      /\ phase \in [Requests -> Phases] /\ pay \in [Requests -> Payments \cup {NoPayment}]
  BY FacilitatorAssumption DEF PromiseInv, SettleInv, TypeInv, TypeOK
<1>1. Ends(r)
  BY DEF Ends, GivesUp, Delivered, NotDelivered, Delivering, Return, Idle
<1>2. /\ phase[r] # Idle /\ pay[r] \in Payments
      /\ phase' = [phase EXCEPT ![r] = Idle]
      /\ pay' = [pay EXCEPT ![r] = NoPayment]
  BY <1>0, <1>1 DEF Ends, TypeInv, RequestOK
<1>3. ASSUME NEW f \in Facilitators, NEW q \in Payments PROVE Grounded(f, q)'
  <2>1. CASE f = Serves[r] /\ q = pay[r]
    <3> DEFINE e == record'[f][q]
    <3>1. CASE GivesUp(r)
      <4>1. e = Unclaimed
        BY <1>0, <2>1, <3>1, ReleasedEntries DEF GivesUp
      <4> QED BY <4>1, KeptGrounded
    <3>2. CASE Delivered(r)
      <4>1. e = [state |-> "settled", hash |-> TRUE, at |-> 0]
        BY <1>0, <2>1, <3>2, MarkedSettledEntries DEF Delivered, Return
      <4>2. q \in Executed
        BY <1>0, <2>1, <3>2, FacilitatorAssumption DEF Delivered, Reach, ChainInv
      <4>3. sent[f][q] # NoTime
        BY <2>1, <3>2 DEF Delivered, GroundsInv, AdmissionKnown
      <4> QED BY <4>1, <4>2, <4>3 DEF Grounded
    <3>3. CASE NotDelivered(r)
      <4>1. e = [state |-> "pending", hash |-> TRUE,
                 at |-> IF record[f][q].at = NoTime THEN 0 ELSE record[f][q].at]
        BY <1>0, <2>1, <3>3, MarkedPendingEntries DEF NotDelivered, Return
      <4>2. sent[f][q] # NoTime
        BY <2>1, <3>3 DEF NotDelivered, GroundsInv, AdmissionKnown
      <4>3. e.state = "pending" /\ e.hash
        BY <4>1
      <4> QED BY <4>2, <4>3 DEF Grounded
    <3> QED BY <3>1, <3>2, <3>3
  <2>2. CASE f # Serves[r] \/ q # pay[r]
    <3>1. record'[f][q] = record[f][q]
      BY <1>0, <1>1, <2>2, EndsEntries
    <3> QED BY <3>1, KeptGrounded
  <2> QED BY <2>1, <2>2
<1>4. ASSUME NEW s \in Requests PROVE AdmissionKnown(s)'
  <2>1. CASE s = r
    BY <1>0, <1>2, <2>1 DEF AdmissionKnown, Delivering, Idle
  <2>2. CASE s # r /\ phase[s] = Idle
    BY <1>0, <1>2, <2>2 DEF AdmissionKnown, Delivering, Idle
  <2>3. CASE s # r /\ phase[s] # Idle
    <3>1. /\ Serves[s] \in Facilitators /\ pay[s] \in Payments
          /\ phase'[s] = phase[s] /\ pay'[s] = pay[s]
      BY <1>0, <1>2, <2>3 DEF TypeInv, RequestOK
    <3>2. Serves[s] # Serves[r] \/ pay[s] # pay[r]
      BY <1>0, <1>2, <2>3, SettlesDiffer
    <3>3. record'[Serves[s]][pay[s]] = record[Serves[s]][pay[s]]
      BY <1>0, <1>1, <3>1, <3>2, EndsEntries
    <3> QED BY <3>1, <3>3 DEF GroundsInv, AdmissionKnown, Delivering
  <2> QED BY <2>1, <2>2, <2>3
<1> QED BY <1>3, <1>4 DEF GroundsInv

LEMMA GroundsAdmission ==
  ASSUME PromiseInv, GroundsInv, Executed \subseteq Executed', NEW r \in Requests, Admission(r)
  PROVE  GroundsInv'
<1>0. /\ sent \in [Facilitators -> [Payments -> Times]]
      /\ Serves[r] \in Facilitators /\ pay[r] \in Payments
      /\ phase \in [Requests -> Phases]
  BY FacilitatorAssumption DEF PromiseInv, SettleInv, TypeInv, TypeOK, RequestOK, Admission, Idle
<1>1. \A f \in Facilitators, p \in Payments : sent[f][p] # NoTime => sent'[f][p] # NoTime
  BY <1>0 DEF Admission
<1>2. sent'[Serves[r]][pay[r]] # NoTime
  BY <1>0 DEF Admission
<1>3. ASSUME NEW f \in Facilitators, NEW q \in Payments PROVE Grounded(f, q)'
  BY <1>1, KeptGrounded DEF Admission
<1>4. ASSUME NEW s \in Requests PROVE AdmissionKnown(s)'
  <2>1. CASE s = r
    BY <1>0, <1>2, <2>1 DEF Admission, AdmissionKnown, Delivering
  <2>2. CASE s # r
    <3>1. Delivering(s) => Serves[s] \in Facilitators /\ pay[s] \in Payments
      BY FacilitatorAssumption
         DEF PromiseInv, SettleInv, TypeInv, TypeOK, RequestOK, Delivering, Idle
    <3> QED BY <1>0, <1>1, <2>2, <3>1 DEF Admission, GroundsInv, AdmissionKnown, Delivering
  <2> QED BY <2>1, <2>2
<1> QED BY <1>3, <1>4 DEF GroundsInv

LEMMA GroundsAdvances ==
  ASSUME PromiseInv, GroundsInv, Executed \subseteq Executed', NEW r \in Requests, Advances(r)
  PROVE  GroundsInv'
<1>1. \A f \in Facilitators, q \in Payments : Grounded(f, q)'
  BY KeptGrounded DEF Advances
<1>2. \A s \in Requests : AdmissionKnown(s)'
  BY DEF Advances, PromiseInv, SettleInv, TypeInv, TypeOK, GroundsInv, AdmissionKnown, Delivering
<1> QED BY <1>1, <1>2 DEF GroundsInv

\* A step of a request's that moves only the answer and the sweep of the record.
LEMMA GroundsSwept ==
  ASSUME PromiseInv, GroundsInv, Executed \subseteq Executed', NEW f \in Facilitators,
         record' = [record EXCEPT ![f] = Swept(@)], UNCHANGED <<phase, pay, sent>>
  PROVE  GroundsInv'
<1>0. /\ TypeInv /\ ClaimIsHeld /\ record \in [Facilitators -> Records]
      /\ Serves \in [Requests -> Facilitators]
  BY FacilitatorAssumption DEF PromiseInv, SettleInv, TypeInv, TypeOK
<1>1. ASSUME NEW g \in Facilitators, NEW q \in Payments
      PROVE  /\ record'[g][q] \in {record[g][q], Unclaimed}
             /\ record[g][q].state = "settling" => record'[g][q] = record[g][q]
  BY <1>0, SweptEntry
<1>2. \A g \in Facilitators, q \in Payments : Grounded(g, q)'
  BY <1>1, KeptGrounded
<1>3. ASSUME NEW s \in Requests PROVE AdmissionKnown(s)'
  <2>1. CASE Delivering(s)
    <3>1. Serves[s] \in Facilitators /\ pay[s] \in Payments
      BY <1>0, <2>1 DEF TypeInv, TypeOK, RequestOK, Delivering, Idle
    <3>2. record[Serves[s]][pay[s]].state = "settling"
      BY <1>0, <3>1 DEF ClaimIsHeld, Holders
    <3> QED BY <1>1, <3>1, <3>2 DEF GroundsInv, AdmissionKnown, Delivering
  <2>2. CASE ~Delivering(s)
    BY <2>2 DEF AdmissionKnown, Delivering
  <2> QED BY <2>1, <2>2
<1> QED BY <1>2, <1>3 DEF GroundsInv

LEMMA OlderNeverNoTime ==
  ASSUME NEW t \in Times PROVE Older(t) = NoTime <=> t = NoTime
BY TTLAssumption DEF Older, Times, Ages

LEMMA GroundsNext == PromiseInv /\ GroundsInv /\ Moves => GroundsInv'
<1> SUFFICES ASSUME PromiseInv, GroundsInv, Moves PROVE GroundsInv'
  OBVIOUS
<1>0. /\ TypeInv /\ record \in [Facilitators -> Records]
      /\ sent \in [Facilitators -> [Payments -> Times]]
      /\ Serves \in [Requests -> Facilitators]
      /\ Executed \subseteq Executed'
  BY FacilitatorAssumption, ExecutedGrows DEF PromiseInv, SettleInv, TypeInv, TypeOK
<1>1. ASSUME NEW r \in Requests, NEW p \in Payments, Present(r, p) PROVE GroundsInv'
  <2>1. p \in Payments
    BY FacilitatorAssumption
  <2>2. CASE Claim(r, p)
    BY <1>0, <2>1, <2>2, GroundsClaim
  <2>3. CASE RefuseDuplicate(r, p)
    BY <1>0, <2>3, GroundsSwept DEF RefuseDuplicate
  <2> QED BY <1>1, <2>2, <2>3 DEF Present
<1>2. ASSUME NEW r \in Requests, Step(r) \/ Panic(r) PROVE GroundsInv'
  <2>1. CASE GivesUp(r) \/ Delivered(r) \/ NotDelivered(r)
    BY <1>0, <2>1, GroundsEnds DEF GivesUp, Delivered, NotDelivered
  <2> QED BY <1>0, <1>2, <2>1, StepCases, GroundsAdvances, GroundsAdmission
<1>3. ASSUME UNCHANGED <<record, phase, pay, sent>> PROVE GroundsInv'
  <2>1. \A f \in Facilitators, q \in Payments : Grounded(f, q)'
    BY <1>0, <1>3, KeptGrounded
  <2>2. \A s \in Requests : AdmissionKnown(s)'
    BY <1>3 DEF GroundsInv, AdmissionKnown, Delivering
  <2> QED BY <2>1, <2>2 DEF GroundsInv
<1>4. ASSUME NEW f \in Facilitators, RestartProcess(f) PROVE GroundsInv'
  <2>1. ASSUME NEW g \in Facilitators
        PROVE  IF g = f THEN record'[g] = NewRecord
                        ELSE record'[g] = record[g] /\ sent'[g] = sent[g]
    BY <1>0, <1>4 DEF RestartProcess
  <2>2. ASSUME NEW g \in Facilitators, NEW q \in Payments PROVE Grounded(g, q)'
    <3>1. CASE g = f
      BY <2>1, <3>1 DEF NewRecord, Grounded, Unclaimed
    <3>2. CASE g # f
      BY <1>0, <2>1, <3>2, KeptGrounded
    <3> QED BY <3>1, <3>2
  <2>3. ASSUME NEW s \in Requests PROVE AdmissionKnown(s)'
    <3>1. CASE Serves[s] = f
      BY <1>4, <3>1 DEF RestartProcess, AdmissionKnown, Delivering, Idle
    <3>2. CASE Serves[s] # f
      BY <1>0, <1>4, <2>1, <3>2 DEF RestartProcess, GroundsInv, AdmissionKnown, Delivering
    <3> QED BY <3>1, <3>2
  <2> QED BY <2>2, <2>3 DEF GroundsInv
<1>5. CASE Tick
  <2>1. ASSUME NEW f \in Facilitators, NEW q \in Payments
        PROVE  /\ record'[f][q].state = record[f][q].state
               /\ record'[f][q].hash = record[f][q].hash
               /\ sent'[f][q] = NoTime <=> sent[f][q] = NoTime
    <3>1. record[f] \in Records /\ record'[f] = Aged(record[f])
      BY <1>0, <1>5 DEF Tick
    <3>2. sent[f][q] \in Times /\ sent'[f][q] = Older(sent[f][q])
      BY <1>0, <1>5 DEF Tick, OlderAll
    <3> QED BY <3>1, <3>2, AgedKeepsStates, OlderNeverNoTime
  <2>2. \A f \in Facilitators, q \in Payments : Grounded(f, q)'
    BY <1>0, <2>1, KeptGrounded
  <2>3. ASSUME NEW s \in Requests PROVE AdmissionKnown(s)'
    <3>1. Delivering(s) => Serves[s] \in Facilitators /\ pay[s] \in Payments
      BY <1>0 DEF TypeInv, TypeOK, RequestOK, Delivering, Idle
    <3> QED BY <1>5, <2>1, <3>1 DEF Tick, GroundsInv, AdmissionKnown, Delivering
  <2> QED BY <2>2, <2>3 DEF GroundsInv
<1> QED BY <1>1, <1>2, <1>3, <1>4, <1>5
        DEF Moves, End, ChainStep, Rests

LEMMA GroundsInit == Init => GroundsInv
<1> SUFFICES ASSUME Init PROVE GroundsInv
  OBVIOUS
<1>1. \A f \in Facilitators, p \in Payments : record[f][p] = Unclaimed
  BY DEF Init, NewRecord
<1>2. \A r \in Requests : phase[r] = Idle
  BY DEF Init
<1> QED BY <1>1, <1>2 DEF GroundsInv, Grounded, AdmissionKnown, Delivering, Idle, Unclaimed

LEMMA GroundsInvariant == Spec => [](PromiseInv /\ GroundsInv)
<1>1. PromiseInv /\ GroundsInv /\ [Next]_vars => GroundsInv'
  BY NextMoves, GroundsNext
<1> QED BY <1>1, GroundsInit, PromiseInvariant, PTL DEF Spec

(***************************************************************************)
(* record's order of cases, and the claims around it, never record more     *)
(* than was established: a payment recorded settled is in a block, and one   *)
(* recorded with a hash was admitted by a node this process heard from.      *)
(***************************************************************************)
THEOREM GroundsForRecord == Spec => []RecordHasGrounds
<1>1. GroundsInv => RecordHasGrounds
  BY DEF GroundsInv, Grounded, RecordHasGrounds
<1> QED BY <1>1, GroundsInvariant, PTL

\* A copy refused without its payment's hash finds the first settle of it under way.
LEMMA HashlessCopy ==
  ASSUME PromiseInv, GroundsInv, Moves, Answering, answer'.kind = "duplicate", ~answer'.hash
  PROVE  \E r \in Holders(answer'.by, answer'.pay) : phase[r] # "reconcile"
<1>1. ASSUME NEW r \in Requests, Step(r) PROVE answer'.kind # "duplicate"
  BY <1>1 DEF Step, ReadAccount, Simulate, StartBroadcast, Broadcast, Admitted,
              RefusedByNode, Unanswered, Delivered, NotDelivered, Proceed, GiveBack, Return,
              NoAnswer
<1> PICK r \in Requests, p \in Payments : RefuseDuplicate(r, p)
  BY <1>1 DEF Moves, Rests, Answering, Present, Claim, Panic, End, RestartProcess, ChainStep,
              Tick, NoAnswer
<1> DEFINE f == Serves[r]
<1>2. f \in Facilitators /\ record[f] \in Records
  BY FacilitatorAssumption DEF PromiseInv, SettleInv, TypeInv, TypeOK
<1>3. answer'.by = f /\ answer'.pay = p /\ ~record[f][p].hash
  BY DEF RefuseDuplicate
<1>4. Swept(record[f])[p].state \in {"settling", "settled"}
  BY DEF RefuseDuplicate, Claimable
<1>5. record[f][p].state \in {"settling", "settled"}
  BY <1>2, <1>4, SweptEntry DEF Unclaimed
<1>6. record[f][p].state = "settling"
  BY <1>2, <1>3, <1>5 DEF GroundsInv, Grounded
<1> PICK s \in Requests : s \in Holders(f, p)
  BY <1>2, <1>6 DEF PromiseInv, SettleInv, ClaimIsHeld, Holders
<1>7. phase[s] # "reconcile"
  BY <1>3 DEF Holders, GroundsInv, AdmissionKnown
<1> QED BY <1>3, <1>7

(***************************************************************************)
(* The hash a copy is refused with: claim keeps a pending payment's hash     *)
(* while it is reconciled, so only the first settle of a payment leaves a    *)
(* copy without it.                                                         *)
(***************************************************************************)
THEOREM HashKeptForCopies == Spec => HashlessDuplicateMeansFirstSettle
<1>1. ASSUME PromiseInv, GroundsInv, [Next]_vars
      PROVE  [Answering /\ answer'.kind = "duplicate" /\ ~answer'.hash
                => \E r \in Holders(answer'.by, answer'.pay) : phase[r] # "reconcile"]_vars
  BY <1>1, NextMoves, HashlessCopy
<1> QED BY <1>1, GroundsInvariant, PTL DEF Spec, HashlessDuplicateMeansFirstSettle

-----------------------------------------------------------------------------
(* An admitted payment is not broadcast again while its admission is remembered *)

\* No time is kept with a payment that is not recorded.
NotDated(f, p) == record[f][p].state = "unclaimed" => record[f][p].at = NoTime

\* Nor with the claim of a settle that does not reconcile.
ClaimNotDated(r) ==
  phase[r] \notin {Idle, "reconcile"} => record[Serves[r]][pay[r]].at = NoTime

\* An admission within TTL is recorded, since no later than it was heard, or the
\* settle that heard of it, or one that reconciles, is still under way.
Remembered(f, p) ==
  Recent(sent[f][p]) =>
    /\ record[f][p].at <= sent[f][p]
    /\ \/ record[f][p].state \in {"settled", "pending"}
       \/ \E r \in Holders(f, p) : Delivering(r)

MemoryInv ==
  /\ \A f \in Facilitators, p \in Payments : NotDated(f, p) /\ Remembered(f, p)
  /\ \A r \in Requests : ClaimNotDated(r)

\* A settle that does not wait for a delivery settles a payment with no admission
\* to remember.
LEMMA NotWaitingNotSent ==
  ASSUME SettleInv, MemoryInv, NEW r \in Requests, phase[r] # Idle, ~Delivering(r)
  PROVE  ~Recent(sent[Serves[r]][pay[r]])
<1>1. Serves[r] \in Facilitators /\ pay[r] \in Payments
  BY FacilitatorAssumption DEF SettleInv, TypeInv, TypeOK, RequestOK
<1>2. r \in Holders(Serves[r], pay[r])
  BY DEF Holders
<1>3. /\ record[Serves[r]][pay[r]].state = "settling"
      /\ \A s \in Holders(Serves[r], pay[r]) : s = r
  BY <1>1, <1>2 DEF SettleInv, ClaimIsHeld
<1> QED BY <1>1, <1>3 DEF MemoryInv, Remembered

\* What a recent admission left in the record is not swept.
LEMMA RememberedNotSwept ==
  ASSUME SettleInv, MemoryInv, NEW f \in Facilitators, NEW p \in Payments,
         Recent(sent[f][p])
  PROVE  Swept(record[f])[p] = record[f][p]
<1>1. record[f] \in Records /\ sent[f][p] \in Times
  BY DEF SettleInv, TypeInv, TypeOK
<1>2. record[f][p].at \in Times
  BY <1>1 DEF Records, Entries, Fields
<1>3. record[f][p].at <= TTL
  BY <1>1, <1>2, TTLAssumption DEF MemoryInv, Remembered, Times, Ages
<1> QED BY <1>1, <1>3, SweptEntry

\* The settles under way of a payment, over a step of a request that settles another.
LEMMA WaitingStays ==
  ASSUME NEW f \in Facilitators, NEW p \in Payments, NEW r \in Requests,
         phase \in [Requests -> Phases], pay \in [Requests -> Payments \cup {NoPayment}],
         r \notin Holders(f, p),
         \A s \in Requests \ {r} : phase'[s] = phase[s] /\ pay'[s] = pay[s],
         \E s \in Holders(f, p) : Delivering(s)
  PROVE  (\E s \in Holders(f, p) : Delivering(s))'
BY DEF Holders, Delivering

LEMMA MemoryClaim ==
  ASSUME SettleInv, MemoryInv, NEW r \in Requests, NEW p \in Payments, Claim(r, p)
  PROVE  MemoryInv'
<1>0. /\ TypeInv /\ ClaimIsHeld /\ Serves \in [Requests -> Facilitators]
      /\ record \in [Facilitators -> Records]
      /\ phase \in [Requests -> Phases] /\ pay \in [Requests -> Payments \cup {NoPayment}]
      /\ phase[r] = Idle /\ pay[r] = NoPayment /\ NoPayment \notin Payments
  BY FacilitatorAssumption DEF SettleInv, TypeInv, TypeOK, RequestOK, Claim
<1>1. /\ UNCHANGED sent
      /\ pay' = [pay EXCEPT ![r] = p]
      /\ phase' = [phase EXCEPT ![r] =
           IF Swept(record[Serves[r]])[p].state = "pending" THEN "reconcile" ELSE "account"]
      /\ Swept(record[Serves[r]])[p].state \notin {"settling", "settled"}
  BY DEF Claim, Claimable
<1>2. ASSUME NEW f \in Facilitators, NEW q \in Payments PROVE NotDated(f, q)'
  <2>1. Swept(record[f])[q] \in {record[f][q], Unclaimed}
    BY <1>0, SweptEntry
  <2>2. /\ NotDated(f, q)
        /\ Swept(record[f])[q].state = "unclaimed" => Swept(record[f])[q].at = NoTime
    BY <2>1 DEF MemoryInv, NotDated, Unclaimed
  <2>3. CASE record'[f][q].state = "settling"
    BY <2>3 DEF NotDated
  <2>4. CASE record'[f][q] \in {record[f][q], Swept(record[f])[q]}
    BY <2>2, <2>4 DEF NotDated
  <2> QED BY <1>0, <2>3, <2>4, ClaimEntries
<1>3. ASSUME NEW f \in Facilitators, NEW q \in Payments, Recent(sent'[f][q])
      PROVE  /\ record'[f][q].at <= sent'[f][q]
             /\ \/ record'[f][q].state \in {"settled", "pending"}
                \/ (\E s \in Holders(f, q) : Delivering(s))'
  <2>1. Swept(record[f])[q] = record[f][q]
    BY <1>1, <1>3, RememberedNotSwept
  <2>2. record'[f][q].at = record[f][q].at
    BY <1>0, <2>1, ClaimEntries
  <2>3. record[f][q].at <= sent[f][q]
    BY <1>1, <1>3 DEF MemoryInv, Remembered
  <2>4. CASE f = Serves[r] /\ q = p
    <3>1. record[f][q].state # "settling"
      BY <1>1, <2>1, <2>4
    <3>2. Holders(f, q) = {}
      BY <3>1 DEF SettleInv, ClaimIsHeld
    <3>3. record[f][q].state = "pending"
      BY <1>1, <1>3, <2>1, <2>4, <3>2 DEF MemoryInv, Remembered
    <3>4. r \in Holders(f, q)' /\ Delivering(r)'
      BY <1>0, <1>1, <2>1, <2>4, <3>3 DEF Holders, Delivering
    <3> QED BY <1>1, <2>2, <2>3, <3>4
  <2>5. CASE ~(f = Serves[r] /\ q = p)
    <3>1. record'[f][q] = record[f][q]
      BY <1>0, <2>1, <2>5, ClaimEntries
    <3>2. r \notin Holders(f, q)
      BY <1>0 DEF Holders
    <3>3. (\E s \in Holders(f, q) : Delivering(s)) => (\E s \in Holders(f, q) : Delivering(s))'
      BY <1>0, <1>1, <3>2, WaitingStays
    <3> QED BY <1>1, <1>3, <2>3, <3>1, <3>3 DEF MemoryInv, Remembered
  <2> QED BY <2>4, <2>5
<1>4. ASSUME NEW s \in Requests PROVE ClaimNotDated(s)'
  <2>1. CASE s = r
    <3> SUFFICES ASSUME phase'[r] # "reconcile"
                 PROVE  record'[Serves[r]][p].at = NoTime
      BY <1>0, <1>1, <2>1 DEF ClaimNotDated
    <3>1. /\ Swept(record[Serves[r]])[p] \in {record[Serves[r]][p], Unclaimed}
          /\ Swept(record[Serves[r]])[p] \in Entries
      BY <1>0, SweptEntry
    <3>2. Swept(record[Serves[r]])[p].state = "unclaimed"
      BY <1>0, <1>1, <3>1 DEF Entries, Fields
    <3>3. Swept(record[Serves[r]])[p].at = NoTime
      BY <1>0, <3>1, <3>2 DEF MemoryInv, NotDated, Unclaimed
    <3> QED BY <1>0, <3>3, ClaimEntries
  <2>2. CASE s # r /\ phase[s] # Idle
    <3>1. /\ Serves[s] \in Facilitators /\ pay[s] \in Payments
          /\ phase'[s] = phase[s] /\ pay'[s] = pay[s]
      BY <1>0, <1>1, <2>2 DEF TypeInv, RequestOK
    <3>2. record[Serves[s]][pay[s]].state = "settling"
      BY <2>2, <3>1 DEF SettleInv, ClaimIsHeld, Holders
    <3>3. record'[Serves[s]][pay[s]].at = record[Serves[s]][pay[s]].at
      BY <1>0, <3>1, <3>2, SweptEntry, ClaimEntries
    <3> QED BY <3>1, <3>3 DEF MemoryInv, ClaimNotDated
  <2>3. CASE s # r /\ phase[s] = Idle
    BY <1>0, <1>1, <2>3 DEF ClaimNotDated
  <2> QED BY <2>1, <2>2, <2>3
<1> QED BY <1>2, <1>3, <1>4 DEF MemoryInv, Remembered

LEMMA MemoryEnds ==
  ASSUME ~MayPanic, SettleInv, MemoryInv, UNCHANGED sent,
         NEW r \in Requests, GivesUp(r) \/ Delivered(r) \/ NotDelivered(r)
  PROVE  MemoryInv'
<1>0. /\ TypeInv /\ ClaimIsHeld /\ Serves \in [Requests -> Facilitators]
      /\ record \in [Facilitators -> Records]
      /\ sent \in [Facilitators -> [Payments -> Times]]
      /\ phase \in [Requests -> Phases] /\ pay \in [Requests -> Payments \cup {NoPayment}]
  BY FacilitatorAssumption DEF SettleInv, TypeInv, TypeOK
<1>1. Ends(r)
  BY DEF Ends, GivesUp, Delivered, NotDelivered, Delivering, Return, Idle
<1>2. /\ phase[r] # Idle /\ pay[r] \in Payments
      /\ phase' = [phase EXCEPT ![r] = Idle]
      /\ pay' = [pay EXCEPT ![r] = NoPayment]
  BY <1>0, <1>1 DEF Ends, TypeInv, RequestOK
<1>3. ASSUME NEW f \in Facilitators, NEW q \in Payments, f # Serves[r] \/ q # pay[r]
      PROVE  NotDated(f, q)' /\ Remembered(f, q)'
  <2>1. record'[f][q] = record[f][q]
    BY <1>0, <1>1, <1>3, EndsEntries
  <2>2. r \notin Holders(f, q)
    BY <1>3 DEF Holders
  <2>3. (\E s \in Holders(f, q) : Delivering(s)) => (\E s \in Holders(f, q) : Delivering(s))'
    BY <1>0, <1>2, <2>2, WaitingStays
  <2> QED BY <2>1, <2>3 DEF MemoryInv, NotDated, Remembered
<1>4. ASSUME NEW f \in Facilitators, NEW q \in Payments, f = Serves[r], q = pay[r]
      PROVE  NotDated(f, q)' /\ Remembered(f, q)'
  <2> DEFINE e == record'[f][q]
  <2>0. f \in Facilitators /\ sent[f][q] \in Times /\ record[f] \in Records
        /\ record[f][q].at \in Times
    BY <1>0, <1>2, <1>4 DEF Records, Entries, Fields
  <2> SUFFICES /\ e.state = "unclaimed" => e.at = NoTime
               /\ Recent(sent[f][q]) =>
                    e.at <= sent[f][q] /\ e.state \in {"settled", "pending"}
    BY DEF NotDated, Remembered
  <2>1. CASE GivesUp(r)
    <3>1. e = Unclaimed
      BY <1>0, <1>2, <1>4, <2>0, <2>1, ReleasedEntries DEF GivesUp
    <3>2. ~Recent(sent[f][q])
      BY <1>2, <1>4, <2>1, NotWaitingNotSent DEF GivesUp
    <3> QED BY <3>1, <3>2 DEF Unclaimed
  <2>2. CASE Delivered(r)
    <3>1. e = [state |-> "settled", hash |-> TRUE, at |-> 0]
      BY <1>0, <1>2, <1>4, <2>0, <2>2, MarkedSettledEntries DEF Delivered, Return
    <3>2. Recent(sent[f][q]) => 0 <= sent[f][q]
      BY <2>0, TTLAssumption DEF Times, Ages
    <3> QED BY <3>1, <3>2
  <2>3. CASE NotDelivered(r)
    <3>1. e = [state |-> "pending", hash |-> TRUE,
               at |-> IF record[f][q].at = NoTime THEN 0 ELSE record[f][q].at]
      BY <1>0, <1>2, <1>4, <2>0, <2>3, MarkedPendingEntries DEF NotDelivered, Return
    <3>2. /\ e.state = "pending"
          /\ e.at = IF record[f][q].at = NoTime THEN 0 ELSE record[f][q].at
      BY <3>1
    <3>3. Recent(sent[f][q]) => e.at <= sent[f][q]
      <4>1. Recent(sent[f][q]) => 0 <= sent[f][q] /\ record[f][q].at <= sent[f][q]
        BY <1>2, <2>0, TTLAssumption DEF MemoryInv, Remembered, Times, Ages
      <4> QED BY <3>2, <4>1
    <3> QED BY <3>2, <3>3
  <2> QED BY <2>1, <2>2, <2>3
<1>5. ASSUME NEW s \in Requests PROVE ClaimNotDated(s)'
  <2>1. CASE s = r \/ phase[s] = Idle
    BY <1>0, <1>2, <2>1 DEF ClaimNotDated
  <2>2. CASE s # r /\ phase[s] # Idle
    <3>1. /\ Serves[s] \in Facilitators /\ pay[s] \in Payments
          /\ phase'[s] = phase[s] /\ pay'[s] = pay[s]
      BY <1>0, <1>2, <2>2 DEF TypeInv, RequestOK
    <3>2. Serves[s] # Serves[r] \/ pay[s] # pay[r]
      BY <1>0, <1>2, <2>2, SettlesDiffer
    <3>3. record'[Serves[s]][pay[s]] = record[Serves[s]][pay[s]]
      BY <1>0, <1>1, <3>1, <3>2, EndsEntries
    <3> QED BY <3>1, <3>3 DEF MemoryInv, ClaimNotDated
  <2> QED BY <2>1, <2>2
<1>6. ASSUME NEW f \in Facilitators, NEW q \in Payments
      PROVE  NotDated(f, q)' /\ Remembered(f, q)'
  BY <1>3, <1>4
<1> QED BY <1>5, <1>6 DEF MemoryInv

LEMMA MemoryAdmission ==
  ASSUME SettleInv, MemoryInv, NEW r \in Requests, Admission(r)
  PROVE  MemoryInv'
<1>0. /\ sent \in [Facilitators -> [Payments -> Times]]
      /\ Serves \in [Requests -> Facilitators]
      /\ Serves[r] \in Facilitators /\ pay[r] \in Payments /\ phase[r] # Idle
      /\ phase \in [Requests -> Phases] /\ pay \in [Requests -> Payments \cup {NoPayment}]
      /\ NoPayment \notin Payments
  BY FacilitatorAssumption DEF SettleInv, TypeInv, TypeOK, RequestOK, Admission, Idle
<1>1. ASSUME NEW f \in Facilitators, NEW q \in Payments PROVE NotDated(f, q)' /\ Remembered(f, q)'
  <2>1. record'[f][q] = record[f][q]
    BY DEF Admission
  <2>2. CASE f = Serves[r] /\ q = pay[r]
    <3>1. sent'[f][q] = 0
      BY <1>0, <2>2 DEF Admission
    <3>2. record[f][q].at = NoTime
      BY <2>2 DEF Admission, MemoryInv, ClaimNotDated, Idle
    <3>3. (\E s \in Holders(f, q) : Delivering(s))'
      BY <1>0, <2>2 DEF Admission, Holders, Delivering
    <3> QED BY <2>1, <3>1, <3>2, <3>3 DEF NotDated, Remembered
  <2>3. CASE ~(f = Serves[r] /\ q = pay[r])
    <3>1. sent'[f][q] = sent[f][q]
      BY <1>0, <2>3 DEF Admission
    <3>2. r \notin Holders(f, q)
      BY <2>3 DEF Holders
    <3>3. (\E s \in Holders(f, q) : Delivering(s)) => (\E s \in Holders(f, q) : Delivering(s))'
      BY <1>0, <3>2, WaitingStays DEF Admission
    <3> QED BY <2>1, <3>1, <3>3 DEF MemoryInv, NotDated, Remembered
  <2> QED BY <2>2, <2>3
<1>2. ASSUME NEW s \in Requests PROVE ClaimNotDated(s)'
  BY <1>0 DEF Admission, MemoryInv, ClaimNotDated, Idle
<1> QED BY <1>1, <1>2 DEF MemoryInv

LEMMA MemoryAdvances ==
  ASSUME SettleInv, MemoryInv, NEW r \in Requests, Advances(r)
  PROVE  MemoryInv'
<1>0. /\ phase \in [Requests -> Phases] /\ Serves \in [Requests -> Facilitators]
      /\ phase[r] \in {"account", "simulate", "checked"}
      /\ UNCHANGED <<record, pay, sent>>
  BY FacilitatorAssumption DEF SettleInv, TypeInv, TypeOK, Advances
<1>1. \A s \in Requests : Delivering(s) => Delivering(s)'
  BY <1>0 DEF Advances, Delivering
<1>2. ASSUME NEW f \in Facilitators, NEW q \in Payments PROVE NotDated(f, q)' /\ Remembered(f, q)'
  BY <1>0, <1>1 DEF MemoryInv, NotDated, Remembered, Holders
<1>3. ASSUME NEW s \in Requests PROVE ClaimNotDated(s)'
  BY <1>0 DEF Advances, MemoryInv, ClaimNotDated, Idle
<1> QED BY <1>2, <1>3 DEF MemoryInv

LEMMA OlderMonotone ==
  ASSUME NEW s \in Times, NEW t \in Times, s <= t, Recent(Older(t))
  PROVE  Older(s) <= Older(t)
BY TTLAssumption DEF Older, Times, Ages

\* What is left of the record after a sweep, for the payments it remembers.
LEMMA MemorySwept ==
  ASSUME SettleInv, MemoryInv, NEW f \in Facilitators,
         record' = [record EXCEPT ![f] = Swept(@)], UNCHANGED <<phase, pay, sent>>
  PROVE  MemoryInv'
<1>0. /\ TypeInv /\ record \in [Facilitators -> Records]
      /\ Serves \in [Requests -> Facilitators]
  BY FacilitatorAssumption DEF SettleInv, TypeInv, TypeOK
<1>1. ASSUME NEW g \in Facilitators, NEW q \in Payments
      PROVE  /\ record'[g][q] \in {record[g][q], Unclaimed}
             /\ record[g][q].state = "settling" => record'[g][q] = record[g][q]
             /\ Recent(sent[g][q]) => record'[g][q] = record[g][q]
  BY <1>0, SweptEntry, RememberedNotSwept
<1>2. ASSUME NEW g \in Facilitators, NEW q \in Payments PROVE NotDated(g, q)' /\ Remembered(g, q)'
  BY <1>1 DEF MemoryInv, NotDated, Remembered, Holders, Delivering, Unclaimed
<1>3. ASSUME NEW s \in Requests PROVE ClaimNotDated(s)'
  <2>1. CASE phase[s] # Idle
    <3>1. Serves[s] \in Facilitators /\ pay[s] \in Payments
      BY <1>0, <2>1 DEF TypeInv, TypeOK, RequestOK
    <3>2. record[Serves[s]][pay[s]].state = "settling"
      BY <3>1 DEF SettleInv, ClaimIsHeld, Holders
    <3> QED BY <1>1, <3>1, <3>2 DEF MemoryInv, ClaimNotDated
  <2>2. CASE phase[s] = Idle
    BY <2>2 DEF ClaimNotDated
  <2> QED BY <2>1, <2>2
<1> QED BY <1>2, <1>3 DEF MemoryInv

LEMMA MemoryTick == ASSUME SettleInv, MemoryInv, Tick PROVE MemoryInv'
<1>0. /\ TypeInv /\ record \in [Facilitators -> Records]
      /\ sent \in [Facilitators -> [Payments -> Times]]
      /\ Serves \in [Requests -> Facilitators]
  BY FacilitatorAssumption DEF SettleInv, TypeInv, TypeOK
<1>1. ASSUME NEW f \in Facilitators, NEW q \in Payments
      PROVE  /\ record'[f][q].state = record[f][q].state
             /\ record'[f][q].at = Older(record[f][q].at)
             /\ record[f][q].at \in Times
             /\ sent'[f][q] = Older(sent[f][q])
             /\ sent[f][q] \in Times
  <2>1. record[f] \in Records /\ record'[f] = Aged(record[f])
    BY <1>0 DEF Tick
  <2>2. record[f][q].at \in Times
    BY <2>1 DEF Records, Entries, Fields
  <2>3. sent[f][q] \in Times /\ sent'[f][q] = Older(sent[f][q])
    BY <1>0 DEF Tick, OlderAll
  <2> QED BY <2>1, <2>2, <2>3, AgedKeepsStates
<1>2. ASSUME NEW f \in Facilitators, NEW q \in Payments PROVE NotDated(f, q)' /\ Remembered(f, q)'
  <2>1. NotDated(f, q)'
    BY <1>1, OlderNeverNoTime DEF MemoryInv, NotDated
  <2>2. ASSUME Recent(sent'[f][q])
        PROVE  /\ record'[f][q].at <= sent'[f][q]
               /\ record[f][q].state \in {"settled", "pending"}
                    \/ \E s \in Holders(f, q) : Delivering(s)
    <3>1. Recent(sent[f][q])
      BY <1>1, <2>2, OlderNotRecentAnew
    <3> QED BY <1>1, <2>2, <3>1, OlderMonotone DEF MemoryInv, Remembered
  <2>3. (\E s \in Holders(f, q) : Delivering(s)) => (\E s \in Holders(f, q) : Delivering(s))'
    BY DEF Tick, Holders, Delivering
  <2> QED BY <1>1, <2>1, <2>2, <2>3 DEF Remembered
<1>3. ASSUME NEW s \in Requests PROVE ClaimNotDated(s)'
  <2>1. phase[s] # Idle => Serves[s] \in Facilitators /\ pay[s] \in Payments
    BY <1>0 DEF TypeInv, TypeOK, RequestOK
  <2> QED BY <1>1, <2>1, OlderNeverNoTime DEF Tick, MemoryInv, ClaimNotDated
<1> QED BY <1>2, <1>3 DEF MemoryInv

LEMMA MemoryRestart ==
  ASSUME SettleInv, MemoryInv, NEW f \in Facilitators, RestartProcess(f)
  PROVE  MemoryInv'
<1>0. /\ record \in [Facilitators -> Records]
      /\ sent \in [Facilitators -> [Payments -> Times]]
      /\ Serves \in [Requests -> Facilitators]
      /\ phase \in [Requests -> Phases]
  BY FacilitatorAssumption DEF SettleInv, TypeInv, TypeOK
<1>1. record'[f] = NewRecord /\ sent'[f] = Never[f]
  BY <1>0 DEF RestartProcess
<1>2. \A g \in Facilitators \ {f} : record'[g] = record[g] /\ sent'[g] = sent[g]
  BY <1>0 DEF RestartProcess
<1>3. \A s \in Requests : Serves[s] # f => phase'[s] = phase[s] /\ pay'[s] = pay[s]
  BY DEF RestartProcess
<1>4. ASSUME NEW g \in Facilitators, NEW q \in Payments PROVE NotDated(g, q)' /\ Remembered(g, q)'
  <2>1. CASE g = f
    BY <1>1, <2>1 DEF Never, NewRecord, Unclaimed, NotDated, Remembered
  <2>2. CASE g # f
    <3>1. (\E s \in Holders(g, q) : Delivering(s)) => (\E s \in Holders(g, q) : Delivering(s))'
      BY <1>3, <2>2 DEF Holders, Delivering
    <3> QED BY <1>2, <2>2, <3>1 DEF MemoryInv, NotDated, Remembered
  <2> QED BY <2>1, <2>2
<1>5. ASSUME NEW s \in Requests PROVE ClaimNotDated(s)'
  <2>1. CASE Serves[s] = f
    BY <2>1 DEF RestartProcess, ClaimNotDated
  <2>2. CASE Serves[s] # f
    BY <1>0, <1>2, <1>3, <2>2 DEF MemoryInv, ClaimNotDated
  <2> QED BY <2>1, <2>2
<1> QED BY <1>4, <1>5 DEF MemoryInv

LEMMA MemoryNext == ASSUME ~MayPanic, SettleInv, MemoryInv, Moves PROVE MemoryInv'
<1>1. ASSUME NEW r \in Requests, NEW p \in Payments, Present(r, p) PROVE MemoryInv'
  <2>1. p \in Payments /\ Serves[r] \in Facilitators
    BY FacilitatorAssumption
  <2>2. CASE Claim(r, p)
    BY <2>1, <2>2, MemoryClaim
  <2>3. CASE RefuseDuplicate(r, p)
    BY <2>1, <2>3, MemorySwept DEF RefuseDuplicate
  <2> QED BY <1>1, <2>2, <2>3 DEF Present
<1>2. ASSUME NEW r \in Requests, Step(r) \/ Panic(r) PROVE MemoryInv'
  <2>1. CASE GivesUp(r) \/ Delivered(r) \/ NotDelivered(r)
    BY <2>1, MemoryEnds DEF GivesUp, Delivered, NotDelivered
  <2> QED BY <1>2, <2>1, StepCases, MemoryAdvances, MemoryAdmission
<1>3. ASSUME UNCHANGED <<record, phase, pay, sent>> PROVE MemoryInv'
  BY <1>3 DEF MemoryInv, NotDated, Remembered, ClaimNotDated, Holders, Delivering
<1>4. ASSUME NEW f \in Facilitators, RestartProcess(f) PROVE MemoryInv'
  BY <1>4, MemoryRestart
<1>5. CASE Tick
  BY <1>5, MemoryTick
<1> QED BY <1>1, <1>2, <1>3, <1>4, <1>5 DEF Moves, End, ChainStep, Rests

(***************************************************************************)
(* Settle's choice between delivery and settle, with what claim keeps: where *)
(* no settle panics, a payment a node admitted within TTL is reconciled or   *)
(* refused, and never checked against the chain or broadcast again. A panic  *)
(* while it is reconciled releases the entry, and with it the memory.        *)
(***************************************************************************)
THEOREM AdmittedNotBroadcastAgain ==
  ASSUME ~MayPanic PROVE Spec => []NotBroadcastAgain
<1>1. Init => MemoryInv
  <2> SUFFICES ASSUME Init PROVE MemoryInv
    OBVIOUS
  <2>1. \A f \in Facilitators, p \in Payments :
          record[f][p] = Unclaimed /\ sent[f][p] = NoTime
    BY DEF Init, NewRecord, Never
  <2> QED BY <2>1 DEF Init, MemoryInv, NotDated, Remembered, ClaimNotDated, Unclaimed
<1>2. SettleInv /\ MemoryInv /\ [Next]_vars => MemoryInv'
  BY NextMoves, MemoryNext
<1>3. SettleInv /\ MemoryInv => NotBroadcastAgain
  BY NotWaitingNotSent DEF NotBroadcastAgain, Delivering, Idle
<1> QED BY <1>1, <1>2, <1>3, SettleInvariant, PTL DEF Spec

-----------------------------------------------------------------------------
(* A payment is reported settled once, ever *)

\* Every process calls the one node n, which executes each block at once and keeps
\* its mempool.
OneNode(n) ==
  /\ n \in Nodes \ (Laggards \cup Restarting)
  /\ \A f \in Facilitators : Endpoint[f] \subseteq {n}

\* Process f knows an admission of p: it records one, or a settle waits for the
\* delivery.
Knows(f, p) ==
  record[f][p].hash \/ \E r \in Requests : Serves[r] = f /\ pay[r] = p /\ Delivering(r)

\* One process at most knows an admission of a payment, and the node refuses copies
\* of it. Once success was returned for it, that process has it recorded settled, or
\* no process knows of it any more.
OnceInv(n) ==
  /\ \A f \in Facilitators, p \in Payments : Knows(f, p) => ~Admits(n, p)
  /\ \A f, g \in Facilitators, p \in Payments : Knows(f, p) /\ Knows(g, p) => f = g
  /\ \A p \in everPaid : ~Admits(n, p)
  /\ \A p \in everPaid, f \in Facilitators : Knows(f, p) => record[f][p].state = "settled"

\* A node that lags behind no block and keeps its mempool refuses for good what it
\* refuses once.
LEMMA RefusedForGood ==
  ASSUME PromiseInv, Moves, NEW n, OneNode(n), NEW p \in Payments, ~Admits(n, p)
  PROVE  ~Admits(n, p)'
<1>0. /\ ChainTypeOK /\ ChainInv /\ TypeInv /\ n \in Nodes
      /\ n \notin Laggards /\ n \notin Restarting
      /\ Rivals(p) \subseteq Payments
  BY DEF PromiseInv, SettleInv, TypeInv, TypeOK, OneNode, Rivals
<1>1. CASE UNCHANGED <<view, mempool>>
  BY <1>0, <1>1 DEF Admits, Fresh
<1>2. ASSUME NEW m \in Nodes, NEW q \in Payments, Admit(m, q), UNCHANGED view
      PROVE  ~Admits(n, p)'
  <2>1. mempool[n] \subseteq mempool'[n]
    BY <1>0, <1>2 DEF Admit, ChainTypeOK
  <2> QED BY <1>2, <2>1 DEF Admits, Fresh
<1>3. ASSUME NEW r \in Requests, Step(r) \/ Panic(r) PROVE ~Admits(n, p)'
  BY <1>0, <1>1, <1>2, <1>3, StepsOnChain DEF chainVars
<1>4. CASE ChainStep
  <2> PICK m \in Nodes : \/ \E q \in Payments : Hear(m, q) \/ Commit(m, q)
                         \/ CatchUp(m)
                         \/ RestartNode(m)
    BY <1>4 DEF ChainStep, ChainNext
  <2>1. ASSUME NEW q \in Payments, Hear(m, q) PROVE ~Admits(n, p)'
    BY <1>2, <2>1 DEF Hear
  <2>2. ASSUME NEW q \in Payments, Commit(m, q) PROVE ~Admits(n, p)'
    <3>1. /\ view'[n] = view[n] \cup {q}
          /\ mempool'[n] = mempool[n] \ Rivals(q)
      BY <1>0, <2>2 DEF Commit, ChainInv
    <3> PICK x \in Rivals(p) : x \in view[n] \cup mempool[n]
      BY DEF Admits, Fresh
    <3>2. CASE x \in Rivals(q)
      BY <3>1, <3>2 DEF Admits, Fresh, Rivals
    <3>3. CASE x \notin Rivals(q)
      BY <3>1, <3>3 DEF Admits, Fresh
    <3> QED BY <3>2, <3>3
  <2>3. CASE CatchUp(m)
    <3>1. m # n
      BY <1>0, <2>3 DEF CatchUp, ChainInv
    <3>2. view'[n] = view[n] /\ mempool'[n] = mempool[n]
      BY <1>0, <2>3, <3>1 DEF CatchUp, ChainTypeOK
    <3> QED BY <3>2 DEF Admits, Fresh
  <2>4. CASE RestartNode(m)
    <3>1. mempool'[n] = mempool[n] /\ UNCHANGED view
      BY <1>0, <2>4 DEF RestartNode, ChainTypeOK
    <3> QED BY <3>1 DEF Admits, Fresh
  <2> QED BY <2>1, <2>2, <2>3, <2>4
<1> QED BY <1>1, <1>3, <1>4
        DEF Moves, Present, Claim, RefuseDuplicate, End, RestartProcess, Tick, Rests, chainVars

\* A step that lets no process know of an admission anew, nor forget what it
\* settled without forgetting the admission.
LEMMA OnceKept ==
  ASSUME PromiseInv, Moves, NEW n, OneNode(n), OnceInv(n), UNCHANGED everPaid,
         \A f \in Facilitators, p \in Payments : Knows(f, p)' => Knows(f, p),
         \A f \in Facilitators, p \in Payments :
           Knows(f, p)' /\ record[f][p].state = "settled" => record'[f][p].state = "settled"
  PROVE  OnceInv(n)'
<1>1. everPaid \subseteq Payments
  BY DEF PromiseInv, SettleInv, TypeInv, TypeOK
<1>2. \A p \in Payments : ~Admits(n, p) => ~Admits(n, p)'
  BY RefusedForGood
<1> QED BY <1>1, <1>2 DEF OnceInv

\* A settle that waits for a delivery has the one claim of a payment no process
\* returned success for.
LEMMA WaitingNotPaid ==
  ASSUME PromiseInv, NEW n, OnceInv(n), NEW r \in Requests, Delivering(r)
  PROVE  /\ Serves[r] \in Facilitators /\ pay[r] \in Payments /\ phase[r] # Idle
         /\ Knows(Serves[r], pay[r])
         /\ record[Serves[r]][pay[r]].state = "settling"
         /\ pay[r] \notin everPaid
<1>1. Serves[r] \in Facilitators /\ pay[r] \in Payments /\ phase[r] # Idle
  BY FacilitatorAssumption
     DEF PromiseInv, SettleInv, TypeInv, TypeOK, RequestOK, Delivering, Idle
<1>2. Knows(Serves[r], pay[r])
  BY DEF Knows
<1>3. record[Serves[r]][pay[r]].state = "settling"
  BY <1>1 DEF PromiseInv, SettleInv, ClaimIsHeld, Holders
<1> QED BY <1>1, <1>2, <1>3 DEF OnceInv

LEMMA OnceClaim ==
  ASSUME PromiseInv, GroundsInv, Moves, NEW n, OneNode(n), OnceInv(n),
         NEW r \in Requests, NEW p \in Payments, Claim(r, p)
  PROVE  OnceInv(n)'
<1>0. /\ TypeInv /\ Serves[r] \in Facilitators
      /\ record \in [Facilitators -> Records]
      /\ phase \in [Requests -> Phases] /\ pay \in [Requests -> Payments \cup {NoPayment}]
  BY FacilitatorAssumption DEF PromiseInv, SettleInv, TypeInv, TypeOK
<1>1. /\ UNCHANGED everPaid
      /\ pay' = [pay EXCEPT ![r] = p]
      /\ phase' = [phase EXCEPT ![r] =
           IF Swept(record[Serves[r]])[p].state = "pending" THEN "reconcile" ELSE "account"]
      /\ Swept(record[Serves[r]])[p].state \notin {"settling", "settled"}
  BY DEF Claim, Claimable
<1>2. \A f \in Facilitators, q \in Payments :
        /\ record'[f][q].hash => record[f][q].hash
        /\ record'[f][q].hash /\ record[f][q].state = "settled"
             => record'[f][q].state = "settled"
  <2> SUFFICES ASSUME NEW f \in Facilitators, NEW q \in Payments, record'[f][q].hash
               PROVE  /\ record[f][q].hash
                      /\ record[f][q].state = "settled" => record'[f][q].state = "settled"
    OBVIOUS
  <2>1. Swept(record[f])[q] = record[f][q] \/ ~Swept(record[f])[q].hash
    BY <1>0, SweptEntry DEF Unclaimed
  <2> QED BY <1>0, <1>1, <2>1, ClaimEntries
<1>3. Delivering(r)' => record[Serves[r]][p].hash
  <2> SUFFICES ASSUME Delivering(r)' PROVE record[Serves[r]][p].hash
    OBVIOUS
  <2>1. Swept(record[Serves[r]])[p].state = "pending"
    BY <1>0, <1>1 DEF Delivering
  <2>2. Swept(record[Serves[r]])[p] = record[Serves[r]][p]
    BY <1>0, <2>1, SweptEntry DEF Unclaimed
  <2> QED BY <1>0, <2>1, <2>2 DEF GroundsInv, Grounded
<1>4. ASSUME NEW s \in Requests, Delivering(s)'
      PROVE  Knows(Serves[s], pay'[s])
  <2>1. CASE s = r
    BY <1>0, <1>1, <1>3, <1>4, <2>1 DEF Knows
  <2>2. CASE s # r
    BY <1>0, <1>1, <1>4, <2>2 DEF Knows, Delivering
  <2> QED BY <2>1, <2>2
<1>5. \A f \in Facilitators, q \in Payments : Knows(f, q)' => Knows(f, q)
  BY <1>2, <1>4 DEF Knows
<1>6. ASSUME NEW f \in Facilitators, NEW q \in Payments, Knows(f, q)',
             record[f][q].state = "settled"
      PROVE  record'[f][q].state = "settled"
  <2>1. CASE record'[f][q].hash
    BY <1>2, <1>6, <2>1
  <2>2. CASE ~record'[f][q].hash
    <3> PICK s \in Requests : Serves[s] = f /\ pay'[s] = q /\ Delivering(s)'
      BY <1>6, <2>2 DEF Knows
    <3>1. PromiseInv'
      BY PromiseInvNext
    <3>2. record'[f][q].state = "settling"
      BY <3>1 DEF PromiseInv, SettleInv, ClaimIsHeld, Holders
    <3>3. f = Serves[r] /\ q = p
      <4>1. Swept(record[f])[q].state # "settling"
        BY <1>0, <1>6, SweptEntry DEF Unclaimed
      <4> QED BY <1>0, <1>6, <3>2, <4>1, ClaimEntries
    <3>4. s = r
      BY <1>0, <1>1, <3>3, ClaimedByNoOther, <3>2
         DEF PromiseInv, SettleInv, Delivering, Idle
    <3>5. Swept(record[f])[q].state = "pending"
      BY <1>0, <1>1, <3>3, <3>4 DEF Delivering
    <3>6. Swept(record[f])[q] = record[f][q]
      BY <1>0, <3>5, SweptEntry DEF Unclaimed
    <3> QED BY <1>6, <3>5, <3>6
  <2> QED BY <2>1, <2>2
<1> QED BY <1>1, <1>5, <1>6, OnceKept

\* A settle that returns knows of no admission it did not know of.
LEMMA OnceEnds ==
  ASSUME PromiseInv, Moves, NEW n, OneNode(n), OnceInv(n), UNCHANGED everPaid,
         NEW r \in Requests, GivesUp(r) \/ NotDelivered(r)
  PROVE  OnceInv(n)'
<1>0. /\ TypeInv /\ Serves[r] \in Facilitators
      /\ record \in [Facilitators -> Records]
      /\ phase \in [Requests -> Phases] /\ pay \in [Requests -> Payments \cup {NoPayment}]
  BY FacilitatorAssumption DEF PromiseInv, SettleInv, TypeInv, TypeOK
<1>1. Ends(r)
  BY DEF Ends, GivesUp, NotDelivered, Delivering, Return, Idle
<1>2. pay[r] \in Payments /\ record[Serves[r]][pay[r]].state = "settling"
  <2>1. pay[r] \in Payments
    BY <1>0, <1>1 DEF Ends, TypeInv, RequestOK
  <2> QED BY <1>0, <2>1 DEF PromiseInv, SettleInv, ClaimIsHeld, Holders
<1>3. \A s \in Requests : Delivering(s)' => s # r /\ Delivering(s) /\ pay'[s] = pay[s]
  BY <1>0, <1>1 DEF Ends, Delivering, Idle
<1>4. ASSUME NEW f \in Facilitators, NEW p \in Payments
      PROVE  /\ record'[f][p].hash => Knows(f, p)
             /\ record[f][p].state = "settled" => record'[f][p] = record[f][p]
  <2>1. CASE f = Serves[r] /\ p = pay[r]
    <3>1. CASE GivesUp(r)
      <4>1. record'[f][p] = Unclaimed
        BY <1>0, <1>2, <2>1, <3>1, ReleasedEntries DEF GivesUp
      <4> QED BY <1>2, <2>1, <4>1 DEF Unclaimed
    <3>2. CASE NotDelivered(r)
      BY <1>2, <2>1, <3>2 DEF NotDelivered, Knows
    <3> QED BY <3>1, <3>2
  <2>2. CASE ~(f = Serves[r] /\ p = pay[r])
    <3>1. record'[f][p] = record[f][p]
      BY <1>0, <1>1, <2>2, EndsEntries
    <3> QED BY <3>1 DEF Knows
  <2> QED BY <2>1, <2>2
<1>5. \A f \in Facilitators, p \in Payments : Knows(f, p)' => Knows(f, p)
  BY <1>3, <1>4 DEF Knows
<1> QED BY <1>4, <1>5, OnceKept

\* A delivery is found by the one process that knows of the payment, and recorded.
LEMMA OnceDelivered ==
  ASSUME PromiseInv, Moves, NEW n, OneNode(n), OnceInv(n), NEW r \in Requests, Delivered(r)
  PROVE  OnceInv(n)'
<1> DEFINE f == Serves[r]
           p == pay[r]
<1>0. /\ record \in [Facilitators -> Records] /\ everPaid \subseteq Payments
      /\ phase \in [Requests -> Phases] /\ pay \in [Requests -> Payments \cup {NoPayment}]
  BY DEF PromiseInv, SettleInv, TypeInv, TypeOK
<1>1. /\ f \in Facilitators /\ p \in Payments /\ phase[r] # Idle
      /\ Knows(f, p) /\ record[f][p].state = "settling"
  BY WaitingNotPaid DEF Delivered
<1>2. /\ phase' = [phase EXCEPT ![r] = Idle] /\ pay' = [pay EXCEPT ![r] = NoPayment]
      /\ record' = [record EXCEPT ![f] = MarkedSettled(record[f], p)]
      /\ everPaid' \in {everPaid, everPaid \cup {p}}
  BY DEF Delivered, Return
<1>3. /\ record'[f][p].state = "settled"
      /\ \A g \in Facilitators, q \in Payments :
           ~(g = f /\ q = p) => record'[g][q] = record[g][q]
  BY <1>0, <1>1, <1>2, MarkedSettledEntries
<1>4. \A s \in Requests : Delivering(s)' => s # r /\ Delivering(s) /\ pay'[s] = pay[s]
  BY <1>0, <1>2 DEF Delivering, Idle
<1>5. \A g \in Facilitators, q \in Payments : Knows(g, q)' => Knows(g, q)
  BY <1>1, <1>3, <1>4 DEF Knows
<1>6. \A q \in Payments : ~Admits(n, q) => ~Admits(n, q)'
  BY RefusedForGood
<1>7. ~Admits(n, p)
  BY <1>1 DEF OnceInv
<1>8. ASSUME NEW q \in everPaid', NEW g \in Facilitators, Knows(g, q)'
      PROVE  record'[g][q].state = "settled"
  <2>1. CASE q = p
    <3>1. g = f
      BY <1>1, <1>5, <1>8, <2>1 DEF OnceInv
    <3> QED BY <1>3, <2>1, <3>1
  <2>2. CASE q # p
    <3>1. q \in everPaid /\ q \in Payments
      BY <1>0, <1>2, <2>2
    <3>2. record[g][q].state = "settled"
      BY <1>5, <1>8, <3>1 DEF OnceInv
    <3> QED BY <1>3, <2>2, <3>1, <3>2
  <2> QED BY <2>1, <2>2
<1>9. \A q \in everPaid' : ~Admits(n, q)'
  BY <1>0, <1>1, <1>2, <1>6, <1>7 DEF OnceInv
<1>10. \A g \in Facilitators, q \in Payments : Knows(g, q)' => ~Admits(n, q)'
  BY <1>5, <1>6 DEF OnceInv
<1>11. \A g, h \in Facilitators, q \in Payments : Knows(g, q)' /\ Knows(h, q)' => g = h
  BY <1>5 DEF OnceInv
<1> QED BY <1>8, <1>9, <1>10, <1>11 DEF OnceInv

\* A payment the node admits was known to no process, and paid to none.
LEMMA OnceAdmitted ==
  ASSUME PromiseInv, Moves, NEW n, OneNode(n), OnceInv(n),
         NEW r \in Requests, Admitted(r, n)
  PROVE  OnceInv(n)'
<1> DEFINE f == Serves[r]
<1>0. /\ f \in Facilitators /\ pay[r] \in Payments /\ everPaid \subseteq Payments
      /\ phase \in [Requests -> Phases]
      /\ ChainTypeOK /\ n \in Nodes
  BY FacilitatorAssumption
     DEF PromiseInv, SettleInv, TypeInv, TypeOK, RequestOK, Admitted, Idle, OneNode
<1>1. /\ phase' = [phase EXCEPT ![r] = "await"]
      /\ UNCHANGED <<record, pay, everPaid>>
  BY DEF Admitted, Proceed
<1> PICK p \in Payments : p = pay[r]
  BY <1>0
<1>2. p \notin everPaid /\ \A g \in Facilitators : ~Knows(g, p)
  BY <1>0 DEF Admitted, OnceInv
<1>3. p \in Rivals(p) /\ p \in mempool'[n]
  BY <1>0 DEF Rivals, Admitted, Admit, ChainTypeOK
<1>4. \A q \in Payments : ~Admits(n, q) => ~Admits(n, q)'
  BY RefusedForGood
<1>5. ~Admits(n, p)'
  BY <1>3 DEF Admits
<1>6. \A g \in Facilitators, q \in Payments : Knows(g, q)' => Knows(g, q) \/ (g = f /\ q = p)
  BY <1>0, <1>1 DEF Knows, Delivering
<1> QED BY <1>0, <1>1, <1>2, <1>4, <1>5, <1>6 DEF OnceInv

LEMMA OnceNext ==
  ASSUME NEW n, OneNode(n), PromiseInv, GroundsInv, OnceInv(n), Moves
  PROVE  OnceInv(n)'
<1>0. /\ record \in [Facilitators -> Records]
      /\ phase \in [Requests -> Phases] /\ pay \in [Requests -> Payments \cup {NoPayment}]
  BY DEF PromiseInv, SettleInv, TypeInv, TypeOK
<1>1. ASSUME NEW r \in Requests, NEW p \in Payments, Present(r, p) PROVE OnceInv(n)'
  <2>1. CASE Claim(r, p)
    BY <2>1, OnceClaim
  <2>2. CASE RefuseDuplicate(r, p)
    <3>1. record' = [record EXCEPT ![Serves[r]] = Swept(@)] /\ UNCHANGED <<phase, pay, everPaid>>
      BY <2>2 DEF RefuseDuplicate
    <3>2. \A f \in Facilitators, q \in Payments :
            record'[f][q] = record[f][q] \/ record'[f][q] = Unclaimed
      BY <1>0, <3>1, SweptEntry
    <3>3. \A s \in Requests : Delivering(s)' => Delivering(s)
      BY <3>1 DEF Delivering
    <3>4. \A f \in Facilitators, q \in Payments : Knows(f, q)' => Knows(f, q)
      BY <3>1, <3>2, <3>3 DEF Knows, Unclaimed
    <3>5. ASSUME NEW f \in Facilitators, NEW q \in Payments, Knows(f, q)',
                 record[f][q].state = "settled"
          PROVE  record'[f][q].state = "settled"
      <4>1. \A s \in Requests : Serves[s] = f /\ pay[s] = q => ~Delivering(s)
        BY <3>5, WaitingNotPaid
      <4>2. record'[f][q].hash
        BY <3>1, <3>3, <3>5, <4>1 DEF Knows
      <4> QED BY <3>2, <3>5, <4>2 DEF Unclaimed
    <3> QED BY <3>1, <3>4, <3>5, OnceKept
  <2> QED BY <1>1, <2>1, <2>2 DEF Present
<1>2. ASSUME NEW r \in Requests, Step(r) \/ Panic(r) PROVE OnceInv(n)'
  <2>1. CASE Delivered(r)
    BY <2>1, OnceDelivered
  <2>2. ASSUME NEW m \in Reach(r), Admitted(r, m) PROVE OnceInv(n)'
    <3>1. m = n
      BY FacilitatorAssumption DEF OneNode, Reach
    <3> QED BY <2>2, <3>1, OnceAdmitted
  <2>3. CASE ~Delivered(r) /\ ~ \E m \in Reach(r) : Admitted(r, m)
    <3>1. UNCHANGED everPaid
      BY <1>2, <2>3
         DEF Step, ReadAccount, Simulate, StartBroadcast, Broadcast, RefusedByNode,
             Unanswered, NotDelivered, Panic, Proceed, GiveBack
    <3>2. CASE GivesUp(r) \/ NotDelivered(r)
      BY <3>1, <3>2, OnceEnds
    <3>3. CASE Advances(r)
      <4>1. UNCHANGED <<record, pay>> /\ \A s \in Requests : Delivering(s)' => Delivering(s)
        BY <1>0, <3>3 DEF Advances, Delivering
      <4>2. \A f \in Facilitators, q \in Payments : Knows(f, q)' => Knows(f, q)
        BY <4>1 DEF Knows
      <4> QED BY <3>1, <4>1, <4>2, OnceKept
    <3>4. ~Admission(r)
      BY <1>0, <1>2, <2>3
         DEF Step, ReadAccount, Simulate, StartBroadcast, Broadcast, RefusedByNode,
             Unanswered, NotDelivered, Panic, Proceed, GiveBack, Return, Delivering, Admission,
             Idle
    <3> QED BY <1>2, <2>3, <3>2, <3>3, <3>4, StepCases
  <2> QED BY <2>1, <2>2, <2>3
<1>3. ASSUME UNCHANGED <<record, phase, pay, everPaid>> PROVE OnceInv(n)'
  <2>1. \A f \in Facilitators, p \in Payments : Knows(f, p)' => Knows(f, p)
    BY <1>3 DEF Knows, Delivering
  <2> QED BY <1>3, <2>1, OnceKept
<1>4. ASSUME NEW f \in Facilitators, RestartProcess(f) PROVE OnceInv(n)'
  <2>1. \A g \in Facilitators : record'[g] = IF g = f THEN NewRecord ELSE record[g]
    BY <1>0, <1>4 DEF RestartProcess
  <2>2. \A s \in Requests : Delivering(s)' => Serves[s] # f /\ Delivering(s) /\ pay'[s] = pay[s]
    BY <1>4 DEF RestartProcess, Delivering, Idle
  <2>3. ASSUME NEW g \in Facilitators, NEW p \in Payments, Knows(g, p)'
        PROVE  Knows(g, p) /\ record'[g][p] = record[g][p]
    <3>1. g # f
      BY <2>1, <2>2, <2>3 DEF Knows, NewRecord, Unclaimed
    <3> QED BY <2>1, <2>2, <2>3, <3>1 DEF Knows
  <2> QED BY <1>4, <2>3, OnceKept DEF RestartProcess
<1>5. CASE Tick
  <2>1. ASSUME NEW f \in Facilitators, NEW q \in Payments
        PROVE  /\ record'[f][q].state = record[f][q].state
               /\ record'[f][q].hash = record[f][q].hash
    BY <1>0, <1>5, AgedKeepsStates DEF Tick
  <2>2. \A f \in Facilitators, q \in Payments : Knows(f, q)' => Knows(f, q)
    BY <1>5, <2>1 DEF Tick, Knows, Delivering
  <2> QED BY <1>5, <2>1, <2>2, OnceKept DEF Tick
<1> QED BY <1>1, <1>2, <1>3, <1>4, <1>5 DEF Moves, End, ChainStep, Rests

LEMMA OnceInit == ASSUME Init, NEW n PROVE OnceInv(n)
<1>1. \A f \in Facilitators, p \in Payments : record[f][p] = Unclaimed
  BY DEF Init, NewRecord
<1>2. \A r \in Requests : ~Delivering(r)
  BY DEF Init, Delivering, Idle
<1> QED BY <1>1, <1>2 DEF Init, OnceInv, Knows, Unclaimed

\* A step that returns success does so for a payment no process returned it for.
LEMMA PaidAnew ==
  ASSUME PromiseInv, NEW n, OnceInv(n), Moves, Answering, answer'.kind = "settled"
  PROVE  answer'.pay \notin everPaid
<1>1. ASSUME NEW r \in Requests, NEW p \in Payments, Present(r, p) PROVE FALSE
  BY <1>1 DEF Present, Claim, RefuseDuplicate, NoAnswer, Answering
<1>2. ASSUME NEW r \in Requests, Step(r) PROVE Delivered(r)
  BY <1>2 DEF Step, ReadAccount, Simulate, StartBroadcast, Broadcast, Admitted, RefusedByNode,
              Unanswered, NotDelivered, Proceed, GiveBack, Return, NoAnswer, Answering
<1> PICK r \in Requests : Delivered(r)
  BY <1>1, <1>2
     DEF Moves, Panic, End, RestartProcess, ChainStep, Tick, Rests, Answering
<1>3. answer'.pay = pay[r]
  BY DEF Delivered, Return
<1> QED BY <1>3, WaitingNotPaid DEF Delivered

(***************************************************************************)
(* Processes behind one node that executes every block at once and keeps    *)
(* its mempool report a payment settled once, ever, though they share no    *)
(* record, restart, panic and forget: once one of them knows of an          *)
(* admission the node refuses every copy, so no other comes to know of one.  *)
(***************************************************************************)
THEOREM SettledOnceBehindOneNode ==
  ASSUME NEW n, OneNode(n) PROVE Spec => SettledOnceEver
<1>1. OnceInv(n) /\ PromiseInv /\ GroundsInv /\ [Next]_vars => OnceInv(n)'
  BY NextMoves, OnceNext
<1>2. ASSUME OnceInv(n), PromiseInv, [Next]_vars
      PROVE  [Answering /\ answer'.kind = "settled" => answer'.pay \notin everPaid]_vars
  BY <1>2, NextMoves, PaidAnew
<1>3. Init => OnceInv(n)
  BY OnceInit
<1> QED BY <1>1, <1>2, <1>3, GroundsInvariant, PTL DEF Spec, SettledOnceEver

=============================================================================
