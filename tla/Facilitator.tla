---------------------------- MODULE Facilitator ----------------------------
(***************************************************************************)
(* Settling gno "exact" payments (facilitator/exact/facilitator.go): any    *)
(* number of concurrent /settle requests over one or more facilitator       *)
(* processes, each with its own settlement record, through nodes that may    *)
(* lag, restart, refuse, or leave a call unanswered.                        *)
(*                                                                          *)
(* A request stands for one run of Facilitator.Settle on a payment the      *)
(* offline rules accept.  Each call to the node is a step of its own, so    *)
(* blocks, other requests, the clock and the answer timeout come between    *)
(* them; the deferred record or release goes with the step that decides it. *)
(* A request that has returned can run again: it is a handler's goroutine.  *)
(***************************************************************************)
EXTENDS Chain, Settlements

CONSTANTS
  Facilitators,  \* facilitator processes
  Endpoint,      \* Endpoint[f]: the nodes f's RPC endpoint may send a call to
  Requests,
  Serves,        \* Serves[r]: the process that runs request r
  Presented,     \* payments presented to the facilitators
  NoPayment,     \* what an idle request settles
  MayPanic       \* whether a settle may panic, as a node adapter's bug would make it

ASSUME FacilitatorAssumption ==
  /\ Endpoint \in [Facilitators -> SUBSET Nodes]
  /\ Serves \in [Requests -> Facilitators]
  /\ Presented \subseteq Payments
  /\ NoPayment \notin Payments
  /\ MayPanic \in BOOLEAN

VARIABLES
  record,  \* record[f]: the settlements of process f
  phase,   \* phase[r]: what request r is about to do
  pay,     \* pay[r]: the payment r settles
  ended,   \* ended[r]: r's context is done; its caller has a 503 or is gone
  answer,  \* what Settle returned in the last step, if the step ended a settle
  paid,    \* paid[f][p]: the time f last returned success for p
  sent,    \* sent[f][p]: the time a node last told f it admitted p
  everPaid \* payments any process ever returned success for

facVars == <<record, phase, pay, ended, answer, paid, sent, everPaid>>
vars == <<chainVars, facVars>>

Idle == "idle"
Phases == {Idle, "account", "simulate", "checked", "sending", "await", "reconcile"}

AnswerKinds == {"settled", "aborted", "pending", "duplicate", "refused", "noverdict"}

\* hash says whether the answer carries a transaction hash.
Answers == [by : Facilitators, pay : Payments, kind : AnswerKinds, hash : BOOLEAN]
NoAnswer == [kind |-> "none"]

TypeOK ==
  /\ ChainTypeOK
  /\ record \in [Facilitators -> Records]
  /\ phase \in [Requests -> Phases]
  /\ pay \in [Requests -> Payments \cup {NoPayment}]
  /\ ended \in [Requests -> BOOLEAN]
  /\ answer \in Answers \cup {NoAnswer}
  /\ paid \in [Facilitators -> [Payments -> Times]]
  /\ sent \in [Facilitators -> [Payments -> Times]]
  /\ everPaid \subseteq Payments

Never == [f \in Facilitators |-> [p \in Payments |-> NoTime]]

Init ==
  /\ ChainInit
  /\ record = [f \in Facilitators |-> NewRecord]
  /\ phase = [r \in Requests |-> Idle]
  /\ pay = [r \in Requests |-> NoPayment]
  /\ ended = [r \in Requests |-> FALSE]
  /\ answer = NoAnswer
  /\ paid = Never
  /\ sent = Never
  /\ everPaid = {}

-----------------------------------------------------------------------------

\* The nodes a call of request r may reach.
Reach(r) == Endpoint[Serves[r]]

\* The settle r runs returns, leaving `kept` as its process's record.
Return(r, kind, hash, kept) ==
  /\ answer' = [by |-> Serves[r], pay |-> pay[r], kind |-> kind, hash |-> hash]
  /\ record' = [record EXCEPT ![Serves[r]] = kept]
  /\ phase' = [phase EXCEPT ![r] = Idle]
  /\ pay' = [pay EXCEPT ![r] = NoPayment]
  /\ ended' = [ended EXCEPT ![r] = FALSE]

\* It returns with no hash: the claim is released.
GiveBack(r, kind) ==
  /\ Return(r, kind, FALSE, Released(record[Serves[r]], pay[r]))
  /\ UNCHANGED <<paid, sent, everPaid>>

\* It carries on with its next call.
Proceed(r, next) ==
  /\ phase' = [phase EXCEPT ![r] = next]
  /\ answer' = NoAnswer
  /\ UNCHANGED <<record, pay, ended, paid, everPaid>>

-----------------------------------------------------------------------------

\* Variant: a settle of a pending payment checks and broadcasts it again.
ClaimToSettle(r, p) ==
  /\ phase[r] = Idle
  /\ Claimable(record[Serves[r]], p)
  /\ record' = [record EXCEPT ![Serves[r]] = Claimed(@, p)]
  /\ phase' = [phase EXCEPT ![r] = "account"]
  /\ pay' = [pay EXCEPT ![r] = p]
  /\ answer' = NoAnswer
  /\ UNCHANGED <<chainVars, ended, paid, sent, everPaid>>

\* Settle begins: the payment is claimed, to be settled or, if it is pending, to
\* be reconciled under the hash it was admitted under.
Claim(r, p) ==
  LET f == Serves[r] IN
  /\ phase[r] = Idle
  /\ Claimable(record[f], p)
  /\ record' = [record EXCEPT ![f] = Claimed(@, p)]
  /\ phase' = [phase EXCEPT ![r] =
       IF Swept(record[f])[p].state = "pending" THEN "reconcile" ELSE "account"]
  /\ pay' = [pay EXCEPT ![r] = p]
  /\ answer' = NoAnswer
  /\ UNCHANGED <<chainVars, ended, paid, sent, everPaid>>

\* A copy of a payment that is claimed or settled. Its refused claim has swept the
\* record, and carries the hash the record holds.
RefuseDuplicate(r, p) ==
  LET f == Serves[r] IN
  /\ phase[r] = Idle
  /\ ~Claimable(record[f], p)
  /\ record' = [record EXCEPT ![f] = Swept(@)]
  /\ answer' = [by |-> f, pay |-> p, kind |-> "duplicate", hash |-> record[f][p].hash]
  /\ UNCHANGED <<chainVars, phase, pay, ended, paid, sent, everPaid>>

\* The signer's account is read, and the signature verified against it: fresh,
\* or made over a sequence the account has spent. A read that fails is no verdict.
ReadAccount(r) ==
  /\ phase[r] = "account"
  /\ \/ /\ \E n \in Reach(r) : Fresh(n, pay[r])
        /\ Proceed(r, "simulate")
        /\ UNCHANGED sent
     \/ /\ \E n \in Reach(r) : ~Fresh(n, pay[r])
        /\ GiveBack(r, "refused")
     \/ GiveBack(r, "noverdict")
  /\ UNCHANGED chainVars

\* The transaction is simulated, and the request's context looked at: a request
\* that ended while the node was read broadcasts nothing. A simulation refuses a
\* payment for reasons of the payer's own, such as its balance.
Simulate(r) ==
  /\ phase[r] = "simulate"
  /\ \/ /\ ~ended[r]
        /\ Proceed(r, "checked")
        /\ UNCHANGED sent
     \/ GiveBack(r, "refused")
     \/ GiveBack(r, "noverdict")
  /\ UNCHANGED chainVars

\* The broadcast call starts.
StartBroadcast(r) ==
  /\ phase[r] = "checked"
  /\ Proceed(r, "sending")
  /\ UNCHANGED <<chainVars, sent>>

\* Node n admits the payment and its answer is heard.
Admitted(r, n) ==
  /\ phase[r] = "sending"
  /\ Admits(n, pay[r])
  /\ Admit(n, pay[r])
  /\ Proceed(r, "await")
  /\ sent' = [sent EXCEPT ![Serves[r]][pay[r]] = 0]
  /\ UNCHANGED <<outcome, view>>

\* Node n's CheckTx refuses the payment, and says why: its sequence is spent there or,
\* by what n holds, about to be, or the payer cannot afford it or the fee is too low.
RefusedByNode(r, n) ==
  /\ phase[r] = "sending"
  /\ pay[r] \notin mempool[n]
  /\ GiveBack(r, "refused")
  /\ UNCHANGED chainVars

\* Variant: a broadcast with no verdict is waited on as if the node had admitted it.
UnansweredAwaited(r, n) ==
  /\ phase[r] = "sending"
  /\ \/ UNCHANGED mempool
     \/ Admits(n, pay[r]) /\ Admit(n, pay[r])
  /\ Proceed(r, "await")
  /\ UNCHANGED <<outcome, view, sent>>

\* No verdict comes back from node n: it holds a copy already and says so with an
\* error that is no abci.Error, or the call failed on the way there or on the way
\* back. A call that arrives later is a Hear of the chain.
Unanswered(r, n) ==
  /\ phase[r] = "sending"
  /\ \/ UNCHANGED mempool
     \/ Admits(n, pay[r]) /\ Admit(n, pay[r])
  /\ GiveBack(r, "noverdict")
  /\ UNCHANGED <<outcome, view>>

Broadcast(r) ==
  \E n \in Reach(r) : Admitted(r, n) \/ RefusedByNode(r, n) \/ Unanswered(r, n)

Delivering(r) == phase[r] \in {"await", "reconcile"}

\* The lookup finds a block that executed the payment.
Delivered(r) ==
  LET f == Serves[r]
      p == pay[r]
  IN
  /\ Delivering(r)
  /\ \E n \in Reach(r) : p \in view[n]
  /\ Return(r, IF outcome[p] = "ok" THEN "settled" ELSE "aborted", TRUE,
            MarkedSettled(record[f], p))
  /\ IF outcome[p] = "ok"
       THEN /\ paid' = [paid EXCEPT ![f][p] = 0]
            /\ everPaid' = everPaid \cup {p}
       ELSE UNCHANGED <<paid, everPaid>>
  /\ UNCHANGED <<chainVars, sent>>

\* Variant: an undelivered payment is recorded settled, since it has a hash.
NotDeliveredSettled(r) ==
  /\ Delivering(r)
  /\ Return(r, "pending", TRUE, MarkedSettled(record[Serves[r]], pay[r]))
  /\ UNCHANGED <<chainVars, paid, sent, everPaid>>

\* Variant: the wait has no deadline of its own and ends only with the request.
NotDeliveredUntilEnd(r) ==
  /\ Delivering(r)
  /\ ended[r]
  /\ Return(r, "pending", TRUE, MarkedPending(record[Serves[r]], pay[r]))
  /\ UNCHANGED <<chainVars, paid, sent, everPaid>>

\* No lookup found it by the delivery deadline, or the context ended first.
NotDelivered(r) ==
  /\ Delivering(r)
  /\ Return(r, "pending", TRUE, MarkedPending(record[Serves[r]], pay[r]))
  /\ UNCHANGED <<chainVars, paid, sent, everPaid>>

\* Variant: no deferred release.
PanicKeepingClaim(r) ==
  /\ MayPanic
  /\ phase[r] # Idle
  /\ phase' = [phase EXCEPT ![r] = Idle]
  /\ pay' = [pay EXCEPT ![r] = NoPayment]
  /\ ended' = [ended EXCEPT ![r] = FALSE]
  /\ answer' = NoAnswer
  /\ UNCHANGED <<chainVars, record, paid, sent, everPaid>>

\* The settle panics; net/http recovers it, and the deferred release runs.
Panic(r) ==
  /\ MayPanic
  /\ phase[r] # Idle
  /\ record' = [record EXCEPT ![Serves[r]] = Released(@, pay[r])]
  /\ phase' = [phase EXCEPT ![r] = Idle]
  /\ pay' = [pay EXCEPT ![r] = NoPayment]
  /\ ended' = [ended EXCEPT ![r] = FALSE]
  /\ answer' = NoAnswer
  /\ UNCHANGED <<chainVars, paid, sent, everPaid>>

\* The answer timeout answers r's caller 503, or the caller goes away. The handler
\* keeps running behind it.
End(r) ==
  /\ phase[r] # Idle
  /\ ~ended[r]
  /\ ended' = [ended EXCEPT ![r] = TRUE]
  /\ answer' = NoAnswer
  /\ UNCHANGED <<chainVars, record, phase, pay, paid, sent, everPaid>>

-----------------------------------------------------------------------------

\* The process stops with its settles unanswered, and starts with an empty record.
RestartProcess(f) ==
  /\ record' = [record EXCEPT ![f] = NewRecord]
  /\ phase' = [r \in Requests |-> IF Serves[r] = f THEN Idle ELSE phase[r]]
  /\ pay' = [r \in Requests |-> IF Serves[r] = f THEN NoPayment ELSE pay[r]]
  /\ ended' = [r \in Requests |-> Serves[r] # f /\ ended[r]]
  /\ answer' = NoAnswer
  /\ paid' = [paid EXCEPT ![f] = Never[f]]
  /\ sent' = [sent EXCEPT ![f] = Never[f]]
  /\ UNCHANGED <<chainVars, everPaid>>

OlderAll(times) ==
  [f \in Facilitators |-> [p \in Payments |-> Older(times[f][p])]]

Tick ==
  /\ record' = [f \in Facilitators |-> Aged(record[f])]
  /\ paid' = OlderAll(paid)
  /\ sent' = OlderAll(sent)
  /\ answer' = NoAnswer
  /\ UNCHANGED <<chainVars, phase, pay, ended, everPaid>>

\* The chain moves without the facilitators.
ChainStep ==
  /\ ChainNext
  /\ answer' = NoAnswer
  /\ UNCHANGED <<record, phase, pay, ended, paid, sent, everPaid>>

Present(r, p) == Claim(r, p) \/ RefuseDuplicate(r, p)

\* A step of the settle r runs.
Step(r) ==
  \/ ReadAccount(r) \/ Simulate(r) \/ StartBroadcast(r) \/ Broadcast(r)
  \/ Delivered(r) \/ NotDelivered(r)

Next ==
  \/ \E r \in Requests : (\E p \in Presented : Present(r, p)) \/ Step(r) \/ Panic(r) \/ End(r)
  \/ \E f \in Facilitators : RestartProcess(f)
  \/ ChainStep
  \/ Tick

Spec == Init /\ [][Next]_vars

\* Every node call returns or times out in tm2's client, the wait for a delivery
\* has a deadline, and the clock runs.
Fairness ==
  /\ \A r \in Requests : WF_vars(Step(r))
  /\ WF_vars(Tick)

\* And each payment of Presented keeps being presented.
FairSpec ==
  /\ Spec
  /\ Fairness
  /\ \A p \in Presented : WF_vars(\E r \in Requests : Present(r, p))

-----------------------------------------------------------------------------

\* The settles of p under way in process f.
Holders(f, p) == {r \in Requests : Serves[r] = f /\ pay[r] = p}

(***************************************************************************)
(* A payment is claimed in a process's record exactly while one settle of   *)
(* it is under way there: no two settles of a payment ever run together,    *)
(* and no claim outlives its settle, whichever way that ends, which would   *)
(* refuse the payment as a duplicate until the process restarts.            *)
(***************************************************************************)
ClaimIsHeld ==
  \A f \in Facilitators, p \in Payments :
    /\ record[f][p].state = "settling" <=> Holders(f, p) # {}
    /\ \A r, s \in Holders(f, p) : r = s

(***************************************************************************)
(* What the record keeps, it has grounds for: a payment recorded settled    *)
(* was executed by a block, one recorded with a hash or left pending was    *)
(* admitted by a node that told this process so, and a settle that          *)
(* broadcast nothing leaves nothing behind.                                 *)
(***************************************************************************)
RecordHasGrounds ==
  \A f \in Facilitators, p \in Payments :
    LET e == record[f][p] IN
    /\ e.state = "settled" => p \in Executed
    /\ e.state \in {"settled", "pending"} => e.hash
    /\ e.hash => sent[f][p] # NoTime

(***************************************************************************)
(* While a process remembers that a node admitted a payment, it is neither  *)
(* checking that payment against the chain nor broadcasting it: a settle    *)
(* within TTL of the admission reconciles it or is refused, so one whose    *)
(* payment landed is never told its sequence is spent.                      *)
(***************************************************************************)
NotBroadcastAgain ==
  \A r \in Requests :
    phase[r] \in {"account", "simulate", "checked", "sending"} =>
      ~Recent(sent[Serves[r]][pay[r]])

\* The step taken ends a settle, or refuses one.
Answering == answer' # answer /\ answer' # NoAnswer

(***************************************************************************)
(* A process returns success for a payment only if it has not done so       *)
(* within TTL: the copy a lagging node would admit, and answer with the     *)
(* original's delivery, is refused while the record covers it.              *)
(***************************************************************************)
SettledOnce ==
  [][Answering /\ answer'.kind = "settled"
       => ~Recent(paid[answer'.by][answer'.pay])]_vars

(***************************************************************************)
(* Where every process calls one node, which executes every block at once   *)
(* and keeps its mempool, no payment is ever reported settled twice, by any  *)
(* process, however often processes restart and records expire: the node    *)
(* refuses copies.                                                          *)
(***************************************************************************)
SettledOnceEver ==
  [][Answering /\ answer'.kind = "settled" => answer'.pay \notin everPaid]_vars

(***************************************************************************)
(* The processes keep SettlementPromise: what a process reports of a        *)
(* payment is what the chain executed, and a settled payment is reported    *)
(* once within TTL. Reported payments are those whose success is recent.    *)
(***************************************************************************)
Promise == INSTANCE SettlementPromise WITH
  delivery <- outcome,
  reported <- [f \in Facilitators |-> {p \in Payments : Recent(paid[f][p])}],
  told <- IF answer.kind \in {"settled", "aborted"}
            THEN [by |-> answer.by, pay |-> answer.pay, kind |-> answer.kind]
            ELSE [kind |-> "none"]

KeepsPromise == Promise!PromiseSpec

(***************************************************************************)
(* A copy refused with no hash is one of a payment whose first settle is    *)
(* still under way: once a settle has answered a payment with its hash, a   *)
(* retry that loses the race to a reconcile still gets the hash.            *)
(***************************************************************************)
HashlessDuplicateMeansFirstSettle ==
  [][Answering /\ answer'.kind = "duplicate" /\ ~answer'.hash
       => \E r \in Holders(answer'.by, answer'.pay) : phase[r] # "reconcile"]_vars

(***************************************************************************)
(* What the documentation says of the same answer: a copy is refused with   *)
(* the transaction hash once a node admitted the payment. The claim's entry *)
(* learns the hash only when the settle returns.                            *)
(***************************************************************************)
DuplicateCarriesHash ==
  [][Answering /\ answer'.kind = "duplicate" /\ ~answer'.hash
       => \A r \in Holders(answer'.by, answer'.pay) : ~Delivering(r)]_vars

(***************************************************************************)
(* Every claim is given up: no call leaves a payment claimed for good.      *)
(***************************************************************************)
ClaimsEnd ==
  \A f \in Facilitators, p \in Payments :
    record[f][p].state = "settling" ~> record[f][p].state # "settling"

(***************************************************************************)
(* A payment that left every mempool does not stay pending for as long as   *)
(* it keeps being presented: its record settles or lapses, so that it is    *)
(* checked and broadcast again.                                             *)
(***************************************************************************)
PendingEnds ==
  \A f \in Facilitators, p \in Presented :
    []<>(record[f][p].state = "settled" \/ ~record[f][p].hash)

=============================================================================
