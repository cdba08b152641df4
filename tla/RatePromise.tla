----------------------------- MODULE RatePromise -----------------------------
(***************************************************************************)
(* What throttling promises, with no table, sweep or clock: every peer has   *)
(* its own credit, which time refills to Burst and each request granted      *)
(* spends. A request a peer has no credit for is refused; one it has credit  *)
(* for is granted, except that a peer at full credit may be turned away.     *)
(***************************************************************************)
EXTENDS Integers

CONSTANTS
  Peers,  \* what requests are throttled by: the addresses peerAddress narrows to
  Burst,  \* the most credit a peer holds, in units: one refills in one tick
  Cost    \* the units a request spends

VARIABLES
  credit,  \* credit[k]: the units peer k may spend
  answer,  \* what the last step answered, if it answered a request
  steady   \* whether the clock has only gone forwards

promiseVars == <<credit, answer, steady>>

NoAnswer == [kind |-> "none"]

Answer(k, kind) == [peer |-> k, kind |-> kind]

Capped(units) == IF units > Burst THEN Burst ELSE units

PromiseInit ==
  /\ credit = [k \in Peers |-> Burst]
  /\ answer = NoAnswer
  /\ steady = TRUE

\* A tick refills a unit. Under a clock that has stepped back some may wait for it
\* to catch up.
Refill ==
  /\ \E waiting \in SUBSET Peers :
       /\ steady => waiting = {}
       /\ credit' = [k \in Peers |->
            IF k \in waiting THEN credit[k] ELSE Capped(credit[k] + 1)]
  /\ answer' = NoAnswer
  /\ UNCHANGED steady

\* The clock steps back: what had refilled and was not asked for may be lost.
Lose ==
  /\ credit' \in [Peers -> 0..Burst]
  /\ \A k \in Peers : credit'[k] <= credit[k]
  /\ answer' = NoAnswer
  /\ steady' = FALSE

Grant(k) ==
  /\ credit[k] >= Cost
  /\ credit' = [credit EXCEPT ![k] = @ - Cost]
  /\ answer' = Answer(k, "granted")
  /\ UNCHANGED steady

Refuse(k) ==
  /\ credit[k] < Cost
  /\ answer' = Answer(k, "refused")
  /\ UNCHANGED <<credit, steady>>

TurnAway(k) ==
  /\ credit[k] = Burst
  /\ answer' = Answer(k, "turned_away")
  /\ UNCHANGED <<credit, steady>>

PromiseNext ==
  \/ Refill \/ Lose
  \/ \E k \in Peers : Grant(k) \/ Refuse(k) \/ TurnAway(k)

PromiseSpec == PromiseInit /\ [][PromiseNext]_promiseVars

=============================================================================
