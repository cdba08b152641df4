-------------------------- MODULE SellerRateProofs --------------------------
(***************************************************************************)
(* Theorems about SellerRate: the backstop is a token bucket, and what it    *)
(* admits stays within the limit of a facilitator that is Generous, however   *)
(* late its requests settle and however often.                               *)
(***************************************************************************)
EXTENDS SellerRate, TLAPS

\* What the requests of the last ticks may yet settle, and what the seller's tokens
\* would add to it, were granted in those ticks or are left of a burst.
RateInv ==
  /\ tokens \in 0 .. Burst
  /\ credit \in 0 .. FacilitatorBurst
  /\ throttled \in BOOLEAN
  /\ owed \in [0 .. Delay -> Nat]
  /\ \A a, b \in 0 .. Delay : a <= b => owed[a] <= owed[b]
  /\ \A a \in 0 .. Delay : owed[a] + Settles * tokens <= Settles * (Burst + a)

LEMMA Parameters ==
  ASSUME RateAssumption
  PROVE  /\ Burst \in Nat /\ 0 < Burst /\ Delay \in Nat /\ Settles \in {1, 2}
         /\ FacilitatorRate \in Nat /\ FacilitatorBurst \in Nat
         /\ 0 \in 0 .. Delay /\ Delay \in 0 .. Delay
BY DEF RateAssumption

\* A settle made or dropped is one less of each tick the request falls in.
LEMMA OwedAfter ==
  ASSUME RateAssumption, RateInv, NEW a \in 0 .. Delay, Owes(a), owed' = OneLess(a)
  PROVE  /\ owed' \in [0 .. Delay -> Nat]
         /\ \A b, c \in 0 .. Delay : b <= c => owed'[b] <= owed'[c]
         /\ \A b \in 0 .. Delay : owed'[b] <= owed[b]
         /\ owed'[Delay] = owed[Delay] - 1
<1>0. \A b \in 0 .. Delay : owed[b] \in Nat
  BY DEF RateInv
<1>1. \A b \in 0 .. Delay : owed'[b] = IF b < a THEN owed[b] ELSE owed[b] - 1
  BY DEF OneLess
<1>2. \A b, c \in 0 .. Delay : b <= c => owed[b] <= owed[c]
  BY DEF RateInv
<1>3. \A b \in 0 .. Delay : b < a => owed[b] < owed[a]
  <2> SUFFICES ASSUME NEW b \in 0 .. Delay, b < a PROVE owed[b] < owed[a]
    OBVIOUS
  <2>1. a - 1 \in 0 .. Delay /\ b <= a - 1
    BY Parameters
  <2>2. owed[a] > owed[a - 1]
    BY Parameters, <2>1 DEF Owes
  <2> QED BY <1>0, <1>2, <2>1, <2>2
<1>4. owed[a] > 0
  <2>1. CASE a = 0
    BY <2>1 DEF Owes
  <2>2. CASE a # 0
    BY <1>0, <1>3, <2>2, Parameters
  <2> QED BY <2>1, <2>2
<1>5. \A b \in 0 .. Delay : ~(b < a) => owed[b] - 1 \in Nat
  BY <1>0, <1>2, <1>4, Parameters
<1>6. owed' \in [0 .. Delay -> Nat]
  BY <1>0, <1>5 DEF OneLess
<1>7. ASSUME NEW b \in 0 .. Delay, NEW c \in 0 .. Delay, b <= c PROVE owed'[b] <= owed'[c]
  <2>1. CASE b < a /\ ~(c < a)
    <3>1. owed[b] < owed[a] /\ owed[a] <= owed[c]
      BY <1>2, <1>3, <2>1, Parameters
    <3> QED BY <1>0, <1>1, <2>1, <3>1
  <2>2. CASE ~(b < a /\ ~(c < a))
    BY <1>0, <1>1, <1>2, <1>7, <2>2, Parameters
  <2> QED BY <2>1, <2>2
<1>8. owed'[Delay] = owed[Delay] - 1
  BY <1>1, Parameters
<1> QED BY <1>0, <1>1, <1>6, <1>7, <1>8

LEMMA CallKeepsTypes ==
  ASSUME RateAssumption, RateInv, Call
  PROVE  credit' \in 0 .. FacilitatorBurst /\ throttled' \in BOOLEAN
<1>1. (credit' = credit - 1 /\ credit > 0) \/ credit' = credit
  BY DEF Call
<1>2. credit' \in 0 .. FacilitatorBurst
  BY <1>1, Parameters DEF RateInv
<1>3. throttled' = throttled \/ throttled' = TRUE
  BY Zenon DEF Call
<1>4. throttled' \in BOOLEAN
  BY <1>3, Zenon DEF RateInv
<1> QED BY <1>2, <1>4

LEMMA RateInvKept == ASSUME RateAssumption PROVE RateInv /\ [Next]_vars => RateInv'
<1> SUFFICES ASSUME RateInv, [Next]_vars PROVE RateInv'
  OBVIOUS
<1>0. tokens \in 0 .. Burst /\ \A a \in 0 .. Delay : owed[a] \in Nat
  BY DEF RateInv
<1>1. \A a \in 0 .. Delay : owed[a] + Settles * tokens <= Settles * (Burst + a)
  BY DEF RateInv
<1>2. CASE Allow
  <2>1. tokens' = tokens - 1 /\ tokens' \in 0 .. Burst
    BY <1>0, <1>2, Parameters DEF Allow, Allows
  <2>2. owed' \in [0 .. Delay -> Nat] /\ \A a \in 0 .. Delay : owed'[a] = owed[a] + Settles
    BY <1>0, <1>2, Parameters DEF Allow
  <2>3. \A a, b \in 0 .. Delay : a <= b => owed'[a] <= owed'[b]
    BY <1>0, <2>2, Parameters DEF RateInv
  <2>4. Settles * tokens' = Settles * tokens - Settles
    BY <1>0, <2>1, Parameters
  <2>5. Settles * tokens \in Nat /\ \A a \in 0 .. Delay : Settles * (Burst + a) \in Nat
    BY <1>0, Parameters
  <2>6. ASSUME NEW a \in 0 .. Delay PROVE owed'[a] + Settles * tokens' <= Settles * (Burst + a)
    <3>1. owed'[a] = owed[a] + Settles /\ owed[a] \in Nat /\ Settles \in Nat
      BY <1>0, <2>2, Parameters
    <3>2. owed'[a] + Settles * tokens' = owed[a] + Settles * tokens
      BY <2>4, <2>5, <3>1
    <3> QED BY <1>1, <3>2
  <2>7. credit' \in 0 .. FacilitatorBurst /\ throttled' \in BOOLEAN
    BY <1>2, CallKeepsTypes DEF Allow
  <2> QED BY <2>1, <2>2, <2>3, <2>6, <2>7 DEF RateInv
<1>3. CASE Refuse \/ UNCHANGED vars
  BY <1>3 DEF Refuse, vars, RateInv
<1>4. CASE Tick
  <2>1. /\ tokens' \in 0 .. Burst /\ tokens' <= tokens + 1
        /\ credit' \in 0 .. FacilitatorBurst
        /\ throttled' = throttled
    BY <1>0, <1>4, Parameters DEF Tick, Refilled, Capped, RateInv
  <2>2. owed' = [a \in 0 .. Delay |-> IF a = 0 THEN 0 ELSE owed[a - 1]]
    BY <1>4 DEF Tick
  <2>3. \A a \in 0 .. Delay : /\ a = 0 => owed'[a] = 0
                              /\ a # 0 => a - 1 \in 0 .. Delay /\ owed'[a] = owed[a - 1]
    BY <2>2, Parameters
  <2>4. owed' \in [0 .. Delay -> Nat]
    BY <1>0, <2>2, <2>3
  <2>5. ASSUME NEW a \in 0 .. Delay, NEW b \in 0 .. Delay, a <= b PROVE owed'[a] <= owed'[b]
    <3>1. CASE a = 0
      BY <2>3, <2>4, <3>1
    <3>2. CASE a # 0
      <4>1. b # 0 /\ a - 1 <= b - 1
        BY <2>5, <3>2
      <4> QED BY <2>3, <3>2, <4>1 DEF RateInv
    <3> QED BY <3>1, <3>2
  <2>6. ASSUME NEW a \in 0 .. Delay PROVE owed'[a] + Settles * tokens' <= Settles * (Burst + a)
    <3>1. CASE a = 0
      <4>1. Settles * tokens' <= Settles * Burst
        BY <2>1, Parameters
      <4> QED BY <2>1, <2>3, <3>1, <4>1, Parameters
    <3>2. CASE a # 0
      <4>1. owed[a - 1] + Settles * tokens <= Settles * (Burst + (a - 1))
        BY <1>1, <2>3, <3>2
      <4>2. Settles * tokens' <= Settles * tokens + Settles
        BY <1>0, <2>1, Parameters
      <4>3. Settles * (Burst + (a - 1)) + Settles = Settles * (Burst + a)
        BY Parameters
      <4>4. /\ owed[a - 1] \in Nat /\ Settles * tokens \in Nat /\ Settles * tokens' \in Nat
            /\ Settles * (Burst + (a - 1)) \in Nat
        BY <1>0, <2>1, <2>3, <3>2, Parameters
      <4> QED BY <2>3, <3>2, <4>1, <4>2, <4>3, <4>4, Parameters
    <3> QED BY <3>1, <3>2
  <2> QED BY <2>1, <2>4, <2>5, <2>6 DEF RateInv
<1>5. ASSUME NEW a \in 0 .. Delay, Settle(a) \/ Drop(a) PROVE RateInv'
  <2>1. Owes(a) /\ owed' = OneLess(a) /\ tokens' = tokens
    BY <1>5 DEF Settle, Drop
  <2>2. credit' \in 0 .. FacilitatorBurst /\ throttled' \in BOOLEAN
    BY <1>5, CallKeepsTypes DEF Settle, Drop, RateInv
  <2>3. /\ owed' \in [0 .. Delay -> Nat]
        /\ \A b, c \in 0 .. Delay : b <= c => owed'[b] <= owed'[c]
        /\ \A b \in 0 .. Delay : owed'[b] <= owed[b]
    BY <2>1, OwedAfter
  <2>4. Settles * tokens \in Nat /\ \A b \in 0 .. Delay : Settles * (Burst + b) \in Nat
    BY <1>0, Parameters
  <2>5. \A b \in 0 .. Delay : owed'[b] + Settles * tokens' <= Settles * (Burst + b)
    BY <1>0, <1>1, <2>1, <2>3, <2>4
  <2> QED BY <1>0, <2>1, <2>2, <2>3, <2>5 DEF RateInv
<1> QED BY <1>2, <1>3, <1>4, <1>5 DEF Next

LEMMA RateInvariant == ASSUME RateAssumption PROVE Spec => []RateInv
<1>1. Init => RateInv
  <2> SUFFICES ASSUME Init PROVE RateInv
    OBVIOUS
  <2>1. tokens = Burst /\ credit = FacilitatorBurst /\ owed = [a \in 0 .. Delay |-> 0]
    BY DEF Init
  <2>2. \A a \in 0 .. Delay : Settles * Burst <= Settles * (Burst + a)
    BY Parameters
  <2>3. Settles * Burst \in Nat
    BY Parameters
  <2>4. throttled \in BOOLEAN
    BY Zenon DEF Init
  <2> QED BY <2>1, <2>2, <2>3, <2>4, Parameters DEF RateInv
<1> QED BY <1>1, RateInvKept, PTL DEF Spec

\* Every reachable state is well typed: the settles that may yet be made are those of
\* a burst and of what Delay ticks refill, at most.
THEOREM TypeCorrect == ASSUME RateAssumption PROVE Spec => []TypeOK
<1>1. RateInv => TypeOK
  <2> SUFFICES ASSUME RateInv PROVE TypeOK
    OBVIOUS
  <2>1. tokens \in Nat /\ \A a \in 0 .. Delay : owed[a] \in Nat
    BY Parameters DEF RateInv
  <2>2. ASSUME NEW a \in 0 .. Delay PROVE owed[a] \in 0 .. Settles * (Burst + Delay)
    <3>1. owed[a] + Settles * tokens <= Settles * (Burst + a)
      BY DEF RateInv
    <3>2. Settles * (Burst + a) <= Settles * (Burst + Delay)
      BY Parameters
    <3>3. Settles * tokens \in Nat /\ Settles * (Burst + a) \in Nat /\ Settles * (Burst + Delay) \in Nat
      BY <2>1, Parameters
    <3> QED BY <2>1, <3>1, <3>2, <3>3
  <2> QED BY <2>2 DEF RateInv, TypeOK
<1> QED BY <1>1, RateInvariant, PTL

\* The backstop (ratelimit.go) is one token bucket: nothing it does for the requests
\* it let through, however they end, changes what it grants.
THEOREM BackstopKeepsPromise == ASSUME RateAssumption PROVE Spec => KeepsRatePromise
<1>1. Init => Promise!PromiseInit
  BY DEF Init, Promise!PromiseInit, Promise!NoAnswer
<1>2. RateInv /\ [Next]_vars => [Promise!PromiseNext]_(Promise!promiseVars)
  <2> SUFFICES ASSUME RateInv, [Next]_vars
               PROVE  [Promise!PromiseNext]_(Promise!promiseVars)
    OBVIOUS
  <2> DEFINE bucket == [k \in Everyone |-> tokens]
  <2>0. "everyone" \in Everyone /\ tokens \in Int /\ Burst \in Nat
    BY DEF RateAssumption, Everyone, RateInv
  <2>1. CASE Allow
    <3>1. bucket["everyone"] >= 1
      BY <2>0, <2>1 DEF Allow, Allows
    <3>2. bucket' = [bucket EXCEPT !["everyone"] = @ - 1]
      BY <2>1 DEF Allow, Everyone
    <3>3. Promise!Grant("everyone")
      BY <2>1, <3>1, <3>2 DEF Allow, Promise!Grant, Promise!Answer
    <3> QED BY <2>0, <3>3 DEF Promise!PromiseNext
  <2>2. CASE Refuse
    <3>1. bucket["everyone"] < 1 /\ bucket' = bucket
      BY <2>0, <2>2 DEF Refuse, Allows
    <3>2. Promise!Refuse("everyone")
      BY <2>2, <3>1 DEF Refuse, Promise!Refuse, Promise!Answer
    <3> QED BY <2>0, <3>2 DEF Promise!PromiseNext
  <2>3. CASE Tick
    <3>1. bucket' = [k \in Everyone |-> IF k \in {} THEN bucket[k] ELSE Promise!Capped(bucket[k] + 1)]
      BY <2>3 DEF Tick, Refilled, Capped, Promise!Capped
    <3>2. answer' = Promise!NoAnswer
      BY <2>3 DEF Tick
    <3>3. \E waiting \in SUBSET Everyone :
            /\ TRUE => waiting = {}
            /\ bucket' = [k \in Everyone |->
                 IF k \in waiting THEN bucket[k] ELSE Promise!Capped(bucket[k] + 1)]
      <4> HIDE DEF bucket
      <4> WITNESS {} \in SUBSET Everyone
      <4> QED BY <3>1
    <3>4. Promise!Refill
      BY <3>2, <3>3 DEF Promise!Refill
    <3> QED BY <3>4 DEF Promise!PromiseNext
  <2>4. ASSUME NEW a \in 0 .. Delay, Settle(a) \/ Drop(a)
        PROVE  UNCHANGED Promise!promiseVars
    BY <2>4 DEF Settle, Drop, Promise!promiseVars
  <2>5. CASE UNCHANGED vars
    BY <2>5 DEF vars, Promise!promiseVars
  <2> QED BY <2>1, <2>2, <2>3, <2>4, <2>5 DEF Next
<1> QED BY <1>1, <1>2, RateInvariant, PTL DEF Spec, KeepsRatePromise, Promise!PromiseSpec

-----------------------------------------------------------------------------

\* The facilitator's bucket has what the seller's may still spend there: a verify and
\* the settles of each token, and the settles that may yet be made.
CoveredInv ==
  /\ credit >= (1 + Settles) * tokens + owed[Delay]
  /\ ~throttled

\* Where examples/weather/ratelimit.go:10-13 is right, whatever the delays and though
\* a payment left pending is settled again: no call of a request the backstop let
\* through is throttled by a facilitator that is Generous.
THEOREM GenerousAdmitsTheSeller ==
  ASSUME RateAssumption, Generous
  PROVE  Spec => []WithinTheFacilitatorsRate
<1>0. /\ FacilitatorRate >= 1 + Settles
      /\ FacilitatorBurst >= (1 + Settles) * Burst + Settles * Delay
  BY DEF Generous
<1>1. Init => CoveredInv
  <2> SUFFICES ASSUME Init PROVE CoveredInv
    OBVIOUS
  <2>1. tokens = Burst /\ credit = FacilitatorBurst /\ owed[Delay] = 0 /\ ~throttled
    BY Parameters DEF Init
  <2>2. Settles * Delay \in Nat /\ (1 + Settles) * Burst \in Nat
    BY Parameters
  <2> QED BY <1>0, <2>1, <2>2, Parameters DEF CoveredInv
<1>2. RateInv /\ CoveredInv /\ [Next]_vars => CoveredInv'
  <2> SUFFICES ASSUME RateInv, CoveredInv, [Next]_vars PROVE CoveredInv'
    OBVIOUS
  <2>0. /\ tokens \in 0 .. Burst /\ credit \in 0 .. FacilitatorBurst
        /\ \A a \in 0 .. Delay : owed[a] \in Nat
        /\ owed[Delay] \in Nat
    BY Parameters DEF RateInv
  <2>1. CASE Allow
    <3>1. tokens >= 1 /\ tokens' = tokens - 1 /\ Call
      BY <2>1 DEF Allow, Allows
    <3>2. owed'[Delay] = owed[Delay] + Settles
      BY <2>1, Parameters DEF Allow
    <3>3. (1 + Settles) * tokens' = (1 + Settles) * tokens - (1 + Settles)
      BY <2>0, <3>1, Parameters
    <3>4. (1 + Settles) * tokens \in Nat /\ (1 + Settles) * tokens >= 1
      BY <2>0, <3>1, Parameters
    <3>5. credit > 0
      BY <2>0, <3>4 DEF CoveredInv
    <3>6. credit' = credit - 1 /\ throttled' = throttled
      BY <3>1, <3>5 DEF Call
    <3> QED BY <2>0, <3>2, <3>3, <3>4, <3>6, Parameters DEF CoveredInv
  <2>2. CASE Refuse \/ UNCHANGED vars
    BY <2>2 DEF Refuse, vars, CoveredInv
  <2>3. CASE Tick
    <3>1. /\ tokens' = IF tokens + 1 > Burst THEN Burst ELSE tokens + 1
          /\ credit' = IF credit + FacilitatorRate > FacilitatorBurst THEN FacilitatorBurst
                       ELSE credit + FacilitatorRate
          /\ throttled' = throttled
      BY <2>3 DEF Tick, Refilled, Capped
    <3>2. tokens' \in 0 .. Burst /\ tokens' <= tokens + 1
      BY <2>0, <3>1, Parameters
    <3>3. owed'[Delay] \in Nat /\ owed'[Delay] <= owed[Delay]
      <4>1. owed'[Delay] = IF Delay = 0 THEN 0 ELSE owed[Delay - 1]
        BY <2>3, Parameters DEF Tick
      <4>2. CASE Delay = 0
        BY <2>0, <4>1, <4>2
      <4>3. CASE Delay # 0
        <5>1. Delay - 1 \in 0 .. Delay /\ Delay - 1 <= Delay
          BY <4>3, Parameters
        <5> QED BY <2>0, <4>1, <4>3, <5>1, Parameters DEF RateInv
      <4> QED BY <4>2, <4>3
    <3>4. owed'[Delay] + Settles * tokens' <= Settles * (Burst + Delay)
      BY RateInvKept, Parameters DEF RateInv
    <3>5. credit' >= (1 + Settles) * tokens' + owed'[Delay]
      <4>1. CASE credit + FacilitatorRate > FacilitatorBurst
        <5>1. (1 + Settles) * tokens' = tokens' + Settles * tokens'
          BY <3>2, Parameters
        <5>2. (1 + Settles) * Burst + Settles * Delay = Burst + Settles * (Burst + Delay)
          BY Parameters
        <5>3. /\ Settles * tokens' \in Nat /\ Settles * (Burst + Delay) \in Nat
              /\ tokens' \in Nat /\ tokens' <= Burst
          BY <3>2, Parameters
        <5> QED BY <1>0, <3>1, <3>3, <3>4, <4>1, <5>1, <5>2, <5>3, Parameters
      <4>2. CASE ~(credit + FacilitatorRate > FacilitatorBurst)
        <5>1. (1 + Settles) * tokens' <= (1 + Settles) * tokens + (1 + Settles)
          BY <2>0, <3>2, Parameters
        <5>2. (1 + Settles) * tokens' \in Nat /\ (1 + Settles) * tokens \in Nat
          BY <2>0, <3>2, Parameters
        <5> QED BY <1>0, <2>0, <3>1, <3>3, <4>2, <5>1, <5>2, Parameters DEF CoveredInv
      <4> QED BY <4>1, <4>2
    <3> QED BY <3>1, <3>5 DEF CoveredInv
  <2>4. ASSUME NEW a \in 0 .. Delay, Settle(a) \/ Drop(a) PROVE CoveredInv'
    <3>1. Owes(a) /\ owed' = OneLess(a) /\ tokens' = tokens
      BY <2>4 DEF Settle, Drop
    <3>2. owed'[Delay] = owed[Delay] - 1 /\ owed'[Delay] \in Nat
      BY <3>1, OwedAfter, Parameters
    <3>3. (1 + Settles) * tokens \in Nat
      BY <2>0, Parameters
    <3>4. credit > 0
      BY <2>0, <3>2, <3>3 DEF CoveredInv
    <3>5. credit' >= credit - 1 /\ throttled' = throttled
      BY <2>0, <2>4, <3>4 DEF Settle, Drop, Call
    <3>6. credit' \in Int
      BY <2>0, <2>4, <3>4 DEF Settle, Drop, Call
    <3> QED BY <2>0, <3>1, <3>2, <3>3, <3>5, <3>6 DEF CoveredInv
  <2> QED BY <2>1, <2>2, <2>3, <2>4 DEF Next
<1>3. CoveredInv => WithinTheFacilitatorsRate
  BY DEF CoveredInv, WithinTheFacilitatorsRate
<1> QED BY <1>1, <1>2, <1>3, RateInvariant, PTL DEF Spec

=============================================================================
