----------------------------- MODULE SellerRate -----------------------------
(***************************************************************************)
(* The weather seller's backstop (examples/weather/ratelimit.go): one token  *)
(* bucket in front of its priced route, and what the requests it lets through *)
(* cost the facilitator, which throttles the seller's one address.           *)
(*                                                                          *)
(* A tick is what refills one token of the seller's.  Go reads the monotonic *)
(* clock here: time does not step back.                                      *)
(***************************************************************************)
EXTENDS FiniteSets, Integers

CONSTANTS
  Burst,             \* the seller's burst, in tokens
  FacilitatorRate,   \* the calls the facilitator admits in a tick: 2 by default
  FacilitatorBurst,  \* and at once: twice Burst by default
  Delay,             \* the ticks that may pass before a request has made its last call
  Settles            \* the settles a request may take: 2, if one may be left pending

\* What the theorems about the backstop assume of its parameters.
RateAssumption ==
  /\ Burst \in Nat \ {0}
  /\ FacilitatorRate \in Nat /\ FacilitatorBurst \in Nat
  /\ Delay \in Nat
  /\ Settles \in {1, 2}

VARIABLES
  tokens,   \* the seller's bucket
  credit,   \* the facilitator's bucket for the seller
  owed,     \* owed[a]: the settles that those let through up to a ticks ago may yet make
  answer,   \* what the last request at the backstop was answered
  throttled \* whether a call of a request let through was answered 429

vars == <<tokens, credit, owed, answer, throttled>>

\* RatePromise with one peer, which every caller is.
Everyone == {"everyone"}

Promise == INSTANCE RatePromise WITH
  Peers <- Everyone, Cost <- 1, credit <- [k \in Everyone |-> tokens], steady <- TRUE

Capped(units, burst) == IF units > burst THEN burst ELSE units

TypeOK ==
  /\ tokens \in 0 .. Burst
  /\ credit \in 0 .. FacilitatorBurst
  /\ owed \in [0 .. Delay -> 0 .. Settles * (Burst + Delay)]
  /\ throttled \in BOOLEAN

Init ==
  /\ tokens = Burst
  /\ credit = FacilitatorBurst
  /\ owed = [a \in 0 .. Delay |-> 0]
  /\ answer = Promise!NoAnswer
  /\ throttled = FALSE

\* A call to the facilitator, which spends the seller's credit there.
Call ==
  IF credit > 0 THEN credit' = credit - 1 /\ UNCHANGED throttled
                ELSE throttled' = TRUE /\ UNCHANGED credit

Allows == tokens >= 1

\* A request is let through, and verified; it settles then, at most Settles times.
Allow ==
  /\ Allows
  /\ tokens' = tokens - 1
  /\ answer' = Promise!Answer("everyone", "granted")
  /\ Call
  /\ owed' = [a \in 0 .. Delay |-> owed[a] + Settles]

Refuse ==
  /\ ~Allows
  /\ answer' = Promise!Answer("everyone", "refused")
  /\ UNCHANGED <<tokens, credit, owed, throttled>>

\* A request let through a ticks ago has a settle to make.
Owes(a) == owed[a] > IF a = 0 THEN 0 ELSE owed[a - 1]

OneLess(a) == [b \in 0 .. Delay |-> IF b < a THEN owed[b] ELSE owed[b] - 1]

Settle(a) ==
  /\ Owes(a)
  /\ Call
  /\ owed' = OneLess(a)
  /\ UNCHANGED <<tokens, answer>>

\* It will not be made: verify refused the payment, an earlier settle of it ended the
\* request, or its time is up.
Drop(a) ==
  /\ Owes(a)
  /\ owed' = OneLess(a)
  /\ UNCHANGED <<tokens, credit, answer, throttled>>

Refilled == Capped(tokens + 1, Burst)

\* A request has made its calls before Delay ticks have passed.
Tick ==
  /\ ~Owes(Delay)
  /\ owed' = [a \in 0 .. Delay |-> IF a = 0 THEN 0 ELSE owed[a - 1]]
  /\ tokens' = Refilled
  /\ credit' = Capped(credit + FacilitatorRate, FacilitatorBurst)
  /\ answer' = Promise!NoAnswer
  /\ UNCHANGED throttled

Next ==
  \/ Allow \/ Refuse \/ Tick
  \/ \E a \in 0 .. Delay : Settle(a) \/ Drop(a)

Spec == Init /\ [][Next]_vars

-----------------------------------------------------------------------------

(***************************************************************************)
(* The backstop is a token bucket that every caller shares: it grants no     *)
(* more than a burst and what time refills, and refuses nobody while a whole *)
(* token is left.                                                            *)
(***************************************************************************)
KeepsRatePromise == Promise!PromiseSpec

\* The facilitator's rate covers a verify and the settles of each of the seller's
\* tokens, and its burst those of a burst, with the settles that Delay more ticks may
\* leave to be made. The default one is so of requests that settle once, before the
\* next tick: it admits two calls for each token, and for each of a burst.
Generous ==
  /\ FacilitatorRate >= 1 + Settles
  /\ FacilitatorBurst >= (1 + Settles) * Burst + Settles * Delay

(***************************************************************************)
(* What examples/weather/ratelimit.go:10-13 says of its rate: a paid request *)
(* costs the facilitator a verify and a settle, so the requests let through   *)
(* spend no more there than the facilitator admits.  It holds of a facilitator *)
(* that is Generous.                                                         *)
(***************************************************************************)
WithinTheFacilitatorsRate == ~throttled

=============================================================================
