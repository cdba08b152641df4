------------------------------ MODULE Purchase ------------------------------
(***************************************************************************)
(* A payer's client, and the facilitator that checks what it signed. The      *)
(* client reads the offer's terms, then the chain one call after another,     *)
(* looks whether its caller still waits, and has its signer sign. The         *)
(* payment then reaches Verification. The account it was signed over moves    *)
(* all the while: a client keeps nothing between payments, so the payer's     *)
(* other payments are among what moves it.                                    *)
(***************************************************************************)
EXTENDS Verification

CONSTANTS
  Asked,      \* the offers a client is asked to pay
  Caps,       \* per-payment caps of spend controls
  NoCap,      \* no cap
  GasPrices,  \* what nodes report: an amount of a coin per gas, which may be no price
  GasWanted,  \* the gas a payment reserves
  MaxGasFee   \* the most a payment offers, and what it offers a chain with no price

gasPriceMargin == 2

ASSUME ClientAssumption ==
  /\ Asked \subseteq Offers
  /\ NoCap \notin Nat /\ Caps \subseteq Nat \cup {NoCap}
  /\ GasPrices \subseteq [amount : Int, gas : Int, native : BOOLEAN]
  /\ GasWanted \in Nat /\ MaxGasFee \in Nat

VARIABLES
  client,  \* how far the client is, what it pays and with which key, what it read
  gone     \* whether its caller has given up

vars == <<sequence, check, client, gone>>

NotAsked == [phase |-> "not asked"]

GivenUp == [phase |-> "given up"]

NoPrice == [amount |-> 0, gas |-> 0, native |-> TRUE]

Init ==
  /\ VerificationInit
  /\ client = NotAsked
  /\ gone = FALSE

-----------------------------------------------------------------------------
(* The fee *)

Unpriced(price) == price.gas = 0 \/ price.amount = 0

\* Variant: the fee is rounded down.
RoundedDown(n, d) == n \div d

RoundedUp(n, d) == (n + d - 1) \div d

\* gasFee: the margin's worth of the price for the gas reserved.
GasFee(price) ==
  IF Unpriced(price) THEN MaxGasFee
  ELSE RoundedUp(GasWanted * gasPriceMargin * price.amount, price.gas)

\* The prices a payment can offer a fee at: none, or one in the coin fees are paid in
\* that is not above the most a payment offers.
Affordable(price) ==
  \/ Unpriced(price)
  \/ /\ price.gas > 0 /\ price.amount > 0 /\ price.native
     /\ GasFee(price) <= MaxGasFee

-----------------------------------------------------------------------------
(* Preparing a payment *)

WithinCap(o, cap) == cap = NoCap \/ Price(o)[1].amount <= cap

\* The account a payment is signed for: the key's own, or the session key holds
\* under a master. A key whose own account is a session's has none to pay from.
SignsFor(key, master) ==
  IF master # NoAddress /\ AddressOf[key] \in Sessions
    THEN SigningAccount(master, AddressOf[key])
  ELSE IF master = NoAddress /\ AddressOf[key] \in Masters THEN AddressOf[key]
  ELSE NoAddress

Step(next) ==
  /\ client' = next
  /\ UNCHANGED <<sequence, check, gone>>

GiveUp == Step(GivenUp)

\* Prepare begins: the terms and the cap, before the chain is read. The node the
\* client is configured with serves the chain node.
Ask(o, cap, key, master, node) ==
  /\ client = NotAsked
  /\ IF Signable(o) /\ WithinCap(o, cap)
       THEN Step([phase |-> "chain", offer |-> o, cap |-> cap, key |-> key,
                  master |-> master, node |-> node, price |-> NoPrice,
                  sequence |-> NoAccount, abandoned |-> FALSE])
       ELSE GiveUp

\* A read of the chain failed, in any of the three.
ReadFails == client.phase \in {"chain", "gas price", "account"} /\ GiveUp

\* Variant: the chain the node serves is not compared with the offer's.
ServesSome(c) == c.node \in Chains

ServesTheOffers(c) == c.node = c.offer.network

ReadChainID ==
  /\ client.phase = "chain"
  /\ IF ServesTheOffers(client) THEN Step([client EXCEPT !.phase = "gas price"]) ELSE GiveUp

ReadGasPrice ==
  /\ client.phase = "gas price"
  /\ \E price \in GasPrices :
       IF Affordable(price)
         THEN Step([client EXCEPT !.phase = "account", !.price = price])
         ELSE GiveUp

\* What the client's node may answer for account a. Of another chain than the
\* facilitator's nothing is known here.
NodeAnswers(c, a) ==
  IF c.node = Chain THEN Answers(a)
  ELSE IF a = NoAddress THEN {NoAccount} ELSE NoAccount .. MaxSequence

ReadAccount ==
  /\ client.phase = "account"
  /\ \E seq \in NodeAnswers(client, SignsFor(client.key, client.master)) :
       IF seq = NoAccount THEN GiveUp
       ELSE Step([client EXCEPT !.phase = "prepared", !.sequence = seq, !.abandoned = gone])

\* The transaction Payload makes of the payment and the signature of its key.
Tx(c) == [
  shape    |-> "payment",
  from     |-> IF c.master = NoAddress THEN AddressOf[c.key] ELSE c.master,
  to       |-> Decoded[c.offer.payTo],
  coins    |-> Price(c.offer),
  memo     |-> Bound(c.offer),
  session  |-> IF c.master = NoAddress THEN NoAddress ELSE AddressOf[c.key],
  key      |-> c.key,
  signer   |-> c.key,
  chain    |-> c.offer.network,
  sequence |-> c.sequence]

-----------------------------------------------------------------------------
(* Signing it *)

\* Variant: whether the caller has gone is not looked at.
NotLooked == TRUE

CallerWaits == ~gone

\* The look at the context, after which nothing looks again.
Look ==
  /\ client.phase = "prepared"
  /\ IF CallerWaits THEN Step([client EXCEPT !.phase = "signing"]) ELSE GiveUp

\* The signer refuses, or what it signed is not this payment and Payload refuses it.
SignatureFails == client.phase = "signing" /\ GiveUp

Sign ==
  /\ client.phase = "signing"
  /\ Step([client EXCEPT !.phase = "signed"])

\* The caller gives up, at any moment.
Leave ==
  /\ ~gone
  /\ gone' = TRUE
  /\ UNCHANGED <<sequence, check, client>>

Payer ==
  \/ \E o \in Asked, cap \in Caps, key \in Keys, master \in Masters \cup {NoAddress}, node \in Chains :
       Ask(o, cap, key, master, node)
  \/ ReadFails \/ ReadChainID \/ ReadGasPrice \/ ReadAccount
  \/ Look \/ SignatureFails \/ Sign
  \/ Leave

\* The payment is presented for the offer its client accepted.
Pay ==
  /\ client.phase = "signed"
  /\ CheckOffline([accepted |-> client.offer, tx |-> Tx(client)], client.offer)

Next ==
  \/ Payer
  \/ /\ Pay \/ CheckOnChain \/ ChainMoves
     /\ UNCHANGED <<client, gone>>

Spec == Init /\ [][Next]_vars

-----------------------------------------------------------------------------
(* Properties *)

Clients == [
  phase     : {"chain", "gas price", "account", "prepared", "signing", "signed"},
  offer     : Asked,
  cap       : Caps,
  key       : Keys,
  master    : Masters \cup {NoAddress},
  node      : Chains,
  price     : GasPrices \cup {NoPrice},
  sequence  : NoAccount .. MaxSequence,
  abandoned : BOOLEAN]

\* The types of the client's progress, besides those of the check.
TypeOK ==
  /\ CheckTypeOK
  /\ client \in {NotAsked, GivenUp} \cup Clients
  /\ gone \in BOOLEAN

Signed == client.phase = "signed"

\* What is signed pays the amount the offer writes, of the asset it writes, within the
\* cap: no part of the asset is read into the amount (client/exact/scheme.go:81-85).
PaysWhatWasShown ==
  Signed =>
    /\ client.offer.asset \in Denominations
    /\ Tx(client).coins =
         <<[denom |-> client.offer.asset, amount |-> Value[client.offer.amount]]>>
    /\ client.cap # NoCap => Value[client.offer.amount] <= client.cap

\* The fee is within the ceiling, and still covers the chain's price after a block
\* that raises it (client/exact/scheme.go:54-60).
FeeCoversTheNextBlock ==
  Signed =>
    /\ GasFee(client.price) <= MaxGasFee
    /\ ~Unpriced(client.price) =>
         GasWanted * (client.price.amount + 1) <= GasFee(client.price) * client.price.gas

\* A payment given up while the chain was read is not signed
\* (client/exact/scheme.go:209-211).
AbandonedNotSigned == Signed => ~client.abandoned

\* A payment that names the facilitator's chain is signed over a sequence that its
\* account has had there, whichever chain its node serves
\* (client/exact/scheme.go:462-466).
SignedOverItsChain ==
  Signed /\ Tx(client).chain = Chain =>
    LET a == SigningAccount(Tx(client).from, Tx(client).session)
    IN a # NoAddress /\ Tx(client).sequence <= sequence[a]

\* What a client signs under an offer for the facilitator's chain meets every rule
\* the facilitator has for it, and the reason of a refusal tells what became of it:
\* its sequence was the last one spent, or the node that answered had not reached it
\* or was more than one past it (client/exact/scheme.go:333-335 and :386-389, verify.go:35-38).
OwnPaymentIsUnderstood ==
  Refused /\ check.offer.network = Chain =>
    LET signed == check.payload.tx.sequence IN
    CASE check.reason = "transaction_simulation_failed" -> TRUE
      [] check.reason = "sequence_mismatch" -> check.read = signed + 1
      [] check.reason = "signature_invalid" -> check.read < signed \/ check.read > signed + 1
      [] OTHER -> FALSE

=============================================================================
