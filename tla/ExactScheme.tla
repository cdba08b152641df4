----------------------------- MODULE ExactScheme -----------------------------
(***************************************************************************)
(* The rules of gno's "exact" mechanism that need no chain, as each of its   *)
(* three roles states them: what a seller lists, what a payer signs, what a  *)
(* facilitator accepts. An offer is a requirements object, a transaction a   *)
(* decoded std.Tx.                                                           *)
(*                                                                          *)
(* An amount and an asset are concatenated before the chain's coin parse     *)
(* reads them, so the parse is a function of the pair: "250000" and "0ugnot" *)
(* make 2500000ugnot. The parse itself is a constant.                        *)
(***************************************************************************)
EXTENDS Integers, Sequences

CONSTANTS
  Chains,         \* the chains a network of an offer can name
  Assets,         \* the strings offers give for an asset
  Amounts,        \* and for an amount
  Denominations,  \* the assets that are denominations
  Value,          \* Value[n]: the number an amount written as positiveAmount asks is
  ParsedCoins,    \* ParsedCoins[n, d]: the coins the string n followed by d names
  Payees,         \* addresses in canonical form
  OddPayees,      \* what else offers give for payTo, such as an address in upper case
  NoPayee,        \* no address, or the zero one
  Decoded,        \* Decoded[p]: the address a payTo decodes to
  Memos           \* memo texts within MaxMemoBytes, "" apart

Coins == [denom : Denominations, amount : Nat]

\* A plain amount and a denomination make one coin of them, or none the chain holds.
\* A parse that fails is no coin.
ASSUME OffersAssumption ==
  /\ Denominations \subseteq Assets
  /\ Memos \cap ({"", "unset"} \cup {"not a string", "over the cap"}) = {}
  /\ NoPayee \notin Payees \cup OddPayees /\ Payees \cap OddPayees = {}
  /\ Decoded \in [Payees \cup OddPayees -> Payees \cup {NoPayee}]
  /\ \A p \in Payees : Decoded[p] = p
  /\ DOMAIN Value \subseteq Amounts
  /\ \A n \in DOMAIN Value : Value[n] \in Nat /\ Value[n] > 0
  /\ ParsedCoins \in [Amounts \X Assets -> Seq(Coins)]
  /\ \A n \in DOMAIN Value, d \in Denominations :
       ParsedCoins[n, d] \in {<<>>, <<[denom |-> d, amount |-> Value[n]]>>}

\* A key extra does not hold; for the method and the flow, one set to null too.
Unset == "unset"

\* What extra.memo may hold besides a text within the cap.
BadMemos == {"not a string", "over the cap"}

Offers == [
  scheme  : {"exact", "other scheme"},
  network : Chains \cup {"no gno chain"},
  asset   : Assets,
  amount  : Amounts,
  payTo   : Payees \cup OddPayees,
  memo    : {Unset, ""} \cup Memos \cup BadMemos,
  terms   : {Unset, "bank-send and authorization", "other terms"}]

UnsupportedTerms(o) == o.terms = "other terms"

\* The text the offer binds a transaction's memo to; "" binds nothing.
Bound(o) == IF o.memo = Unset THEN "" ELSE o.memo

Price(o) == ParsedCoins[o.amount, o.asset]

-----------------------------------------------------------------------------
(* The seller *)

\* Variant: a price need only parse.
CheckParses(o) == Len(Price(o)) >= 1

CheckPayable(o) == Len(Price(o)) = 1 /\ Price(o)[1].amount > 0

CheckMemo(o) == o.memo \notin BadMemos

\* What a seller's scheme lets its middleware publish: ParsePrice, then
\* EnhancePaymentRequirements, under the flow PaymentFlows declares.
Listed(o) ==
  /\ o.scheme = "exact"
  /\ CheckPayable(o)
  /\ CheckMemo(o)
  /\ ~UnsupportedTerms(o)

-----------------------------------------------------------------------------
(* The payer *)

\* Variant: what the price says is left to the coin parse.
UncheckedPrice(o) == Len(Price(o)) = 1

\* The price is a plain amount of a denomination, and one coin.
PlainPrice(o) ==
  /\ o.asset \in Denominations
  /\ o.amount \in DOMAIN Value
  /\ Len(Price(o)) = 1

\* Variant: any string an address decodes from will do.
NamesPayeeSomehow(o) == Decoded[o.payTo] # NoPayee

NamesPayee(o) == Decoded[o.payTo] = o.payTo

\* readTerms: the offers a client signs a payment for.
Signable(o) ==
  /\ o.network \in Chains
  /\ o.scheme = "exact"
  /\ PlainPrice(o)
  /\ NamesPayee(o)
  /\ ~UnsupportedTerms(o)
  /\ o.memo \notin BadMemos

-----------------------------------------------------------------------------
(* The facilitator *)

\* Variant: the coins of the price are not counted.
AmountMatchesUncounted(o, tx) == tx.coins = Price(o)

AmountMatches(o, tx) == Len(Price(o)) = 1 /\ tx.coins = Price(o)

MemoMatches(o, tx) == Bound(o) = "" \/ tx.memo = Bound(o)

\* verifyStatic, in the order of its rules: why tx is refused for o, or "".
StaticReason(o, tx) ==
  CASE tx.shape = "malformed"        -> "transaction_could_not_be_decoded"
    [] tx.shape = "other signatures" -> "signature_count"
    [] tx.shape = "other messages"   -> "unexpected_message"
    [] OTHER ->
       IF tx.to # o.payTo THEN "recipient_mismatch"
       ELSE IF ~AmountMatches(o, tx) THEN "amount_mismatch"
       ELSE IF o.memo \in BadMemos THEN "invalid_payment_requirements"
       ELSE IF ~MemoMatches(o, tx) THEN "memo_mismatch"
       ELSE ""

\* acceptsSameOffer: all that identifies an offer, and nothing of its extra.
AcceptsSameOffer(accepted, required) ==
  \A field \in {"scheme", "network", "payTo", "amount", "asset"} :
    accepted[field] = required[field]

\* checkOffline, at the facilitator of chain.
OfflineReason(chain, payload, o) ==
  IF o.network # chain THEN "invalid_network"
  ELSE IF UnsupportedTerms(o) THEN "invalid_payment_requirements"
  ELSE IF ~AcceptsSameOffer(payload.accepted, o) \/ UnsupportedTerms(payload.accepted)
    THEN "invalid_payload"
  ELSE IF o.memo \in BadMemos THEN "invalid_payment_requirements"
  ELSE StaticReason(o, payload.tx)

=============================================================================
