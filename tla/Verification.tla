---------------------------- MODULE Verification ----------------------------
(***************************************************************************)
(* The facilitator's check of a payment, which /verify and /settle share:    *)
(* the offline rules, a read of the account the signature is verified        *)
(* against, and a simulation. Each call to the node is a step, and the        *)
(* accounts move between them; a node may answer for an earlier block.        *)
(***************************************************************************)
EXTENDS ExactScheme

CONSTANTS
  Chain,        \* the chain the facilitator serves
  Keys,         \* signing keys
  NoKey,        \* no key
  Masters,      \* the payers' own accounts
  Sessions,     \* session accounts
  NoAddress,    \* the zero address
  AddressOf,    \* AddressOf[k]: the address key k derives
  MasterOf,     \* MasterOf[s]: the account session s is registered under
  Presented,    \* what is presented: payloads of whatever client, each with an offer
  MaxSequence   \* a bound: the transactions an account executes

Accounts == Masters \cup Sessions

\* A std.Tx: key is the key its signature names, and signer the one that made it,
\* over a sign doc of chain and sequence.
Transactions == [
  shape    : {"payment", "malformed", "other signatures", "other messages"},
  from     : Masters,
  to       : Payees,
  coins    : Seq(Coins),
  memo     : {""} \cup Memos,
  session  : Sessions \cup {NoAddress},
  key      : Keys \cup {NoKey},
  signer   : Keys,
  chain    : Chains,
  sequence : Nat]

\* A payload: a transaction, and the offer its payer says it accepted.
Payloads == [accepted : Offers, tx : Transactions]

ASSUME AccountsAssumption ==
  /\ Chain \in Chains
  /\ NoKey \notin Keys
  /\ Masters \cap Sessions = {} /\ NoAddress \notin Accounts
  /\ AddressOf \in [Keys -> Accounts]
  /\ \A a \in Accounts : \E k \in Keys : AddressOf[k] = a
  /\ \A k1, k2 \in Keys : AddressOf[k1] = AddressOf[k2] => k1 = k2
  /\ MasterOf \in [Sessions -> Masters]
  /\ Presented \subseteq [payload : Payloads, offer : Offers]
  /\ MaxSequence \in Nat

VARIABLES
  sequence,  \* sequence[a]: the sequence of account a on the chain, or NoAccount
  check      \* the check under way: of what, how far, and what it concluded

NoAccount == -1

NoCheck == [phase |-> "none"]

VerificationInit ==
  /\ sequence = [a \in Accounts |-> NoAccount]
  /\ check = NoCheck

-----------------------------------------------------------------------------
(* The chain, as far as a check observes it *)

OwnerOf(a) == CHOOSE k \in Keys : AddressOf[k] = a

\* The key account a stores. An account of its own stores one once it has signed; a
\* session stores the key it was created with.
StoredKey(a, seq) == IF seq = 0 /\ a \in Masters THEN NoKey ELSE OwnerOf(a)

\* An account is funded, or a session is registered by its master's transaction.
Open(a) ==
  /\ sequence[a] = NoAccount
  /\ a \in Sessions => sequence[MasterOf[a]] > 0
  /\ sequence' = [sequence EXCEPT ![a] = 0]
  /\ UNCHANGED check

\* A transaction signed by a is executed.
Spend(a) ==
  /\ sequence[a] \in 0 .. MaxSequence - 1
  /\ sequence' = [sequence EXCEPT ![a] = @ + 1]
  /\ UNCHANGED check

ChainMoves == \E a \in Accounts : Open(a) \/ Spend(a)

\* What a node may answer for account a: its sequence, or an earlier one. NoAccount
\* also stands for a session revoked.
Answers(a) == IF a = NoAddress THEN {NoAccount} ELSE NoAccount .. sequence[a]

\* The account that authorizes payments of master, in the name of session when one
\* is named: NoAddress when the session is none of master's.
SigningAccount(master, session) ==
  IF session = NoAddress THEN master
  ELSE IF MasterOf[session] = master THEN session
  ELSE NoAddress

-----------------------------------------------------------------------------
(* The signature *)

\* signingKey: the key the signature is verified against, NoKey if none satisfies it.
\* An account that stores none takes up the signature's own, if it is the payer's.
SigningKey(tx, stored) ==
  CASE stored # NoKey /\ tx.key \in {NoKey, stored} -> stored
    [] stored = NoKey /\ tx.key # NoKey /\ AddressOf[tx.key] = tx.from -> tx.key
    [] OTHER -> NoKey

\* Whether tx's signature is its signing key's, over the sign doc at sequence s.
Verifies(tx, key, s) == key # NoKey /\ tx.signer = key /\ tx.chain = Chain /\ tx.sequence = s

\* Variant: the sequence probed for staleness is the account's next.
SignatureStateAhead(tx, a, seq) ==
  LET key == SigningKey(tx, StoredKey(a, seq))
  IN IF Verifies(tx, key, seq) THEN "fresh"
     ELSE IF Verifies(tx, key, seq + 1) THEN "consumed"
     ELSE "unverifiable"

\* verifySignature, against account a at the sequence the node answered.
SignatureState(tx, a, seq) ==
  LET key == SigningKey(tx, StoredKey(a, seq))
  IN IF Verifies(tx, key, seq) THEN "fresh"
     ELSE IF seq > 0 /\ Verifies(tx, key, seq - 1) THEN "consumed"
     ELSE "unverifiable"

-----------------------------------------------------------------------------
(* A check *)

\* The engine hands a payload to this mechanism by the scheme of the offer it is
\* presented for. No offline refusal names a payer. Nothing is kept from one check
\* to the next, so a behaviour has one, at any point of the accounts' lives.
CheckOffline(payload, o) ==
  /\ check = NoCheck /\ o.scheme = "exact"
  /\ LET reason == OfflineReason(Chain, payload, o) IN
     check' = [phase   |-> IF reason = "" THEN "account" ELSE "done",
               verdict |-> IF reason = "" THEN "none" ELSE "refused",
               reason  |-> reason,
               payer   |-> NoAddress,
               read    |-> NoAccount,
               offer   |-> o,
               payload |-> payload]
  /\ UNCHANGED sequence

Conclude(verdict, reason, payer, read) ==
  check' = [check EXCEPT !.phase = "done", !.verdict = verdict, !.reason = reason,
                         !.payer = payer, !.read = read]

\* A call to the node failed, with no answer of the chain's own.
CallFails ==
  /\ check.phase \in {"account", "simulation"}
  /\ Conclude("no_verdict", "", check.payload.tx.from, check.read)
  /\ UNCHANGED sequence

\* Variant: every refusal names the payer the transaction claims.
ClaimedPayer(tx, state) == tx.from

\* Variant: the account that signed is named, a session for its master.
ProvenSigner(tx, state) == IF state = "consumed" THEN AddressOf[tx.signer] ELSE NoAddress

\* The payer a refusal of the account check names: a consumed signature verified,
\* so the address it was made for is the payer's, and no other did.
ProvenPayer(tx, state) == IF state = "consumed" THEN tx.from ELSE NoAddress

\* verifyAccountChecks, on what the node answered for the account.
ReadSigner ==
  /\ check.phase = "account"
  /\ LET tx == check.payload.tx
         a  == SigningAccount(tx.from, tx.session)
     IN \E seq \in Answers(a) :
          LET state == IF seq = NoAccount THEN "none" ELSE SignatureState(tx, a, seq)
          IN IF state = "fresh"
             THEN check' = [check EXCEPT !.phase = "simulation", !.read = seq]
             ELSE Conclude("refused",
                    CASE state = "none"         -> "transaction_simulation_failed"
                      [] state = "consumed"     -> "sequence_mismatch"
                      [] state = "unverifiable" -> "signature_invalid",
                    ProvenPayer(tx, state), seq)
  /\ UNCHANGED sequence

\* The ante verifies no signature under simulate. What a simulation finds is all the
\* rest: the balance, the fee, what a session may do.
Simulate ==
  /\ check.phase = "simulation"
  /\ \/ Conclude("accepted", "", check.payload.tx.from, check.read)
     \/ Conclude("refused", "transaction_simulation_failed", check.payload.tx.from, check.read)
  /\ UNCHANGED sequence

CheckOnChain == CallFails \/ ReadSigner \/ Simulate

Present == \E p \in Presented : CheckOffline(p.payload, p.offer)

VerificationNext == ChainMoves \/ Present \/ CheckOnChain

VerificationSpec == VerificationInit /\ [][VerificationNext]_<<sequence, check>>

-----------------------------------------------------------------------------
(* Properties *)

Reasons == {"", "invalid_network", "invalid_payment_requirements", "invalid_payload",
  "transaction_could_not_be_decoded", "signature_count", "unexpected_message",
  "recipient_mismatch", "amount_mismatch", "memo_mismatch", "signature_invalid",
  "sequence_mismatch", "transaction_simulation_failed"}

Checks == [
  phase   : {"account", "simulation", "done"},
  verdict : {"none", "accepted", "refused", "no_verdict"},
  reason  : Reasons,
  payer   : Masters \cup {NoAddress},
  read    : Nat \cup {NoAccount},
  offer   : Offers,
  payload : Payloads]

\* The types of the accounts and of the check under way.
CheckTypeOK ==
  /\ sequence \in [Accounts -> NoAccount .. MaxSequence]
  /\ check = NoCheck \/ check \in Checks

Accepted == check # NoCheck /\ check.verdict = "accepted"
Refused  == check # NoCheck /\ check.verdict = "refused"

\* tx is signed by the key of its payer, or of a session its payer registered, over
\* sequence seq of the facilitator's chain.
SignedByPayer(tx, seq) ==
  /\ SigningAccount(tx.from, tx.session) # NoAddress
  /\ AddressOf[tx.signer] = SigningAccount(tx.from, tx.session)
  /\ tx.chain = Chain
  /\ tx.sequence = seq

\* tx sends the payee of o its price, under the memo o names if any.
Pays(tx, o) ==
  /\ tx.shape = "payment"
  /\ tx.to = o.payTo
  /\ tx.coins = Price(o) /\ tx.coins # <<>>
  /\ o.memo \in Memos => tx.memo = o.memo

\* A payment the check accepts pays the offer it was presented for, in one coin, and
\* its payer signed it over the sequence the account had when the node answered
\* (verify.go:93-98, facilitator.go:371-376).
AcceptedPaysTheOffer ==
  Accepted =>
    /\ Pays(check.payload.tx, check.offer) /\ Len(check.payload.tx.coins) = 1
    /\ SignedByPayer(check.payload.tx, check.read)
    /\ check.payer = check.payload.tx.from

\* A refusal names a payer only once a signature of that payer verified, over the
\* sequence the node answered or the one before it (facilitator.go:313-316).
PayerNamedOnlyIfProven ==
  Refused /\ check.payer # NoAddress =>
    /\ check.payer = check.payload.tx.from
    /\ \E seq \in {check.read, check.read - 1} : SignedByPayer(check.payload.tx, seq)

\* A payment refused for its sequence is spent, and will not settle later: its payer
\* signed it, and the account has passed its sequence, even where the node that
\* answered lags (verify.go:35-38).
MismatchMeansSpent ==
  Refused /\ check.reason = "sequence_mismatch" =>
    LET tx == check.payload.tx IN
    /\ SignedByPayer(tx, tx.sequence)
    /\ tx.sequence < sequence[SigningAccount(tx.from, tx.session)]

\* What a seller's scheme accepts of a price, a memo and the terms, a facilitator
\* accepts: a payment that pays a listed offer, signed over the sequence the node
\* answers, is refused by nothing but the chain (server/exact/scheme.go:104-108,
\* :147-150).  The scheme does not look at payTo, so an offer may be listed that no
\* payment pays, since its payee is no canonical address (verify.go:141).
ListedTermsAccepted ==
  Refused /\ check.offer.network = Chain /\ Listed(check.offer)
    /\ check.payload.accepted = check.offer
    /\ Pays(check.payload.tx, check.offer)
  => \/ check.reason = "transaction_simulation_failed"
     \/ /\ check.reason \in {"signature_invalid", "sequence_mismatch"}
        /\ \/ ~SignedByPayer(check.payload.tx, check.read)
           \/ check.payload.tx.key # check.payload.tx.signer

=============================================================================
