--------------------------- MODULE PurchaseProofs ---------------------------
(***************************************************************************)
(* Theorems about Verification and Purchase, for any offers, accounts, keys,  *)
(* prices and coin parse, and any number of transactions of each account.     *)
(* Verification: what the facilitator accepts is owed, and what its refusals  *)
(* establish. Purchase: what a client signs is what it was shown, at a fee    *)
(* that holds for a block more, over its own account of the chain it names;   *)
(* and what the facilitator says of it tells what became of it.              *)
(***************************************************************************)
EXTENDS Purchase, SequenceTheorems, TLAPS

-----------------------------------------------------------------------------
(* Verification: the rules *)

LEMMA OfflineReasons ==
  ASSUME NEW payload, NEW o
  PROVE  OfflineReason(Chain, payload, o) \in Reasons \
           {"sequence_mismatch", "signature_invalid", "transaction_simulation_failed"}
BY DEF OfflineReason, StaticReason, Reasons

LEMMA OneIsNotEmpty ==
  ASSUME NEW s, Len(s) = 1
  PROVE  s # <<>>
<1>1. Len(<<>>) = 0
  BY EmptySeq
<1>2. 0 # 1
  OBVIOUS
<1> QED BY <1>1, <1>2, Zenon

\* What the offline rules let through pays its offer, in one coin.
LEMMA OfflineMeansPays ==
  ASSUME NEW payload \in Payloads, NEW o \in Offers, OfflineReason(Chain, payload, o) = ""
  PROVE  Pays(payload.tx, o) /\ Len(payload.tx.coins) = 1
<1>1. StaticReason(o, payload.tx) = ""
  BY DEF OfflineReason
<1>2. payload.tx \in Transactions
  BY DEF Payloads
<1>3. /\ payload.tx.shape = "payment"
      /\ payload.tx.to = o.payTo
      /\ AmountMatches(o, payload.tx)
      /\ o.memo \notin BadMemos
      /\ MemoMatches(o, payload.tx)
  BY <1>1, <1>2 DEF StaticReason, Transactions
<1>4. payload.tx.coins = Price(o) /\ Len(payload.tx.coins) = 1
  BY <1>3 DEF AmountMatches
<1>5. payload.tx.coins # <<>>
  BY <1>4, OneIsNotEmpty
<1>6. o.memo \in Memos => payload.tx.memo = o.memo
  BY <1>3, OffersAssumption DEF MemoMatches, Bound, Unset
<1> QED BY <1>3, <1>4, <1>5, <1>6 DEF Pays

\* A payment that pays an offer its seller could list meets the offline rules.
LEMMA ListedPassesOffline ==
  ASSUME NEW payload \in Payloads, NEW o \in Offers,
         o.network = Chain, Listed(o), payload.accepted = o, Pays(payload.tx, o)
  PROVE  OfflineReason(Chain, payload, o) = ""
<1>1. AmountMatches(o, payload.tx) /\ o.memo \notin BadMemos
  BY DEF Listed, CheckPayable, CheckMemo, Pays, AmountMatches
<1>2. MemoMatches(o, payload.tx)
  <2>1. o.memo \in {Unset, ""} \cup Memos
    BY <1>1 DEF Offers
  <2> QED BY <2>1 DEF MemoMatches, Bound, Pays
<1>3. StaticReason(o, payload.tx) = ""
  BY <1>1, <1>2 DEF StaticReason, Pays
<1>4. AcceptsSameOffer(payload.accepted, o) /\ ~UnsupportedTerms(o) /\ ~UnsupportedTerms(payload.accepted)
  BY DEF AcceptsSameOffer, Listed
<1> QED BY <1>1, <1>3, <1>4 DEF OfflineReason

-----------------------------------------------------------------------------
(* Verification: the signature *)

LEMMA Owners ==
  ASSUME NEW a \in Accounts
  PROVE  OwnerOf(a) \in Keys /\ AddressOf[OwnerOf(a)] = a
BY AccountsAssumption DEF OwnerOf

LEMMA SigningAccounts ==
  ASSUME NEW tx \in Transactions, SigningAccount(tx.from, tx.session) # NoAddress
  PROVE  /\ SigningAccount(tx.from, tx.session) \in Accounts
         /\ SigningAccount(tx.from, tx.session) \in Masters =>
              SigningAccount(tx.from, tx.session) = tx.from
BY AccountsAssumption DEF SigningAccount, Accounts, Transactions

\* The key a signature is verified against is the key of the account it is made for.
LEMMA VerifiedIsThePayers ==
  ASSUME NEW tx \in Transactions, NEW seq, NEW s,
         SigningAccount(tx.from, tx.session) # NoAddress,
         Verifies(tx, SigningKey(tx, StoredKey(SigningAccount(tx.from, tx.session), seq)), s)
  PROVE  SignedByPayer(tx, s)
<1> DEFINE a == SigningAccount(tx.from, tx.session)
           stored == StoredKey(a, seq)
<1>1. a \in Accounts /\ (a \in Masters => a = tx.from)
  BY SigningAccounts
<1>2. OwnerOf(a) \in Keys /\ AddressOf[OwnerOf(a)] = a
  BY <1>1, Owners
<1>3. CASE stored = NoKey
  <2>1. a \in Masters
    BY <1>2, <1>3, AccountsAssumption DEF StoredKey
  <2>2. SigningKey(tx, stored) = tx.key /\ AddressOf[tx.key] = tx.from
    BY <1>3 DEF SigningKey, Verifies
  <2> QED BY <1>1, <2>1, <2>2 DEF Verifies, SignedByPayer
<1>4. CASE stored # NoKey
  <2>1. SigningKey(tx, stored) = stored /\ stored = OwnerOf(a)
    BY <1>4 DEF SigningKey, Verifies, StoredKey
  <2> QED BY <1>2, <2>1 DEF Verifies, SignedByPayer
<1> QED BY <1>3, <1>4

\* A payment its payer signed, naming its own key, is fresh at its sequence.
LEMMA SignedIsFresh ==
  ASSUME NEW tx \in Transactions, NEW seq, SignedByPayer(tx, seq), tx.key = tx.signer
  PROVE  SignatureState(tx, SigningAccount(tx.from, tx.session), seq) = "fresh"
<1> DEFINE a == SigningAccount(tx.from, tx.session)
           stored == StoredKey(a, seq)
<1>1. a \in Accounts /\ (a \in Masters => a = tx.from) /\ AddressOf[tx.signer] = a
  BY SigningAccounts DEF SignedByPayer
<1>2. OwnerOf(a) = tx.signer /\ tx.signer \in Keys /\ tx.signer # NoKey
  <2>1. tx.signer \in Keys
    BY DEF Transactions
  <2>2. OwnerOf(a) \in Keys /\ AddressOf[OwnerOf(a)] = a
    BY <1>1, Owners
  <2>3. \A k1, k2 \in Keys : AddressOf[k1] = AddressOf[k2] => k1 = k2
    BY AccountsAssumption
  <2>4. OwnerOf(a) = tx.signer
    BY <1>1, <2>1, <2>2, <2>3
  <2> QED BY <2>1, <2>4, AccountsAssumption
<1>3. SigningKey(tx, stored) = tx.signer
  BY <1>1, <1>2 DEF SigningKey, StoredKey
<1>4. Verifies(tx, SigningKey(tx, stored), seq)
  BY <1>2, <1>3 DEF Verifies, SignedByPayer
<1> QED BY <1>4 DEF SignatureState

LEMMA States ==
  ASSUME NEW tx, NEW a, NEW seq
  PROVE  SignatureState(tx, a, seq) \in {"fresh", "consumed", "unverifiable"}
BY DEF SignatureState

\* What a signature's state proves of who made it.
LEMMA StateMeans ==
  ASSUME NEW tx \in Transactions, NEW seq,
         SigningAccount(tx.from, tx.session) # NoAddress
  PROVE  LET state == SignatureState(tx, SigningAccount(tx.from, tx.session), seq)
         IN /\ state = "fresh" => SignedByPayer(tx, seq)
            /\ state = "consumed" => SignedByPayer(tx, seq - 1)
BY VerifiedIsThePayers DEF SignatureState

-----------------------------------------------------------------------------
(* Verification: types *)

\* The fields of the check after a step that concludes it.
LEMMA Concluded ==
  ASSUME check \in Checks, NEW verdict, NEW reason, NEW payer, NEW read,
         Conclude(verdict, reason, payer, read)
  PROVE  check' = [phase |-> "done", verdict |-> verdict, reason |-> reason,
                   payer |-> payer, read |-> read,
                   offer |-> check.offer, payload |-> check.payload]
BY DEF Conclude, Checks

\* A step on a check under way finds one, of a transaction.
LEMMA UnderWay ==
  ASSUME CheckTypeOK, check.phase \in {"account", "simulation"}
  PROVE  /\ check \in Checks /\ check # NoCheck
         /\ check.payload.tx \in Transactions
         /\ check.payload.tx.from \in Masters
<1>1. check # NoCheck
  BY DEF NoCheck
<1>2. check \in Checks
  BY <1>1 DEF CheckTypeOK
<1> QED BY <1>1, <1>2 DEF Checks, Payloads, Transactions

LEMMA AnswerTypes ==
  ASSUME CheckTypeOK, NEW a \in Accounts \cup {NoAddress}, NEW seq \in Answers(a)
  PROVE  /\ seq \in Nat \cup {NoAccount}
         /\ seq # NoAccount => a \in Accounts /\ seq <= sequence[a]
<1>1. CASE a = NoAddress
  BY <1>1 DEF Answers
<1>2. CASE a # NoAddress
  <2>1. a \in Accounts /\ sequence[a] \in NoAccount .. MaxSequence
    BY <1>2 DEF CheckTypeOK
  <2> QED BY <1>2, <2>1, AccountsAssumption DEF Answers, NoAccount
<1> QED BY <1>1, <1>2

LEMMA SequencesGrow ==
  ASSUME CheckTypeOK, ChainMoves
  PROVE  /\ sequence' \in [Accounts -> NoAccount .. MaxSequence]
         /\ \A a \in Accounts : sequence[a] <= sequence'[a]
         /\ check' = check
<1>1. PICK a \in Accounts : Open(a) \/ Spend(a)
  BY DEF ChainMoves
<1>2. sequence \in [Accounts -> NoAccount .. MaxSequence] /\ MaxSequence \in Nat
  BY AccountsAssumption DEF CheckTypeOK
<1>3. CASE Open(a)
  BY <1>2, <1>3 DEF Open, NoAccount
<1>4. CASE Spend(a)
  BY <1>2, <1>4 DEF Spend, NoAccount
<1> QED BY <1>1, <1>3, <1>4

-----------------------------------------------------------------------------
(* Verification: the inductive invariant *)

\* A check that goes on has passed the offline rules; one that simulates has found
\* the payer's signature, over the sequence it read.
UnderWayIsSound ==
  check # NoCheck /\ check.phase \in {"account", "simulation"} =>
    /\ check.verdict = "none"
    /\ OfflineReason(Chain, check.payload, check.offer) = ""
    /\ check.phase = "simulation" => SignedByPayer(check.payload.tx, check.read)

CheckInv ==
  /\ CheckTypeOK
  /\ UnderWayIsSound
  /\ AcceptedPaysTheOffer
  /\ PayerNamedOnlyIfProven
  /\ MismatchMeansSpent
  /\ ListedTermsAccepted

LEMMA CheckInvInit == VerificationInit => CheckInv
BY AccountsAssumption
   DEF VerificationInit, CheckInv, CheckTypeOK, UnderWayIsSound, AcceptedPaysTheOffer,
       PayerNamedOnlyIfProven, MismatchMeansSpent, ListedTermsAccepted, Accepted, Refused,
       NoAccount

LEMMA ChainKeepsInv ==
  ASSUME CheckInv, ChainMoves
  PROVE  CheckInv'
<1>1. /\ sequence' \in [Accounts -> NoAccount .. MaxSequence]
      /\ \A a \in Accounts : sequence[a] <= sequence'[a]
      /\ check' = check
  BY SequencesGrow DEF CheckInv
<1>2. CheckTypeOK'
  BY <1>1 DEF CheckInv, CheckTypeOK
<1>3. /\ UnderWayIsSound' /\ AcceptedPaysTheOffer'
      /\ PayerNamedOnlyIfProven' /\ ListedTermsAccepted'
  BY <1>1 DEF CheckInv, UnderWayIsSound, AcceptedPaysTheOffer, PayerNamedOnlyIfProven,
              ListedTermsAccepted, Accepted, Refused
<1>4. MismatchMeansSpent'
  <2> DEFINE tx == check.payload.tx
             a  == SigningAccount(tx.from, tx.session)
  <2> SUFFICES ASSUME Refused, check.reason = "sequence_mismatch"
               PROVE  SignedByPayer(tx, tx.sequence) /\ tx.sequence < sequence'[a]
    BY <1>1 DEF MismatchMeansSpent, Refused
  <2>1. SignedByPayer(tx, tx.sequence) /\ tx.sequence < sequence[a]
    BY DEF CheckInv, MismatchMeansSpent
  <2>2. tx \in Transactions
    BY DEF CheckInv, CheckTypeOK, Refused, Checks, Payloads
  <2>3. a \in Accounts
    BY <2>1, <2>2, SigningAccounts DEF SignedByPayer
  <2>4. tx.sequence \in Nat
    BY <2>2 DEF Transactions
  <2>5. sequence \in [Accounts -> NoAccount .. MaxSequence]
    BY DEF CheckInv, CheckTypeOK
  <2> HIDE DEF a, tx
  <2>6. sequence[a] \in Int /\ sequence'[a] \in Int
    BY <1>1, <2>3, <2>5, AccountsAssumption DEF NoAccount
  <2>7. tx.sequence < sequence'[a]
    BY <1>1, <2>1, <2>3, <2>4, <2>6
  <2> QED BY <2>1, <2>7 DEF a, tx
<1> QED BY <1>2, <1>3, <1>4 DEF CheckInv

LEMMA OfflineKeepsInv ==
  ASSUME CheckInv, NEW payload \in Payloads, NEW o \in Offers, CheckOffline(payload, o)
  PROVE  CheckInv'
<1> DEFINE reason == OfflineReason(Chain, payload, o)
<1>3. /\ sequence' = sequence
      /\ check' = [phase   |-> IF reason = "" THEN "account" ELSE "done",
                   verdict |-> IF reason = "" THEN "none" ELSE "refused",
                   reason  |-> reason,
                   payer   |-> NoAddress,
                   read    |-> NoAccount,
                   offer   |-> o,
                   payload |-> payload]
  BY DEF CheckOffline
<1>4. reason \in Reasons \
        {"sequence_mismatch", "signature_invalid", "transaction_simulation_failed"}
  BY OfflineReasons
<1> HIDE DEF reason
<1>5. check'.payload = payload /\ check'.offer = o /\ check'.reason = reason
      /\ check'.payer = NoAddress
      /\ check'.phase = (IF reason = "" THEN "account" ELSE "done")
      /\ check'.verdict = (IF reason = "" THEN "none" ELSE "refused")
  BY <1>3
<1>6. CheckTypeOK'
  BY <1>3, <1>4 DEF CheckInv, CheckTypeOK, Checks
<1>7. UnderWayIsSound'
  BY <1>5 DEF UnderWayIsSound, reason
<1>8. AcceptedPaysTheOffer' /\ PayerNamedOnlyIfProven' /\ MismatchMeansSpent'
  BY <1>4, <1>5 DEF AcceptedPaysTheOffer, PayerNamedOnlyIfProven, MismatchMeansSpent, Accepted, Refused
<1>9. ListedTermsAccepted'
  BY <1>5, ListedPassesOffline DEF ListedTermsAccepted, Refused, reason
<1> QED BY <1>6, <1>7, <1>8, <1>9 DEF CheckInv

LEMMA FailureKeepsInv ==
  ASSUME CheckInv, CallFails
  PROVE  CheckInv'
<1>1. /\ check \in Checks
      /\ check.payload.tx.from \in Masters
  BY UnderWay DEF CheckInv, CallFails
<1>2. /\ sequence' = sequence
      /\ check' = [phase |-> "done", verdict |-> "no_verdict", reason |-> "",
                   payer |-> check.payload.tx.from, read |-> check.read,
                   offer |-> check.offer, payload |-> check.payload]
  BY <1>1, Concluded DEF CallFails
<1>3. check'.phase = "done" /\ check'.verdict = "no_verdict"
  BY <1>2
<1>4. CheckTypeOK'
  BY <1>1, <1>2 DEF CheckInv, CheckTypeOK, Checks, Reasons
<1> QED BY <1>3, <1>4
        DEF CheckInv, UnderWayIsSound, AcceptedPaysTheOffer, PayerNamedOnlyIfProven,
            MismatchMeansSpent, ListedTermsAccepted, Accepted, Refused

LEMMA SimulationKeepsInv ==
  ASSUME CheckInv, Simulate
  PROVE  CheckInv'
<1> DEFINE tx == check.payload.tx
<1>1. /\ check \in Checks /\ check # NoCheck
      /\ tx.from \in Masters
  BY UnderWay DEF CheckInv, Simulate
<1>2. SignedByPayer(tx, check.read) /\ OfflineReason(Chain, check.payload, check.offer) = ""
  BY <1>1 DEF CheckInv, UnderWayIsSound, Simulate
<1>3. PICK verdict \in {"accepted", "refused"} :
        /\ Conclude(verdict, IF verdict = "accepted" THEN "" ELSE "transaction_simulation_failed",
                    tx.from, check.read)
        /\ sequence' = sequence
  BY DEF Simulate
<1>4. check' = [phase |-> "done", verdict |-> verdict,
                reason |-> IF verdict = "accepted" THEN "" ELSE "transaction_simulation_failed",
                payer |-> tx.from, read |-> check.read,
                offer |-> check.offer, payload |-> check.payload]
  BY <1>1, <1>3, Concluded
<1>5. /\ check'.phase = "done" /\ check'.verdict = verdict
      /\ check'.reason = (IF verdict = "accepted" THEN "" ELSE "transaction_simulation_failed")
      /\ check'.payer = tx.from /\ check'.read = check.read
      /\ check'.offer = check.offer /\ check'.payload = check.payload
  BY <1>4
<1>6. CheckTypeOK'
  BY <1>1, <1>3, <1>4 DEF CheckInv, CheckTypeOK, Checks, Reasons
<1>7. AcceptedPaysTheOffer'
  <2>1. check.payload \in Payloads /\ check.offer \in Offers
    BY <1>1 DEF Checks
  <2>2. Pays(tx, check.offer) /\ Len(tx.coins) = 1
    BY <1>2, <2>1, OfflineMeansPays
  <2> QED BY <1>2, <1>5, <2>2 DEF AcceptedPaysTheOffer
<1>8. PayerNamedOnlyIfProven'
  BY <1>2, <1>5 DEF PayerNamedOnlyIfProven
<1> QED BY <1>5, <1>6, <1>7, <1>8
        DEF CheckInv, UnderWayIsSound, MismatchMeansSpent, ListedTermsAccepted, Accepted, Refused

\* What the account check found, once it is not to go on.
LEMMA RefusalKeepsInv ==
  ASSUME CheckInv, check.phase = "account", sequence' = sequence,
         NEW seq \in Nat \cup {NoAccount}, NEW reason, NEW payer,
         Conclude("refused", reason, payer, seq),
         \/ reason = "transaction_simulation_failed" /\ payer = NoAddress
         \/ /\ reason = "sequence_mismatch" /\ payer = check.payload.tx.from
            /\ seq # NoAccount
            /\ SignedByPayer(check.payload.tx, seq - 1)
            /\ seq <= sequence[SigningAccount(check.payload.tx.from, check.payload.tx.session)]
         \/ reason = "signature_invalid" /\ payer = NoAddress,
         reason # "transaction_simulation_failed" =>
           \/ ~SignedByPayer(check.payload.tx, seq)
           \/ check.payload.tx.key # check.payload.tx.signer
  PROVE  CheckInv'
<1> DEFINE tx == check.payload.tx
           a  == SigningAccount(tx.from, tx.session)
<1>1. /\ check \in Checks /\ check # NoCheck
      /\ tx \in Transactions /\ tx.from \in Masters
  BY UnderWay DEF CheckInv
<1>2. check' = [phase |-> "done", verdict |-> "refused", reason |-> reason,
                payer |-> payer, read |-> seq,
                offer |-> check.offer, payload |-> check.payload]
  BY <1>1, Concluded
<1>3. /\ check'.phase = "done" /\ check'.verdict = "refused"
      /\ check'.reason = reason /\ check'.payer = payer /\ check'.read = seq
      /\ check'.offer = check.offer /\ check'.payload = check.payload
  BY <1>2
<1>4. CheckTypeOK'
  BY <1>1, <1>2 DEF CheckInv, CheckTypeOK, Checks, Reasons
<1>5. UnderWayIsSound' /\ AcceptedPaysTheOffer'
  BY <1>3 DEF UnderWayIsSound, AcceptedPaysTheOffer, Accepted
<1>6. PayerNamedOnlyIfProven'
  BY <1>3 DEF PayerNamedOnlyIfProven
<1>7. MismatchMeansSpent'
  <2> SUFFICES ASSUME reason = "sequence_mismatch"
               PROVE  SignedByPayer(tx, tx.sequence) /\ tx.sequence < sequence[a]
    BY <1>3 DEF MismatchMeansSpent
  <2>1. SignedByPayer(tx, seq - 1) /\ seq \in Nat /\ seq <= sequence[a]
    OBVIOUS
  <2>2. tx.sequence = seq - 1 /\ SignedByPayer(tx, tx.sequence)
    BY <2>1 DEF SignedByPayer
  <2>3. a \in Accounts
    BY <1>1, <2>1, SigningAccounts DEF SignedByPayer
  <2>4. sequence \in [Accounts -> NoAccount .. MaxSequence]
    BY DEF CheckInv, CheckTypeOK
  <2> HIDE DEF a, tx
  <2>5. sequence[a] \in Int
    BY <2>3, <2>4, AccountsAssumption DEF NoAccount
  <2>6. tx.sequence < sequence[a]
    BY <2>1, <2>2, <2>5
  <2> QED BY <2>2, <2>6
<1>8. ListedTermsAccepted'
  BY <1>3 DEF ListedTermsAccepted
<1> QED BY <1>4, <1>5, <1>6, <1>7, <1>8 DEF CheckInv

LEMMA ReadKeepsInv ==
  ASSUME CheckInv, ReadSigner
  PROVE  CheckInv'
<1> DEFINE tx == check.payload.tx
           a  == SigningAccount(tx.from, tx.session)
<1>1. /\ check \in Checks /\ check # NoCheck /\ check.phase = "account"
      /\ tx \in Transactions /\ tx.from \in Masters
      /\ sequence' = sequence
  BY UnderWay DEF CheckInv, ReadSigner
<1>2. PICK seq \in Answers(a) :
        LET state == IF seq = NoAccount THEN "none" ELSE SignatureState(tx, a, seq)
        IN IF state = "fresh"
           THEN check' = [check EXCEPT !.phase = "simulation", !.read = seq]
           ELSE Conclude("refused",
                  CASE state = "none"         -> "transaction_simulation_failed"
                    [] state = "consumed"     -> "sequence_mismatch"
                    [] state = "unverifiable" -> "signature_invalid",
                  ProvenPayer(tx, state), seq)
  BY DEF ReadSigner
<1> DEFINE state == IF seq = NoAccount THEN "none" ELSE SignatureState(tx, a, seq)
<1>3. a \in Accounts \cup {NoAddress}
  BY <1>1, AccountsAssumption DEF SigningAccount, Accounts, Transactions
<1>4. /\ seq \in Nat \cup {NoAccount}
      /\ seq # NoAccount => a \in Accounts /\ seq <= sequence[a]
  BY <1>3, AnswerTypes DEF CheckInv
<1>5. seq # NoAccount => a # NoAddress
  BY <1>4, AccountsAssumption
<1>6. state \in {"none", "fresh", "consumed", "unverifiable"}
      /\ (state = "none" => seq = NoAccount)
      /\ (state # "none" => seq # NoAccount /\ state = SignatureState(tx, a, seq))
  BY States
<1>7. /\ state = "fresh" => SignedByPayer(tx, seq)
      /\ state = "consumed" => SignedByPayer(tx, seq - 1)
  BY <1>1, <1>5, <1>6, StateMeans
<1>8. state \in {"consumed", "unverifiable"} =>
        ~SignedByPayer(tx, seq) \/ tx.key # tx.signer
  BY <1>1, <1>6, SignedIsFresh
<1> HIDE DEF state
<1>9. CASE state = "fresh"
  <2>1. check' = [check EXCEPT !.phase = "simulation", !.read = seq]
    BY <1>2, <1>9 DEF state
  <2>2. /\ check' \in Checks
        /\ check'.phase = "simulation" /\ check'.read = seq /\ check'.verdict = check.verdict
        /\ check'.payload = check.payload /\ check'.offer = check.offer
    BY <1>1, <1>4, <2>1 DEF Checks
  <2>3. check.verdict = "none" /\ OfflineReason(Chain, check.payload, check.offer) = ""
    BY <1>1 DEF CheckInv, UnderWayIsSound
  <2>4. UnderWayIsSound'
    BY <1>7, <1>9, <2>2, <2>3 DEF UnderWayIsSound
  <2> QED BY <1>1, <2>2, <2>3, <2>4
          DEF CheckInv, CheckTypeOK, AcceptedPaysTheOffer, PayerNamedOnlyIfProven,
              MismatchMeansSpent, ListedTermsAccepted, Accepted, Refused
<1>10. CASE state # "fresh"
  <2> DEFINE reason == CASE state = "none"         -> "transaction_simulation_failed"
                         [] state = "consumed"     -> "sequence_mismatch"
                         [] state = "unverifiable" -> "signature_invalid"
             payer == ProvenPayer(tx, state)
  <2>1. Conclude("refused", reason, payer, seq)
    BY <1>2, <1>10 DEF state
  <2>2. \/ state = "none" /\ reason = "transaction_simulation_failed" /\ payer = NoAddress
        \/ state = "consumed" /\ reason = "sequence_mismatch" /\ payer = tx.from
        \/ state = "unverifiable" /\ reason = "signature_invalid" /\ payer = NoAddress
    BY <1>6, <1>10 DEF ProvenPayer
  <2> HIDE DEF reason, payer
  <2>3. \/ reason = "transaction_simulation_failed" /\ payer = NoAddress
        \/ /\ reason = "sequence_mismatch" /\ payer = tx.from /\ seq # NoAccount
           /\ SignedByPayer(tx, seq - 1) /\ seq <= sequence[a]
        \/ reason = "signature_invalid" /\ payer = NoAddress
    BY <1>4, <1>6, <1>7, <2>2
  <2>4. reason # "transaction_simulation_failed" =>
          ~SignedByPayer(tx, seq) \/ tx.key # tx.signer
    BY <1>8, <2>2
  <2> QED BY <1>1, <1>4, <2>1, <2>3, <2>4, RefusalKeepsInv
<1> QED BY <1>9, <1>10

LEMMA CheckInvNext == CheckInv /\ [VerificationNext]_<<sequence, check>> => CheckInv'
<1> SUFFICES ASSUME CheckInv, [VerificationNext]_<<sequence, check>> PROVE CheckInv'
  OBVIOUS
<1>1. CASE UNCHANGED <<sequence, check>>
  BY <1>1 DEF CheckInv, CheckTypeOK, UnderWayIsSound, AcceptedPaysTheOffer,
     PayerNamedOnlyIfProven, MismatchMeansSpent, ListedTermsAccepted, Accepted, Refused
<1>2. CASE ChainMoves
  BY <1>2, ChainKeepsInv
<1>3. CASE Present
  <2>1. PICK p \in Presented : CheckOffline(p.payload, p.offer)
    BY <1>3 DEF Present
  <2>2. p.payload \in Payloads /\ p.offer \in Offers
    BY AccountsAssumption
  <2> QED BY <2>1, <2>2, OfflineKeepsInv
<1>4. CASE CheckOnChain
  BY <1>4, FailureKeepsInv, ReadKeepsInv, SimulationKeepsInv DEF CheckOnChain
<1> QED BY <1>1, <1>2, <1>3, <1>4 DEF VerificationNext

\* The strengthening that the theorems below rest on.
THEOREM CheckInvariant == VerificationSpec => []CheckInv
BY CheckInvInit, CheckInvNext, PTL DEF VerificationSpec

-----------------------------------------------------------------------------
(* Verification: the theorems *)

\* Every reachable state is well typed: a check's reason is one the code names, and
\* its payer is an account of a payer's own, or no one.
THEOREM VerificationTypes == VerificationSpec => []CheckTypeOK
<1>1. CheckInv => CheckTypeOK
  BY DEF CheckInv
<1> QED BY <1>1, CheckInvariant, PTL

\* What the facilitator accepts pays the offer it was presented for, and is signed by
\* its payer, whoever made the payload and however the accounts move meanwhile.
THEOREM AcceptedIsOwed == VerificationSpec => []AcceptedPaysTheOffer
<1>1. CheckInv => AcceptedPaysTheOffer
  BY DEF CheckInv
<1> QED BY <1>1, CheckInvariant, PTL

\* A refusal names no payer whose signature it did not verify.
THEOREM NamedPayersAreProven == VerificationSpec => []PayerNamedOnlyIfProven
<1>1. CheckInv => PayerNamedOnlyIfProven
  BY DEF CheckInv
<1> QED BY <1>1, CheckInvariant, PTL

\* A payment refused with sequence_mismatch is spent for good, whatever block the node
\* answered from.
THEOREM MismatchIsSpent == VerificationSpec => []MismatchMeansSpent
<1>1. CheckInv => MismatchMeansSpent
  BY DEF CheckInv
<1> QED BY <1>1, CheckInvariant, PTL

\* The facilitator refuses no payment that pays a listed offer for a rule on its price,
\* memo or terms that its seller did not check, for any offers and any coin parse.
THEOREM ListedTermsAreAccepted == VerificationSpec => []ListedTermsAccepted
<1>1. CheckInv => ListedTermsAccepted
  BY DEF CheckInv
<1> QED BY <1>1, CheckInvariant, PTL

-----------------------------------------------------------------------------
(* Purchase: the fee *)

LEMMA RoundedUpCovers ==
  ASSUME NEW n \in Nat, NEW d \in Nat, d > 0
  PROVE  RoundedUp(n, d) \in Int /\ n <= RoundedUp(n, d) * d
<1> DEFINE m == n + d - 1
           q == m \div d
<1>1. m \in Nat
  OBVIOUS
<1>2. q \in Int /\ m % d \in 0 .. d - 1 /\ m = (d * q) + (m % d)
  BY <1>1, SMT
<1>3. q * d = d * q /\ d * q \in Int
  BY <1>2, SMT
<1>4. n <= q * d
  <2> DEFINE r == m % d
             product == d * q
  <2>1. product \in Int /\ r \in Int /\ r <= d - 1 /\ n + d - 1 = product + r
    BY <1>2, <1>3
  <2> HIDE DEF product, r, q, m
  <2>2. n <= product
    BY <2>1
  <2> QED BY <1>3, <2>2 DEF product
<1> QED BY <1>2, <1>4 DEF RoundedUp

\* A price that rises by a unit before the block is still covered.
LEMMA FeeHolds ==
  ASSUME NEW price \in GasPrices, Affordable(price)
  PROVE  /\ GasFee(price) <= MaxGasFee
         /\ ~Unpriced(price) =>
              GasWanted * (price.amount + 1) <= GasFee(price) * price.gas
<1>0. GasWanted \in Nat /\ MaxGasFee \in Nat /\ price.amount \in Int /\ price.gas \in Int
  BY ClientAssumption
<1>1. CASE Unpriced(price)
  BY <1>0, <1>1 DEF GasFee
<1>2. CASE ~Unpriced(price)
  <2>1. price.gas > 0 /\ price.amount > 0 /\ GasFee(price) <= MaxGasFee
    BY <1>2 DEF Affordable
  <2> DEFINE g == GasWanted
             a == price.amount
             n == g * gasPriceMargin * a
  <2>2. g \in Nat /\ a \in Nat /\ a >= 1 /\ price.gas \in Nat
    BY <1>0, <2>1
  <2> HIDE DEF g, a
  <2>3. n \in Nat /\ g * (a + 1) <= n
    <3>1. g * a \in Nat /\ g <= g * a
      BY <2>2, SMT
    <3>2. n = g * a + g * a
      BY <2>2, SMT DEF gasPriceMargin
    <3>3. g * (a + 1) = g * a + g
      BY <2>2, SMT
    <3> HIDE DEF n
    <3> QED BY <2>2, <3>1, <3>2, <3>3
  <2>4. GasFee(price) = RoundedUp(n, price.gas)
    BY <1>2 DEF GasFee, g, a
  <2> HIDE DEF n
  <2>5. GasFee(price) \in Int /\ n <= GasFee(price) * price.gas
    BY <2>1, <2>2, <2>3, <2>4, RoundedUpCovers
  <2>6. GasFee(price) * price.gas \in Int /\ g * (a + 1) \in Int
    BY <2>2, <2>5
  <2>7. g * (a + 1) <= GasFee(price) * price.gas
    BY <2>3, <2>5, <2>6
  <2> QED BY <2>1, <2>7 DEF g, a
<1> QED BY <1>1, <1>2

-----------------------------------------------------------------------------
(* Purchase: what a client signs *)

\* What the terms a client reads establish of the price and the payee.
LEMMA SignablePrice ==
  ASSUME NEW o \in Offers, Signable(o)
  PROVE  /\ o.asset \in Denominations /\ o.amount \in DOMAIN Value
         /\ Price(o) = <<[denom |-> o.asset, amount |-> Value[o.amount]]>>
         /\ Price(o) \in Seq(Coins)
         /\ Price(o)[1].amount = Value[o.amount]
         /\ Decoded[o.payTo] = o.payTo /\ o.payTo \in Payees
         /\ Bound(o) \in {""} \cup Memos
         /\ o.network \in Chains
<1>1. o.asset \in Denominations /\ o.amount \in DOMAIN Value /\ Len(Price(o)) = 1
  BY DEF Signable, PlainPrice
<1>2. Price(o) \in {<<>>, <<[denom |-> o.asset, amount |-> Value[o.amount]]>>}
  BY <1>1, OffersAssumption DEF Price
<1>3. Price(o) # <<>>
  BY <1>1, OneIsNotEmpty
<1>4. Price(o) = <<[denom |-> o.asset, amount |-> Value[o.amount]]>>
  BY <1>2, <1>3
<1>5. Price(o) \in Seq(Coins) /\ Price(o)[1].amount = Value[o.amount]
  <2>1. Price(o)[1].amount = Value[o.amount]
    BY <1>4
  <2>2. Price(o) \in Seq(Coins)
    BY OffersAssumption DEF Offers, Price
  <2> QED BY <2>1, <2>2
<1>6. Decoded[o.payTo] = o.payTo /\ o.payTo \in Payees
  <2>1. o.payTo \in Payees \cup OddPayees /\ Decoded[o.payTo] = o.payTo
    BY DEF Signable, NamesPayee, Offers
  <2> QED BY <2>1, OffersAssumption
<1>7. Bound(o) \in {""} \cup Memos
  BY DEF Signable, Bound, Offers, BadMemos, Unset
<1>8. o.network \in Chains
  BY DEF Signable
<1> QED BY <1>1, <1>4, <1>5, <1>6, <1>7, <1>8

Phases == {"chain", "gas price", "account", "prepared", "signing", "signed"}

Paying == client.phase \in Phases

\* The account was read, for a key that signs for it.
AccountRead ==
  LET a == SignsFor(client.key, client.master) IN
  /\ a # NoAddress
  /\ client.sequence \in Nat
  /\ client.node = Chain => client.sequence <= sequence[a]

\* What a client has established on its way.
ClientInv ==
  Paying =>
    /\ Signable(client.offer) /\ WithinCap(client.offer, client.cap)
    /\ client.phase # "chain" => ServesTheOffers(client)
    /\ client.phase \notin {"chain", "gas price"} =>
         Affordable(client.price) /\ client.price \in GasPrices
    /\ client.phase \in {"prepared", "signing", "signed"} => AccountRead
    /\ client.abandoned => gone
    /\ client.phase \in {"signing", "signed"} => ~client.abandoned

\* A payment of a client's, as the facilitator checks it.
OwnTx(tx) ==
  /\ SigningAccount(tx.from, tx.session) # NoAddress
  /\ AddressOf[tx.signer] = SigningAccount(tx.from, tx.session)
  /\ tx.key = tx.signer

CheckedInv ==
  check # NoCheck =>
    /\ OwnTx(check.payload.tx)
    /\ check.payload.tx.chain = check.offer.network
    /\ check.offer.network = Chain => OfflineReason(Chain, check.payload, check.offer) = ""

PurchaseInv ==
  /\ CheckInv
  /\ client \in {NotAsked, GivenUp} \cup Clients
  /\ gone \in BOOLEAN
  /\ ClientInv
  /\ CheckedInv
  /\ OwnPaymentIsUnderstood

LEMMA PayingIsAClient ==
  ASSUME client \in {NotAsked, GivenUp} \cup Clients
  PROVE  Paying <=> client \in Clients
<1>1. ~(NotAsked.phase \in Phases) /\ ~(GivenUp.phase \in Phases)
  BY DEF NotAsked, GivenUp, Phases
<1>2. \A c \in Clients : c.phase \in Phases
  BY DEF Clients, Phases
<1> QED BY <1>1, <1>2 DEF Paying

\* The account a client's payment is signed for is the one its key signs.
LEMMA SignsForIsSigning ==
  ASSUME client \in Clients, SignsFor(client.key, client.master) # NoAddress
  PROVE  /\ SigningAccount(Tx(client).from, Tx(client).session) = SignsFor(client.key, client.master)
         /\ SignsFor(client.key, client.master) = AddressOf[client.key]
         /\ Tx(client).from \in Masters /\ Tx(client).session \in Sessions \cup {NoAddress}
<1>0. /\ client.key \in Keys /\ client.master \in Masters \cup {NoAddress}
      /\ AddressOf[client.key] \in Accounts /\ NoAddress \notin Accounts
  BY AccountsAssumption DEF Clients
<1>1. CASE client.master = NoAddress
  <2>1. AddressOf[client.key] \in Masters /\ SignsFor(client.key, client.master) = AddressOf[client.key]
    BY <1>1 DEF SignsFor
  <2>2. Tx(client).from = AddressOf[client.key] /\ Tx(client).session = NoAddress
    BY <1>1 DEF Tx
  <2> QED BY <2>1, <2>2 DEF SigningAccount
<1>2. CASE client.master # NoAddress
  <2>1. /\ AddressOf[client.key] \in Sessions
        /\ SignsFor(client.key, client.master) = SigningAccount(client.master, AddressOf[client.key])
    BY <1>2 DEF SignsFor
  <2>2. Tx(client).from = client.master /\ Tx(client).session = AddressOf[client.key]
    BY <1>2 DEF Tx
  <2>3. SigningAccount(client.master, AddressOf[client.key]) = AddressOf[client.key]
    BY <1>0, <2>1 DEF SigningAccount
  <2> QED BY <1>0, <1>2, <2>1, <2>2, <2>3
<1> QED BY <1>1, <1>2

\* What a signed payment is to the facilitator.
LEMMA SignedTx ==
  ASSUME PurchaseInv, Signed
  PROVE  /\ client \in Clients /\ client.offer \in Offers
         /\ Tx(client) \in Transactions
         /\ OwnTx(Tx(client))
         /\ Tx(client).chain = client.offer.network /\ Tx(client).sequence = client.sequence
         /\ Pays(Tx(client), client.offer)
<1>1. client \in Clients /\ Paying
  BY PayingIsAClient DEF PurchaseInv, Signed, Paying, Phases
<1>2. /\ Signable(client.offer) /\ SignsFor(client.key, client.master) # NoAddress
      /\ client.sequence \in Nat
  BY <1>1 DEF PurchaseInv, ClientInv, Signed, AccountRead
<1>3. client.offer \in Offers /\ client.key \in Keys
  BY <1>1, ClientAssumption DEF Clients
<1>4. /\ Price(client.offer) \in Seq(Coins)
      /\ Price(client.offer) = <<[denom |-> client.offer.asset, amount |-> Value[client.offer.amount]]>>
      /\ Decoded[client.offer.payTo] = client.offer.payTo /\ client.offer.payTo \in Payees
      /\ Bound(client.offer) \in {""} \cup Memos
      /\ client.offer.network \in Chains
  BY <1>2, <1>3, SignablePrice
<1>5. /\ SigningAccount(Tx(client).from, Tx(client).session) = AddressOf[client.key]
      /\ AddressOf[client.key] # NoAddress
      /\ Tx(client).from \in Masters /\ Tx(client).session \in Sessions \cup {NoAddress}
  BY <1>1, <1>2, SignsForIsSigning
<1>6. /\ Tx(client).shape = "payment" /\ Tx(client).to = client.offer.payTo
      /\ Tx(client).coins = Price(client.offer) /\ Tx(client).memo = Bound(client.offer)
      /\ Tx(client).key = client.key /\ Tx(client).signer = client.key
      /\ Tx(client).chain = client.offer.network /\ Tx(client).sequence = client.sequence
  BY <1>4 DEF Tx
<1>7. Tx(client) \in Transactions
  BY <1>2, <1>3, <1>4, <1>5, <1>6 DEF Tx, Transactions
<1>8. OwnTx(Tx(client))
  BY <1>5, <1>6 DEF OwnTx
<1>9. Price(client.offer) # <<>>
  BY <1>2, OneIsNotEmpty DEF Signable, PlainPrice
<1>10. client.offer.memo \in Memos => Bound(client.offer) = client.offer.memo
  BY OffersAssumption DEF Bound, Unset
<1>11. Pays(Tx(client), client.offer)
  BY <1>6, <1>9, <1>10 DEF Pays
<1> QED BY <1>1, <1>3, <1>6, <1>7, <1>8, <1>11

\* A seller's scheme lists what a client signs for.
LEMMA SignableIsListed ==
  ASSUME NEW o \in Offers, Signable(o)
  PROVE  Listed(o)
<1>1. Len(Price(o)) = 1 /\ Price(o)[1].amount = Value[o.amount] /\ o.amount \in DOMAIN Value
  BY SignablePrice DEF Signable, PlainPrice
<1>2. Value[o.amount] > 0
  BY <1>1, OffersAssumption
<1> QED BY <1>1, <1>2 DEF Signable, Listed, CheckPayable, CheckMemo

\* And one spent is consumed, at an account that stands right after it.
LEMMA SignedIsConsumed ==
  ASSUME NEW tx \in Transactions, NEW seq \in Nat, seq > 0,
         SignedByPayer(tx, seq - 1), tx.key = tx.signer
  PROVE  SignatureState(tx, SigningAccount(tx.from, tx.session), seq) = "consumed"
<1> DEFINE a == SigningAccount(tx.from, tx.session)
           stored == StoredKey(a, seq)
<1>1. a \in Accounts /\ AddressOf[tx.signer] = a
  BY SigningAccounts DEF SignedByPayer
<1>2. OwnerOf(a) = tx.signer /\ tx.signer \in Keys /\ tx.signer # NoKey
  <2>1. tx.signer \in Keys
    BY DEF Transactions
  <2>2. OwnerOf(a) \in Keys /\ AddressOf[OwnerOf(a)] = a
    BY <1>1, Owners
  <2>3. \A k1, k2 \in Keys : AddressOf[k1] = AddressOf[k2] => k1 = k2
    BY AccountsAssumption
  <2>4. OwnerOf(a) = tx.signer
    BY <1>1, <2>1, <2>2, <2>3
  <2> QED BY <2>1, <2>4, AccountsAssumption
<1>3. SigningKey(tx, stored) = tx.signer
  BY <1>2 DEF SigningKey, StoredKey
<1>4. Verifies(tx, SigningKey(tx, stored), seq - 1) /\ ~Verifies(tx, SigningKey(tx, stored), seq)
  BY <1>2, <1>3 DEF Verifies, SignedByPayer
<1> QED BY <1>4 DEF SignatureState

-----------------------------------------------------------------------------
(* Purchase: the steps of the client *)

LEMMA PurchaseInvInit == Init => PurchaseInv
<1> SUFFICES ASSUME Init PROVE PurchaseInv
  OBVIOUS
<1>1. CheckInv
  BY CheckInvInit DEF Init
<1>2. check = NoCheck /\ client = NotAsked /\ gone = FALSE
  BY DEF Init, VerificationInit
<1>3. CheckedInv /\ OwnPaymentIsUnderstood
  BY <1>2 DEF CheckedInv, OwnPaymentIsUnderstood, Refused
<1>4. ClientInv
  BY <1>2 DEF ClientInv, Paying, Phases, NotAsked
<1> QED BY <1>1, <1>2, <1>3, <1>4 DEF PurchaseInv

\* The check does not see what its client does.
LEMMA CheckKept ==
  ASSUME PurchaseInv, UNCHANGED <<sequence, check>>
  PROVE  CheckInv' /\ CheckedInv' /\ OwnPaymentIsUnderstood'
<1>1. CheckInv'
  BY CheckInvNext DEF PurchaseInv
<1>2. CheckedInv' /\ OwnPaymentIsUnderstood'
  BY DEF PurchaseInv, CheckedInv, OwnPaymentIsUnderstood, Refused
<1> QED BY <1>1, <1>2

LEMMA GivingUpKeepsInv ==
  ASSUME PurchaseInv, GiveUp
  PROVE  PurchaseInv'
<1>1. client' = GivenUp /\ UNCHANGED <<sequence, check, gone>>
  BY DEF GiveUp, Step
<1>2. CheckInv' /\ CheckedInv' /\ OwnPaymentIsUnderstood'
  BY <1>1, CheckKept
<1>3. ClientInv'
  BY <1>1 DEF ClientInv, Paying, Phases, GivenUp
<1> QED BY <1>1, <1>2, <1>3 DEF PurchaseInv

\* A step of a client on its way, which establishes what its new phase needs.
LEMMA ClientStepKeepsInv ==
  ASSUME PurchaseInv, NEW c \in Clients, Step(c),
         Signable(c.offer), WithinCap(c.offer, c.cap),
         c.phase # "chain" => ServesTheOffers(c),
         c.phase \notin {"chain", "gas price"} =>
           Affordable(c.price) /\ c.price \in GasPrices,
         c.phase \in {"prepared", "signing", "signed"} =>
           LET a == SignsFor(c.key, c.master) IN
           /\ a # NoAddress
           /\ c.sequence \in Nat
           /\ c.node = Chain => c.sequence <= sequence[a],
         c.abandoned => gone,
         c.phase \in {"signing", "signed"} => ~c.abandoned
  PROVE  PurchaseInv'
<1>1. client' = c /\ UNCHANGED <<sequence, check, gone>>
  BY DEF Step
<1>2. CheckInv' /\ CheckedInv' /\ OwnPaymentIsUnderstood'
  BY <1>1, CheckKept
<1>3. ClientInv'
  BY <1>1 DEF ClientInv, AccountRead, ServesTheOffers
<1> QED BY <1>1, <1>2, <1>3 DEF PurchaseInv

LEMMA AskKeepsInv ==
  ASSUME PurchaseInv, NEW o \in Asked, NEW cap \in Caps, NEW key \in Keys,
         NEW master \in Masters \cup {NoAddress}, NEW node \in Chains,
         Ask(o, cap, key, master, node)
  PROVE  PurchaseInv'
<1> DEFINE c == [phase |-> "chain", offer |-> o, cap |-> cap, key |-> key,
                 master |-> master, node |-> node, price |-> NoPrice,
                 sequence |-> NoAccount, abandoned |-> FALSE]
<1>1. CASE Signable(o) /\ WithinCap(o, cap)
  <2>1. Step(c)
    BY <1>1 DEF Ask
  <2>2. c \in Clients
    BY AccountsAssumption DEF Clients, NoAccount
  <2>3. c.phase = "chain" /\ c.offer = o /\ c.cap = cap /\ c.abandoned = FALSE
    OBVIOUS
  <2> HIDE DEF c
  <2> QED BY <1>1, <2>1, <2>2, <2>3, ClientStepKeepsInv
<1>2. CASE ~(Signable(o) /\ WithinCap(o, cap))
  <2>1. GiveUp
    BY <1>2 DEF Ask
  <2> QED BY <2>1, GivingUpKeepsInv
<1> QED BY <1>1, <1>2

\* A step of a client on its way finds one, with what it has established.
LEMMA OnItsWay ==
  ASSUME PurchaseInv, client.phase \in Phases
  PROVE  /\ client \in Clients
         /\ client = [phase |-> client.phase, offer |-> client.offer, cap |-> client.cap,
                      key |-> client.key, master |-> client.master, node |-> client.node,
                      price |-> client.price, sequence |-> client.sequence,
                      abandoned |-> client.abandoned]
         /\ Signable(client.offer) /\ WithinCap(client.offer, client.cap)
<1>1. client \in Clients
  BY PayingIsAClient DEF PurchaseInv, Paying
<1>2. Signable(client.offer) /\ WithinCap(client.offer, client.cap)
  BY DEF PurchaseInv, ClientInv, Paying
<1> QED BY <1>1, <1>2 DEF Clients

LEMMA ReadChainIDKeepsInv ==
  ASSUME PurchaseInv, ReadChainID
  PROVE  PurchaseInv'
<1>1. client \in Clients /\ Signable(client.offer) /\ WithinCap(client.offer, client.cap)
  BY OnItsWay DEF ReadChainID, Phases
<1>2. CASE ServesTheOffers(client)
  <2> DEFINE c == [client EXCEPT !.phase = "gas price"]
  <2>1. Step(c)
    BY <1>2 DEF ReadChainID
  <2>2. /\ c \in Clients
        /\ c.phase = "gas price" /\ c.offer = client.offer /\ c.cap = client.cap
        /\ c.node = client.node /\ c.abandoned = client.abandoned
    BY <1>1 DEF Clients
  <2>3. client.abandoned => gone
    BY DEF PurchaseInv, ClientInv, Paying, Phases, ReadChainID
  <2> HIDE DEF c
  <2>4. ServesTheOffers(c)
    BY <1>2, <2>2 DEF ServesTheOffers
  <2> QED BY <1>1, <2>1, <2>2, <2>3, <2>4, ClientStepKeepsInv
<1>3. CASE ~ServesTheOffers(client)
  BY <1>3, GivingUpKeepsInv DEF ReadChainID
<1> QED BY <1>2, <1>3

LEMMA ReadGasPriceKeepsInv ==
  ASSUME PurchaseInv, ReadGasPrice
  PROVE  PurchaseInv'
<1>1. client \in Clients /\ Signable(client.offer) /\ WithinCap(client.offer, client.cap)
  BY OnItsWay DEF ReadGasPrice, Phases
<1>2. PICK price \in GasPrices :
        IF Affordable(price)
          THEN Step([client EXCEPT !.phase = "account", !.price = price])
          ELSE GiveUp
  BY DEF ReadGasPrice
<1>3. CASE Affordable(price)
  <2> DEFINE c == [client EXCEPT !.phase = "account", !.price = price]
  <2>1. Step(c)
    BY <1>2, <1>3
  <2>2. /\ c \in Clients
        /\ c.phase = "account" /\ c.offer = client.offer /\ c.cap = client.cap
        /\ c.node = client.node /\ c.price = price /\ c.abandoned = client.abandoned
    BY <1>1 DEF Clients
  <2>3. (client.abandoned => gone) /\ ServesTheOffers(client)
    BY DEF PurchaseInv, ClientInv, Paying, Phases, ReadGasPrice
  <2> HIDE DEF c
  <2>4. ServesTheOffers(c)
    BY <2>2, <2>3 DEF ServesTheOffers
  <2> QED BY <1>1, <1>3, <2>1, <2>2, <2>3, <2>4, ClientStepKeepsInv
<1>4. CASE ~Affordable(price)
  BY <1>2, <1>4, GivingUpKeepsInv
<1> QED BY <1>3, <1>4

LEMMA ReadAccountKeepsInv ==
  ASSUME PurchaseInv, ReadAccount
  PROVE  PurchaseInv'
<1> DEFINE a == SignsFor(client.key, client.master)
<1>1. client \in Clients /\ Signable(client.offer) /\ WithinCap(client.offer, client.cap)
  BY OnItsWay DEF ReadAccount, Phases
<1>2. PICK seq \in NodeAnswers(client, a) :
        IF seq = NoAccount THEN GiveUp
        ELSE Step([client EXCEPT !.phase = "prepared", !.sequence = seq, !.abandoned = gone])
  BY DEF ReadAccount
<1>3. CASE seq = NoAccount
  BY <1>2, <1>3, GivingUpKeepsInv
<1>4. CASE seq # NoAccount
  <2> DEFINE c == [client EXCEPT !.phase = "prepared", !.sequence = seq, !.abandoned = gone]
  <2>1. Step(c)
    BY <1>2, <1>4
  <2>2. a \in Accounts \cup {NoAddress}
    BY <1>1, AccountsAssumption DEF SignsFor, SigningAccount, Accounts, Clients
  <2>3. /\ a # NoAddress /\ seq \in Nat /\ seq \in NoAccount .. MaxSequence
        /\ client.node = Chain => seq <= sequence[a]
    <3>0. CheckTypeOK /\ MaxSequence \in Nat
      BY AccountsAssumption DEF PurchaseInv, CheckInv
    <3> HIDE DEF a
    <3>1. CASE client.node = Chain
      <4>1. seq \in Answers(a)
        BY <1>2, <3>1 DEF NodeAnswers
      <4>2. seq \in Nat /\ a \in Accounts /\ seq <= sequence[a]
        BY <1>4, <2>2, <3>0, <4>1, AnswerTypes
      <4>3. sequence[a] \in NoAccount .. MaxSequence
        BY <3>0, <4>2 DEF CheckTypeOK
      <4> QED BY <3>0, <4>2, <4>3, AccountsAssumption DEF NoAccount
    <3>2. CASE client.node # Chain
      <4>1. a # NoAddress /\ seq \in NoAccount .. MaxSequence
        BY <1>2, <1>4, <3>2 DEF NodeAnswers
      <4> QED BY <1>4, <3>0, <3>2, <4>1 DEF NoAccount
    <3> QED BY <3>1, <3>2
  <2>4. /\ (client.abandoned => gone) /\ ServesTheOffers(client)
        /\ Affordable(client.price) /\ client.price \in GasPrices
    BY DEF PurchaseInv, ClientInv, Paying, Phases, ReadAccount
  <2>5. gone \in BOOLEAN
    BY DEF PurchaseInv
  <2>6. /\ c \in Clients
        /\ c.phase = "prepared" /\ c.offer = client.offer /\ c.cap = client.cap
        /\ c.node = client.node /\ c.price = client.price /\ c.abandoned = gone
        /\ c.key = client.key /\ c.master = client.master /\ c.sequence = seq
    BY <1>1, <2>3, <2>5 DEF Clients
  <2> HIDE DEF c
  <2>7. ServesTheOffers(c)
    BY <2>4, <2>6 DEF ServesTheOffers
  <2> QED BY <1>1, <2>1, <2>3, <2>4, <2>6, <2>7, ClientStepKeepsInv
<1> QED BY <1>3, <1>4

\* From an account read to a signature, only the phase changes.
LEMMA AdvanceKeepsInv ==
  ASSUME PurchaseInv, client.phase \in {"prepared", "signing"}, NEW next \in {"signing", "signed"},
         ~client.abandoned, Step([client EXCEPT !.phase = next])
  PROVE  PurchaseInv'
<1> DEFINE c == [client EXCEPT !.phase = next]
<1>1. client \in Clients /\ Signable(client.offer) /\ WithinCap(client.offer, client.cap)
  BY OnItsWay DEF Phases
<1>2. /\ ServesTheOffers(client) /\ AccountRead
      /\ Affordable(client.price) /\ client.price \in GasPrices
  BY DEF PurchaseInv, ClientInv, Paying, Phases
<1>3. /\ c \in Clients
      /\ c.phase = next /\ c.offer = client.offer /\ c.cap = client.cap
      /\ c.node = client.node /\ c.price = client.price /\ c.abandoned = client.abandoned
      /\ c.key = client.key /\ c.master = client.master /\ c.sequence = client.sequence
  BY <1>1 DEF Clients
<1>4. Step(c)
  OBVIOUS
<1> HIDE DEF c
<1>5. ServesTheOffers(c)
  BY <1>2, <1>3 DEF ServesTheOffers
<1> QED BY <1>1, <1>2, <1>3, <1>4, <1>5, ClientStepKeepsInv DEF AccountRead

LEMMA LookKeepsInv ==
  ASSUME PurchaseInv, Look
  PROVE  PurchaseInv'
<1>1. CASE CallerWaits
  <2>1. ~client.abandoned
    BY <1>1 DEF CallerWaits, PurchaseInv, ClientInv, Paying, Phases, Look
  <2> QED BY <1>1, <2>1, AdvanceKeepsInv DEF Look
<1>2. CASE ~CallerWaits
  BY <1>2, GivingUpKeepsInv DEF Look
<1> QED BY <1>1, <1>2

LEMMA SignKeepsInv ==
  ASSUME PurchaseInv, Sign
  PROVE  PurchaseInv'
<1>1. ~client.abandoned
  BY DEF PurchaseInv, ClientInv, Paying, Phases, Sign
<1> QED BY <1>1, AdvanceKeepsInv DEF Sign

LEMMA LeaveKeepsInv ==
  ASSUME PurchaseInv, Leave
  PROVE  PurchaseInv'
<1>1. gone' = TRUE /\ UNCHANGED <<sequence, check, client>>
  BY DEF Leave
<1>2. CheckInv' /\ CheckedInv' /\ OwnPaymentIsUnderstood'
  BY <1>1, CheckKept
<1>3. ClientInv'
  BY <1>1 DEF PurchaseInv, ClientInv, Paying, AccountRead, ServesTheOffers
<1> QED BY <1>1, <1>2, <1>3 DEF PurchaseInv

LEMMA PayerKeepsInv ==
  ASSUME PurchaseInv, Payer
  PROVE  PurchaseInv'
<1>1. CASE \E o \in Asked, cap \in Caps, key \in Keys, master \in Masters \cup {NoAddress}, node \in Chains :
             Ask(o, cap, key, master, node)
  BY <1>1, AskKeepsInv
<1>2. CASE ReadFails \/ SignatureFails
  BY <1>2, GivingUpKeepsInv DEF ReadFails, SignatureFails
<1> QED BY <1>1, <1>2, ReadChainIDKeepsInv, ReadGasPriceKeepsInv, ReadAccountKeepsInv,
           LookKeepsInv, SignKeepsInv, LeaveKeepsInv DEF Payer

-----------------------------------------------------------------------------
(* Purchase: the steps of the facilitator *)

\* The client's part of the invariant, while its accounts only move forward.
LEMMA ClientKept ==
  ASSUME PurchaseInv, UNCHANGED <<client, gone>>,
         \A a \in Accounts : sequence[a] <= sequence'[a],
         sequence' \in [Accounts -> NoAccount .. MaxSequence]
  PROVE  /\ client' \in {NotAsked, GivenUp} \cup Clients /\ gone' \in BOOLEAN
         /\ ClientInv'
<1>1. ASSUME client.phase \in {"prepared", "signing", "signed"}
      PROVE  LET a == SignsFor(client.key, client.master) IN
             /\ a # NoAddress /\ client.sequence \in Nat
             /\ client.node = Chain => client.sequence <= sequence'[a]
  <2> DEFINE a == SignsFor(client.key, client.master)
  <2>1. client \in Clients
    BY <1>1, OnItsWay DEF Phases
  <2>2. /\ a # NoAddress /\ client.sequence \in Nat
        /\ client.node = Chain => client.sequence <= sequence[a]
    BY <1>1 DEF PurchaseInv, ClientInv, Paying, Phases, AccountRead
  <2>3. a \in Accounts
    BY <2>1, <2>2, AccountsAssumption DEF SignsFor, SigningAccount, Accounts, Clients
  <2>4. sequence[a] \in Int /\ sequence'[a] \in Int
    BY <2>3, AccountsAssumption DEF PurchaseInv, CheckInv, CheckTypeOK, NoAccount
  <2>5. sequence[a] <= sequence'[a]
    BY <2>3
  <2> HIDE DEF a
  <2>6. client.node = Chain => client.sequence <= sequence'[a]
    BY <2>2, <2>4, <2>5
  <2> QED BY <2>2, <2>6 DEF a
<1>2. client' = client /\ gone' = gone
  OBVIOUS
<1>3. ASSUME Paying' PROVE ClientInv'
  <2>1. Paying
    BY <1>2, <1>3 DEF Paying
  <2>2. /\ Signable(client.offer) /\ WithinCap(client.offer, client.cap)
        /\ client.phase # "chain" => ServesTheOffers(client)
        /\ client.phase \notin {"chain", "gas price"} =>
             Affordable(client.price) /\ client.price \in GasPrices
        /\ client.abandoned => gone
        /\ client.phase \in {"signing", "signed"} => ~client.abandoned
    BY <2>1 DEF PurchaseInv, ClientInv
  <2>3. (client.phase \in {"prepared", "signing", "signed"} => AccountRead)'
    BY <1>1, <1>2 DEF AccountRead
  <2>4. (Signable(client.offer) /\ WithinCap(client.offer, client.cap))'
    BY <1>2, <2>2
  <2>5. (client.phase # "chain" => ServesTheOffers(client))'
    BY <1>2, <2>2 DEF ServesTheOffers
  <2>6. (client.phase \notin {"chain", "gas price"} =>
             Affordable(client.price) /\ client.price \in GasPrices)'
    BY <1>2, <2>2
  <2>7. (client.abandoned => gone)'
    <3>1. client.abandoned => gone
      BY <2>2
    <3>2. gone \in BOOLEAN
      BY DEF PurchaseInv
    <3> QED BY <1>2, <3>1, <3>2, SMT
  <2>8. (client.phase \in {"signing", "signed"} => ~client.abandoned)'
    BY <1>2, <2>2
  <2> QED BY <2>3, <2>4, <2>5, <2>6, <2>7, <2>8 DEF ClientInv
<1>4. ClientInv'
  BY <1>3 DEF ClientInv
<1> QED BY <1>2, <1>4 DEF PurchaseInv

LEMMA SequencesStay ==
  ASSUME PurchaseInv, sequence' = sequence
  PROVE  /\ \A a \in Accounts : sequence[a] <= sequence'[a]
         /\ sequence' \in [Accounts -> NoAccount .. MaxSequence]
<1>1. sequence \in [Accounts -> NoAccount .. MaxSequence]
  BY DEF PurchaseInv, CheckInv, CheckTypeOK
<1>2. \A a \in Accounts : sequence[a] \in Int
  BY <1>1, AccountsAssumption DEF NoAccount
<1> QED BY <1>1, <1>2

LEMMA ChainKeepsPurchase ==
  ASSUME PurchaseInv, ChainMoves, UNCHANGED <<client, gone>>
  PROVE  PurchaseInv'
<1>1. /\ \A a \in Accounts : sequence[a] <= sequence'[a]
      /\ sequence' \in [Accounts -> NoAccount .. MaxSequence]
      /\ check' = check
  BY SequencesGrow DEF PurchaseInv, CheckInv
<1>2. CheckInv'
  BY ChainKeepsInv DEF PurchaseInv
<1>3. CheckedInv' /\ OwnPaymentIsUnderstood'
  BY <1>1 DEF PurchaseInv, CheckedInv, OwnPaymentIsUnderstood, Refused
<1> QED BY <1>1, <1>2, <1>3, ClientKept DEF PurchaseInv

\* A client's payment passes the rules that need no chain.
LEMMA PayKeepsInv ==
  ASSUME PurchaseInv, Pay, UNCHANGED <<client, gone>>
  PROVE  PurchaseInv'
<1> DEFINE o == client.offer
           tx == Tx(client)
           payload == [accepted |-> o, tx |-> tx]
           reason == OfflineReason(Chain, payload, o)
<1>1. Signed /\ CheckOffline(payload, o)
  BY DEF Pay, Signed
<1>2. /\ o \in Offers /\ tx \in Transactions /\ OwnTx(tx)
      /\ tx.chain = o.network /\ Pays(tx, o)
  BY <1>1, SignedTx
<1>3. Listed(o)
  BY <1>1, <1>2, SignableIsListed DEF PurchaseInv, ClientInv, Signed, Paying, Phases
<1>4. payload \in Payloads /\ payload.accepted = o /\ payload.tx = tx
  BY <1>2 DEF Payloads
<1>5. /\ sequence' = sequence
      /\ check' = [phase   |-> IF reason = "" THEN "account" ELSE "done",
                   verdict |-> IF reason = "" THEN "none" ELSE "refused",
                   reason  |-> reason,
                   payer   |-> NoAddress,
                   read    |-> NoAccount,
                   offer   |-> o,
                   payload |-> payload]
  BY <1>1 DEF CheckOffline
<1> HIDE DEF o, tx, payload
<1>6. CheckInv'
  BY <1>1, <1>2, <1>4, OfflineKeepsInv DEF PurchaseInv
<1>7. o.network = Chain => reason = ""
  BY <1>2, <1>3, <1>4, ListedPassesOffline
<1>8. /\ check'.payload = payload /\ check'.offer = o
      /\ check'.verdict = (IF reason = "" THEN "none" ELSE "refused")
  BY <1>5
<1>9. CheckedInv'
  BY <1>2, <1>4, <1>7, <1>8 DEF CheckedInv
<1>10. OwnPaymentIsUnderstood'
  BY <1>7, <1>8 DEF OwnPaymentIsUnderstood, Refused
<1> QED BY <1>5, <1>6, <1>9, <1>10, ClientKept, SequencesStay DEF PurchaseInv

\* A step of a check under way changes neither what is checked nor its offer.
LEMMA CheckedStays ==
  ASSUME PurchaseInv, check # NoCheck,
         check'.payload = check.payload, check'.offer = check.offer
  PROVE  CheckedInv'
BY DEF PurchaseInv, CheckedInv

\* How a node's answer relates to what a client signed, by the state it finds.
LEMMA WhatStatesMean ==
  ASSUME NEW tx \in Transactions, OwnTx(tx), tx.chain = Chain, NEW seq \in Nat,
         SignatureState(tx, SigningAccount(tx.from, tx.session), seq) # "fresh"
  PROVE  IF SignatureState(tx, SigningAccount(tx.from, tx.session), seq) = "consumed"
           THEN seq = tx.sequence + 1
           ELSE seq < tx.sequence \/ seq > tx.sequence + 1
<1> DEFINE state == SignatureState(tx, SigningAccount(tx.from, tx.session), seq)
<1>1. tx.sequence \in Nat /\ tx.key = tx.signer
  BY DEF Transactions, OwnTx
<1>2. SignedByPayer(tx, tx.sequence)
  BY DEF SignedByPayer, OwnTx
<1>3. seq # tx.sequence
  BY <1>1, <1>2, SignedIsFresh
<1>4. CASE state = "consumed"
  <2>1. SignedByPayer(tx, seq - 1)
    BY <1>4, StateMeans DEF OwnTx
  <2>2. tx.sequence = seq - 1
    BY <2>1 DEF SignedByPayer
  <2> HIDE DEF state
  <2> QED BY <1>1, <1>4, <2>2 DEF state
<1>5. CASE state # "consumed"
  <2>1. seq # tx.sequence + 1
    <3> SUFFICES ASSUME seq = tx.sequence + 1 PROVE FALSE
      OBVIOUS
    <3>1. seq > 0 /\ seq - 1 = tx.sequence
      BY <1>1
    <3> QED BY <1>1, <1>2, <1>5, <3>1, SignedIsConsumed
  <2>2. seq < tx.sequence \/ seq > tx.sequence + 1
    BY <1>1, <1>3, <2>1
  <2> QED BY <1>5, <2>2
<1> QED BY <1>4, <1>5

LEMMA ReadKeepsPurchase ==
  ASSUME PurchaseInv, ReadSigner, UNCHANGED <<client, gone>>
  PROVE  PurchaseInv'
<1> DEFINE tx == check.payload.tx
           a  == SigningAccount(tx.from, tx.session)
<1>1. /\ check \in Checks /\ check # NoCheck /\ tx \in Transactions
      /\ CheckInv /\ sequence' = sequence
  BY UnderWay DEF PurchaseInv, CheckInv, ReadSigner
<1>2. OwnTx(tx) /\ tx.chain = check.offer.network
  BY <1>1 DEF PurchaseInv, CheckedInv
<1>3. PICK seq \in Answers(a) :
        LET state == IF seq = NoAccount THEN "none" ELSE SignatureState(tx, a, seq)
        IN IF state = "fresh"
           THEN check' = [check EXCEPT !.phase = "simulation", !.read = seq]
           ELSE Conclude("refused",
                  CASE state = "none"         -> "transaction_simulation_failed"
                    [] state = "consumed"     -> "sequence_mismatch"
                    [] state = "unverifiable" -> "signature_invalid",
                  ProvenPayer(tx, state), seq)
  BY DEF ReadSigner
<1> DEFINE state == IF seq = NoAccount THEN "none" ELSE SignatureState(tx, a, seq)
<1>4. state \in {"none", "fresh", "consumed", "unverifiable"}
      /\ (state = "none" => seq = NoAccount)
      /\ (state # "none" => seq # NoAccount /\ state = SignatureState(tx, a, seq))
  BY States
<1>5. seq \in Nat \cup {NoAccount}
  <2>1. a \in Accounts \cup {NoAddress}
    BY <1>1, AccountsAssumption DEF SigningAccount, Accounts, Transactions
  <2> QED BY <1>1, <2>1, AnswerTypes DEF CheckInv
<1>6. check.offer.network = Chain /\ state \in {"consumed", "unverifiable"} =>
        IF state = "consumed" THEN seq = tx.sequence + 1
        ELSE seq < tx.sequence \/ seq > tx.sequence + 1
  BY <1>1, <1>2, <1>4, <1>5, WhatStatesMean
<1>7. CheckInv'
  BY <1>1, ReadKeepsInv
<1> HIDE DEF state
<1>8. CASE state = "fresh"
  <2>1. check' = [check EXCEPT !.phase = "simulation", !.read = seq]
    BY <1>3, <1>8 DEF state
  <2>2. /\ check'.payload = check.payload /\ check'.offer = check.offer
        /\ check'.verdict = check.verdict
    BY <1>1, <2>1 DEF Checks
  <2>3. check.verdict = "none"
    BY <1>1 DEF CheckInv, UnderWayIsSound, ReadSigner
  <2>4. CheckedInv' /\ OwnPaymentIsUnderstood'
    BY <1>1, <2>2, <2>3, CheckedStays DEF OwnPaymentIsUnderstood, Refused
  <2> QED BY <1>1, <1>7, <2>4, ClientKept, SequencesStay DEF PurchaseInv
<1>9. CASE state # "fresh"
  <2> DEFINE reason == CASE state = "none"         -> "transaction_simulation_failed"
                         [] state = "consumed"     -> "sequence_mismatch"
                         [] state = "unverifiable" -> "signature_invalid"
             payer == ProvenPayer(tx, state)
  <2>1. Conclude("refused", reason, payer, seq)
    BY <1>3, <1>9 DEF state
  <2>2. \/ state = "none" /\ reason = "transaction_simulation_failed"
        \/ state = "consumed" /\ reason = "sequence_mismatch"
        \/ state = "unverifiable" /\ reason = "signature_invalid"
    BY <1>4, <1>9
  <2> HIDE DEF reason, payer
  <2>3. check' = [phase |-> "done", verdict |-> "refused", reason |-> reason,
                  payer |-> payer, read |-> seq,
                  offer |-> check.offer, payload |-> check.payload]
    BY <1>1, <2>1, Concluded
  <2>4. /\ check'.payload = check.payload /\ check'.offer = check.offer
        /\ check'.reason = reason /\ check'.read = seq
    BY <2>3
  <2>5. CheckedInv'
    BY <1>1, <2>4, CheckedStays
  <2>6. OwnPaymentIsUnderstood'
    BY <1>6, <2>2, <2>4 DEF OwnPaymentIsUnderstood
  <2> QED BY <1>1, <1>7, <2>5, <2>6, ClientKept, SequencesStay DEF PurchaseInv
<1> QED BY <1>8, <1>9

\* A call that fails refuses nothing, and a simulation refuses for itself.
LEMMA LastCallKeepsPurchase ==
  ASSUME PurchaseInv, CallFails \/ Simulate, UNCHANGED <<client, gone>>
  PROVE  PurchaseInv'
<1>1. /\ check \in Checks /\ check # NoCheck
      /\ CheckInv /\ sequence' = sequence
  BY UnderWay DEF PurchaseInv, CheckInv, CallFails, Simulate
<1>2. PICK verdict \in {"accepted", "refused", "no_verdict"} :
        \E reason \in {"", "transaction_simulation_failed"} :
          /\ verdict = "refused" => reason = "transaction_simulation_failed"
          /\ Conclude(verdict, reason, check.payload.tx.from, check.read)
  BY DEF CallFails, Simulate
<1>3. PICK reason \in {"", "transaction_simulation_failed"} :
        /\ verdict = "refused" => reason = "transaction_simulation_failed"
        /\ Conclude(verdict, reason, check.payload.tx.from, check.read)
  BY <1>2
<1>4. check' = [phase |-> "done", verdict |-> verdict, reason |-> reason,
                payer |-> check.payload.tx.from, read |-> check.read,
                offer |-> check.offer, payload |-> check.payload]
  BY <1>1, <1>3, Concluded
<1>5. /\ check'.payload = check.payload /\ check'.offer = check.offer
      /\ check'.reason = reason /\ check'.verdict = verdict
  BY <1>4
<1>6. CheckInv'
  BY <1>1, FailureKeepsInv, SimulationKeepsInv
<1>7. CheckedInv'
  BY <1>1, <1>5, CheckedStays
<1>8. OwnPaymentIsUnderstood'
  BY <1>3, <1>5 DEF OwnPaymentIsUnderstood, Refused
<1> QED BY <1>1, <1>6, <1>7, <1>8, ClientKept, SequencesStay DEF PurchaseInv

LEMMA PurchaseInvNext == PurchaseInv /\ [Next]_vars => PurchaseInv'
<1> SUFFICES ASSUME PurchaseInv, [Next]_vars PROVE PurchaseInv'
  OBVIOUS
<1>1. CASE UNCHANGED vars
  <2>1. UNCHANGED <<sequence, check>> /\ UNCHANGED <<client, gone>>
    BY <1>1 DEF vars
  <2> QED BY <2>1, CheckKept, ClientKept, SequencesStay DEF PurchaseInv
<1>2. CASE Payer
  BY <1>2, PayerKeepsInv
<1>3. CASE (Pay \/ CheckOnChain \/ ChainMoves) /\ UNCHANGED <<client, gone>>
  BY <1>3, PayKeepsInv, ReadKeepsPurchase, LastCallKeepsPurchase, ChainKeepsPurchase
     DEF CheckOnChain
<1> QED BY <1>1, <1>2, <1>3 DEF Next

\* The strengthening that the theorems below rest on.
THEOREM PurchaseInvariant == Spec => []PurchaseInv
BY PurchaseInvInit, PurchaseInvNext, PTL DEF Spec

-----------------------------------------------------------------------------
(* Purchase: the theorems *)

\* Every reachable state of a client and of the check of its payment is well typed.
THEOREM TypeCorrect == Spec => []TypeOK
<1>1. PurchaseInv => TypeOK
  BY DEF PurchaseInv, CheckInv, TypeOK
<1> QED BY <1>1, PurchaseInvariant, PTL

\* A client signs for the amount and the asset its caller was shown, within the cap
\* (readTerms and the spend controls), whatever an offer writes and however the coin
\* parse reads it.
THEOREM SignsWhatWasShown == Spec => []PaysWhatWasShown
<1>1. PurchaseInv => PaysWhatWasShown
  <2> SUFFICES ASSUME PurchaseInv, Signed PROVE PaysWhatWasShown
    BY DEF PaysWhatWasShown
  <2>1. Signable(client.offer) /\ WithinCap(client.offer, client.cap)
    BY DEF PurchaseInv, ClientInv, Signed, Paying, Phases
  <2>2. client.offer \in Offers
    BY SignedTx
  <2>3. /\ client.offer.asset \in Denominations
        /\ Price(client.offer) = <<[denom |-> client.offer.asset, amount |-> Value[client.offer.amount]]>>
        /\ Price(client.offer)[1].amount = Value[client.offer.amount]
    BY <2>1, <2>2, SignablePrice
  <2>4. Tx(client).coins = Price(client.offer)
    BY DEF Tx
  <2> QED BY <2>1, <2>3, <2>4 DEF PaysWhatWasShown, WithinCap
<1> QED BY <1>1, PurchaseInvariant, PTL

\* The fee a client signs covers the price it read and a unit more of it, for any
\* price a node reports and any gas a payment reserves.
THEOREM FeeHoldsForABlock == Spec => []FeeCoversTheNextBlock
<1>1. PurchaseInv => FeeCoversTheNextBlock
  BY FeeHolds DEF PurchaseInv, ClientInv, Signed, Paying, Phases, FeeCoversTheNextBlock
<1> QED BY <1>1, PurchaseInvariant, PTL

\* A payment whose caller gave up before the look at the context is not signed.
THEOREM GivenUpIsNotSigned == Spec => []AbandonedNotSigned
<1>1. PurchaseInv => AbandonedNotSigned
  BY DEF PurchaseInv, ClientInv, Signed, Paying, Phases, AbandonedNotSigned
<1> QED BY <1>1, PurchaseInvariant, PTL

\* A payment that names the facilitator's chain is signed over that chain's account.
THEOREM SignsOverItsChain == Spec => []SignedOverItsChain
<1>1. PurchaseInv => SignedOverItsChain
  <2> SUFFICES ASSUME PurchaseInv, Signed, Tx(client).chain = Chain PROVE SignedOverItsChain
    BY DEF SignedOverItsChain
  <2>1. client \in Clients /\ Tx(client).chain = client.offer.network /\ Tx(client).sequence = client.sequence
    BY SignedTx
  <2>2. ServesTheOffers(client) /\ AccountRead
    BY DEF PurchaseInv, ClientInv, Signed, Paying, Phases
  <2>3. client.node = Chain
    BY <2>1, <2>2 DEF ServesTheOffers
  <2>4. SigningAccount(Tx(client).from, Tx(client).session) = SignsFor(client.key, client.master)
    BY <2>1, <2>2, SignsForIsSigning DEF AccountRead
  <2> QED BY <2>1, <2>2, <2>3, <2>4 DEF SignedOverItsChain, AccountRead
<1> QED BY <1>1, PurchaseInvariant, PTL

\* The facilitator refuses a client's payment for no rule of its own, and the reason
\* it gives of the signature tells where the account stood.
THEOREM RefusalsAreUnderstood == Spec => []OwnPaymentIsUnderstood
<1>1. PurchaseInv => OwnPaymentIsUnderstood
  BY DEF PurchaseInv
<1> QED BY <1>1, PurchaseInvariant, PTL

=============================================================================
