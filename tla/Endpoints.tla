----------------------------- MODULE Endpoints -----------------------------
(***************************************************************************)
(* The facilitator's HTTP layer (facilitator/facilitator.go): what a request *)
(* to /verify or /settle is answered, from its body to the words of the       *)
(* answer. The engine it dispatches through is the x402 SDK's; what the       *)
(* mechanism behind it may conclude is what Verification and Facilitator      *)
(* show it to.                                                               *)
(***************************************************************************)

CONSTANTS
  Rules,    \* the reasons a check may refuse a payment for
  Payer,    \* the payer a signature proved
  Hash,     \* the hash a node admitted the payment under
  Nothing   \* an empty reason, payer or hash

\* No rule of a check is a code of the engine's, and none is about the network:
\* the server registers its mechanism for the one network that mechanism serves.
ASSUME EndpointsAssumption ==
  LET routing == {"engine: payload", "engine: requirements", "engine: no facilitator",
                  "invalid_network"}
  IN Nothing \notin routing /\ Rules \cap routing = {}

VARIABLES
  request,  \* what was asked
  outcome,  \* what the mechanism concluded, if it was reached
  answer    \* the response

vars == <<request, outcome, answer>>

\* "unreadable" is no JSON of its kind; "unfit" is, but not what the engine parses.
Parts == {"absent", "unreadable", "unfit", "fit"}

Asked == [endpoint : {"verify", "settle"}, body : {"one request", "malformed", "trailing"},
          payload : Parts, version : {"1", "2"}, requirements : Parts,
          scheme : {"exact", "other"}, network : {"served", "other"}]

\* The reasons of the specification, and of the scheme.
Reasons ==
  Rules \cup {"invalid_x402_version", "invalid_payload", "invalid_payment_requirements",
              "unsupported_scheme", "invalid_network", "transaction_failed",
              "settlement_pending", "duplicate_settlement"}

Refusal(reason, payer, hash) ==
  [kind |-> "refused", reason |-> reason, payer |-> payer, hash |-> hash]

Undecided(payer) ==
  [kind |-> "undecided", reason |-> Nothing, payer |-> payer, hash |-> Nothing]

Accepted(hash) == [kind |-> "accepted", reason |-> Nothing, payer |-> Payer, hash |-> hash]

\* What a check comes to when it does not accept, and what Verify and Settle may say.
Checked ==
  {Refusal(r, p, Nothing) : r \in Rules, p \in {Payer, Nothing}}
  \cup {Undecided(p) : p \in {Payer, Nothing}}

Outcomes(endpoint) ==
  IF endpoint = "verify" THEN Checked \cup {Accepted(Nothing)}
  ELSE Checked \cup {Accepted(Hash), Refusal("settlement_pending", Payer, Hash)}
       \cup {Refusal("transaction_failed", Payer, h) : h \in {Hash, Nothing}}
       \cup {Refusal("duplicate_settlement", Nothing, h) : h \in {Hash, Nothing}}

NotReached == [kind |-> "not reached"]

NoAnswer == [status |-> "none"]

Plain(status) == [status |-> status]

\* A 200 that accepts the payment, or refuses it with a reason.
Says(accepts, reason, payer, hash) ==
  [status |-> "200", accepts |-> accepts, reason |-> reason, payer |-> payer, hash |-> hash]

Init ==
  /\ request \in Asked
  /\ outcome = NotReached
  /\ answer = NoAnswer

-----------------------------------------------------------------------------

\* decodeRequest: one JSON value and nothing after it, whose two parts are read if
\* they are there. An absent part decodes as its zero value.
Decodes(q) ==
  /\ q.body = "one request"
  /\ q.payload # "unreadable" /\ q.requirements # "unreadable"

\* The version the payload declares.
Version(q) == IF q.payload = "absent" THEN "0" ELSE q.version

\* The scheme the requirements declare.
Scheme(q) == IF q.requirements = "absent" THEN Nothing ELSE q.scheme

\* The engine's own refusals: it parses both parts, then looks for the mechanism
\* registered for the scheme and the network.
EngineRefuses(q) ==
  IF q.payload # "fit" THEN "engine: payload"
  ELSE IF q.requirements # "fit" THEN "engine: requirements"
  ELSE IF q.scheme # "exact" \/ q.network # "served" THEN "engine: no facilitator"
  ELSE Nothing

\* specReason: an engine's code in the specification's words; a mechanism's as it is.
\* The engine's refusal of a version is left out: the server has refused every version
\* but its own before the engine is asked.
SpecReason(code, q) ==
  CASE code = "engine: payload" -> "invalid_payload"
    [] code = "engine: requirements" -> "invalid_payment_requirements"
    [] code = "engine: no facilitator" ->
         IF Scheme(q) # "exact" THEN "unsupported_scheme" ELSE "invalid_network"
    [] OTHER -> code

\* Variant: only an aborted payment's answer names its transaction.
WithHashIfFailed == {"transaction_failed", "duplicate_settlement"}

\* The settle refusals that are answered with their hash; the others have none.
WithHash == {"transaction_failed", "settlement_pending", "duplicate_settlement"}

\* Variant: what could not be checked is answered as refused.
UndecidedRefused(q, out) ==
  IF out.kind = "accepted" THEN Says(TRUE, Nothing, out.payer, out.hash)
  ELSE Says(FALSE, out.reason, out.payer, out.hash)

\* answerVerifyError, answerSettleError and the answers of an accepted payment.
Answered(q, out) ==
  CASE out.kind = "undecided" -> Plain("503")
    [] out.kind = "accepted" -> Says(TRUE, Nothing, out.payer, out.hash)
    [] OTHER ->
         LET reason == SpecReason(out.reason, q)
         IN Says(FALSE, reason, out.payer, IF reason \in WithHash THEN out.hash ELSE Nothing)

Reply(a) ==
  /\ answer = NoAnswer
  /\ answer' = a
  /\ UNCHANGED <<request, outcome>>

\* throttled: the peer has no token left.
TurnAway == Reply(Plain("429"))

RefuseBody == ~Decodes(request) /\ Reply(Plain("400"))

\* The transport refuses a version the engine would route elsewhere.
RefuseVersion ==
  /\ Decodes(request)
  /\ Version(request) # "2"
  /\ Reply(Says(FALSE, "invalid_x402_version", Nothing, Nothing))

RefuseByEngine ==
  /\ Decodes(request)
  /\ Version(request) = "2"
  /\ EngineRefuses(request) # Nothing
  /\ Reply(Answered(request, Refusal(EngineRefuses(request), Nothing, Nothing)))

\* The answer timeout, over whatever the handler does.
TimeOut == Reply(Plain("503"))

\* The mechanism concludes, and its conclusion is answered.
Decide ==
  /\ answer = NoAnswer
  /\ Decodes(request)
  /\ Version(request) = "2"
  /\ EngineRefuses(request) = Nothing
  /\ outcome' \in Outcomes(request.endpoint)
  /\ answer' = Answered(request, outcome')
  /\ UNCHANGED request

Next ==
  TurnAway \/ RefuseBody \/ RefuseVersion \/ RefuseByEngine \/ TimeOut \/ Decide

Spec == Init /\ [][Next]_vars

-----------------------------------------------------------------------------

Said == answer.status = "200"

(***************************************************************************)
(* A 200 states what was established: that the payment is accepted, by the   *)
(* mechanism; or that it is refused, by it or by a request that asks for      *)
(* nothing it serves, in the words of the specification or of the scheme, an  *)
(* unserved scheme not being named as an unserved network (specReason).  What *)
(* could not be checked is no verdict (rejectNoVerdict).                     *)
(***************************************************************************)
VerdictsAreEstablished ==
  Said =>
    /\ outcome.kind # "undecided"
    /\ answer.accepts <=> outcome.kind = "accepted"
    /\ outcome = NotReached =>
         request.version = "1" \/ request.scheme = "other" \/ request.network = "other"
           \/ {request.payload, request.requirements} # {"fit"}
    /\ answer.reason \in Reasons \cup {Nothing}
    /\ answer.reason = "invalid_network" => request.scheme = "exact" /\ request.network = "other"

(***************************************************************************)
(* A payment a node admitted is looked up by its hash, by the seller's SDK    *)
(* to settle it again and by the payer: every answer about one carries it     *)
(* (answerSettleError).                                                      *)
(***************************************************************************)
HashReported == Said /\ outcome # NotReached => answer.hash = outcome.hash

=============================================================================
