-------------------------- MODULE EndpointsProofs --------------------------
(***************************************************************************)
(* Theorems about Endpoints, for any rules of a check.                       *)
(***************************************************************************)
EXTENDS Endpoints, TLAPS

\* A handler answers once, so nothing is concluded while it has yet to.
EndpointsInv ==
  /\ request \in Asked
  /\ answer = NoAnswer => outcome = NotReached
  /\ VerdictsAreEstablished
  /\ HashReported

\* What is asked next to a 200, of which a throttled peer, a body that does not
\* decode and a timeout are none.
LEMMA Unanswered == NoAnswer.status = "none" /\ NotReached.kind = "not reached"
BY DEF NoAnswer, NotReached

LEMMA OthersSayNothing ==
  ASSUME NEW status \in {"429", "400", "503"}, answer' = Plain(status)
  PROVE  ~Said' /\ answer' # NoAnswer
BY DEF Plain, Said, NoAnswer

\* A code of the engine is answered in the specification's words, with no hash, and
\* only for a request that asks for nothing it serves.
LEMMA EngineIsNamed ==
  ASSUME request \in Asked, EngineRefuses(request) # Nothing
  PROVE  LET a == Answered(request, Refusal(EngineRefuses(request), Nothing, Nothing))
             reason == SpecReason(EngineRefuses(request), request)
         IN /\ a = Says(FALSE, reason, Nothing, Nothing)
            /\ reason \in Reasons
            /\ \/ request.scheme = "other" \/ request.network = "other"
               \/ {request.payload, request.requirements} # {"fit"}
            /\ reason = "invalid_network" => request.scheme = "exact" /\ request.network = "other"
<1> DEFINE code == EngineRefuses(request)
<1>1. /\ request.scheme \in {"exact", "other"} /\ request.network \in {"served", "other"}
      /\ request.payload \in Parts /\ request.requirements \in Parts
  BY DEF Asked
<1>2. CASE code = "engine: payload"
  <2>1. request.payload # "fit"
    BY <1>2, EndpointsAssumption DEF EngineRefuses
  <2>2. SpecReason(code, request) = "invalid_payload"
    BY <1>2 DEF SpecReason
  <2> QED BY <2>1, <2>2 DEF Answered, Refusal, WithHash, Reasons
<1>3. CASE code = "engine: requirements"
  <2>1. request.requirements # "fit"
    BY <1>3, EndpointsAssumption DEF EngineRefuses
  <2>2. SpecReason(code, request) = "invalid_payment_requirements"
    BY <1>3 DEF SpecReason
  <2> QED BY <2>1, <2>2 DEF Answered, Refusal, WithHash, Reasons
<1>4. CASE code = "engine: no facilitator"
  <2>1. request.requirements = "fit" /\ (request.scheme = "other" \/ request.network = "other")
    BY <1>1, <1>4, EndpointsAssumption DEF EngineRefuses
  <2>2. Scheme(request) = request.scheme
    BY <2>1 DEF Scheme
  <2>3. SpecReason(code, request) =
          IF request.scheme # "exact" THEN "unsupported_scheme" ELSE "invalid_network"
    BY <1>4, <2>2 DEF SpecReason
  <2> QED BY <1>1, <2>1, <2>3 DEF Answered, Refusal, WithHash, Reasons
<1> QED BY <1>2, <1>3, <1>4 DEF EngineRefuses

\* What the mechanism may conclude. Only a refusal that names a transaction has a hash.
LEMMA Conclusions ==
  ASSUME NEW endpoint, NEW out \in Outcomes(endpoint)
  PROVE  \/ \E p : out = Undecided(p)
         \/ \E h : out = Accepted(h)
         \/ \E r \in Rules : \E p : out = Refusal(r, p, Nothing)
         \/ \E r \in WithHash : \E p, h : out = Refusal(r, p, h)
BY DEF Outcomes, Checked, WithHash

\* What the mechanism concluded, out, is what the answer a says of the payment.
Kept(out, a) ==
  \/ out.kind = "undecided" /\ a = Plain("503")
  \/ out.kind = "accepted" /\ \E p, h : out.hash = h /\ a = Says(TRUE, Nothing, p, h)
  \/ /\ out.kind = "refused"
     /\ \E r \in Reasons \ {"invalid_network"} : \E p, h :
           out.hash = h /\ a = Says(FALSE, r, p, h)

\* A conclusion keeps its kind, its words and its hash.
LEMMA ConclusionsAreKept ==
  ASSUME NEW endpoint, NEW out \in Outcomes(endpoint)
  PROVE  Kept(out, Answered(request, out))
<1> DEFINE a == Answered(request, out)
<1> USE DEF Kept
<1>1. CASE \E p : out = Undecided(p)
  BY <1>1 DEF Undecided, Answered
<1>2. CASE \E h : out = Accepted(h)
  <2>1. PICK h : out = Accepted(h)
    BY <1>2
  <2>2. out.kind = "accepted" /\ out.payer = Payer /\ out.hash = h
    BY <2>1 DEF Accepted
  <2>3. a = Says(TRUE, Nothing, Payer, h)
    BY <2>2 DEF Answered
  <2> QED BY <2>2, <2>3
<1>3. ASSUME NEW r \in Rules \cup WithHash, NEW p, NEW h, out = Refusal(r, p, h),
             r \notin WithHash => h = Nothing
      PROVE  /\ out.kind = "refused" /\ out.hash = h /\ r \in Reasons \ {"invalid_network"}
             /\ a = Says(FALSE, r, p, h)
  <2>1. /\ r \notin {"engine: payload", "engine: requirements", "engine: no facilitator"}
        /\ r \in Reasons \ {"invalid_network"}
    BY EndpointsAssumption DEF WithHash, Reasons
  <2>2. SpecReason(r, request) = r
    BY <2>1 DEF SpecReason
  <2>3. out.kind = "refused" /\ out.reason = r /\ out.payer = p /\ out.hash = h
    BY <1>3 DEF Refusal
  <2> QED BY <1>3, <2>1, <2>2, <2>3 DEF Answered
<1>4. CASE \E r \in Rules : \E p : out = Refusal(r, p, Nothing)
  <2>1. PICK r \in Rules : \E p : out = Refusal(r, p, Nothing)
    BY <1>4
  <2> QED BY <1>3, <2>1
<1>5. CASE \E r \in WithHash : \E p, h : out = Refusal(r, p, h)
  <2>1. PICK r \in WithHash : \E p, h : out = Refusal(r, p, h)
    BY <1>5
  <2> QED BY <1>3, <2>1
<1> QED BY <1>1, <1>2, <1>4, <1>5, Conclusions

LEMMA EndpointsStep == EndpointsInv /\ [Next]_vars => EndpointsInv'
<1> SUFFICES ASSUME EndpointsInv, [Next]_vars PROVE EndpointsInv'
  OBVIOUS
<1> USE DEF EndpointsInv
<1>1. CASE TurnAway
  BY <1>1, OthersSayNothing DEF TurnAway, Reply, VerdictsAreEstablished, HashReported
<1>2. CASE RefuseBody
  BY <1>2, OthersSayNothing DEF RefuseBody, Reply, VerdictsAreEstablished, HashReported
<1>3. CASE RefuseVersion
  <2>1. /\ request' = request /\ outcome' = NotReached
        /\ answer' = Says(FALSE, "invalid_x402_version", Nothing, Nothing)
    BY <1>3 DEF RefuseVersion, Reply
  <2>2. request.version = "1" \/ {request.payload, request.requirements} # {"fit"}
    BY <1>3 DEF RefuseVersion, Version, Asked
  <2> QED BY <2>1, <2>2
          DEF Says, Said, NotReached, NoAnswer, Reasons, VerdictsAreEstablished, HashReported
<1>4. CASE RefuseByEngine
  <2> DEFINE reason == SpecReason(EngineRefuses(request), request)
  <2>1. /\ request' = request /\ outcome' = NotReached
        /\ answer' = Answered(request, Refusal(EngineRefuses(request), Nothing, Nothing))
        /\ EngineRefuses(request) # Nothing
    BY <1>4 DEF RefuseByEngine, Reply
  <2>2. /\ answer' = Says(FALSE, reason, Nothing, Nothing)
        /\ reason \in Reasons
        /\ \/ request.scheme = "other" \/ request.network = "other"
           \/ {request.payload, request.requirements} # {"fit"}
        /\ reason = "invalid_network" => request.scheme = "exact" /\ request.network = "other"
    BY <2>1, EngineIsNamed
  <2> HIDE DEF reason
  <2>3. answer'.accepts = FALSE /\ answer'.reason = reason /\ answer'.status = "200"
    BY <2>2 DEF Says
  <2>4. answer' # NoAnswer /\ outcome'.kind = "not reached" /\ request' \in Asked
    BY <2>1, <2>3, Unanswered
  <2> QED BY <2>1, <2>2, <2>3, <2>4 DEF VerdictsAreEstablished, HashReported
<1>5. CASE TimeOut
  BY <1>5, OthersSayNothing DEF TimeOut, Reply, VerdictsAreEstablished, HashReported
<1>6. CASE Decide
  <2>1. /\ request' = request /\ outcome' \in Outcomes(request.endpoint)
        /\ answer' = Answered(request, outcome') /\ EngineRefuses(request) = Nothing
    BY <1>6 DEF Decide
  <2>2. request' \in Asked
    BY <2>1
  <2>3. CASE outcome'.kind = "undecided" /\ answer' = Plain("503")
    BY <2>2, <2>3, OthersSayNothing DEF VerdictsAreEstablished, HashReported
  <2>4. ASSUME outcome'.kind = "accepted",
               NEW p, NEW h, outcome'.hash = h, answer' = Says(TRUE, Nothing, p, h)
        PROVE  EndpointsInv'
    <3>1. /\ answer'.accepts = TRUE /\ answer'.reason = Nothing /\ answer'.hash = h
          /\ answer'.status = "200"
      BY <2>4 DEF Says
    <3>2. answer' # NoAnswer /\ outcome' # NotReached
      BY <2>4, <3>1, Unanswered
    <3> QED BY <2>2, <2>4, <3>1, <3>2, EndpointsAssumption
            DEF VerdictsAreEstablished, HashReported
  <2>5. ASSUME outcome'.kind = "refused",
               NEW r \in Reasons \ {"invalid_network"}, NEW p, NEW h,
               outcome'.hash = h, answer' = Says(FALSE, r, p, h)
        PROVE  EndpointsInv'
    <3>1. /\ answer'.accepts = FALSE /\ answer'.reason = r /\ answer'.hash = h
          /\ answer'.status = "200"
      BY <2>5 DEF Says
    <3>2. answer' # NoAnswer /\ outcome' # NotReached
      BY <2>5, <3>1, Unanswered
    <3> QED BY <2>2, <2>5, <3>1, <3>2 DEF VerdictsAreEstablished, HashReported
  <2>6. Kept(outcome', answer')
    <3>1. PICK out \in Outcomes(request.endpoint) :
             outcome' = out /\ answer' = Answered(request, out)
      BY <2>1
    <3> QED BY <3>1, ConclusionsAreKept
  <2> QED BY <2>3, <2>4, <2>5, <2>6 DEF Kept
<1>7. CASE UNCHANGED vars
  BY <1>7 DEF vars, Said, VerdictsAreEstablished, HashReported
<1> QED BY <1>1, <1>2, <1>3, <1>4, <1>5, <1>6, <1>7 DEF Next

LEMMA EndpointsInvariant == Spec => []EndpointsInv
<1>1. Init => EndpointsInv
  BY DEF Init, EndpointsInv, Said, NoAnswer, VerdictsAreEstablished, HashReported
<1> QED BY <1>1, EndpointsStep, PTL DEF Spec

\* A 200 accepts what the mechanism accepted and refuses what it or the engine
\* refused, by a reason of the specification's or the scheme's, whatever rules a
\* check has; what could not be checked, and an unserved scheme, is never answered as
\* something else (answerVerifyError, answerSettleError, specReason).
THEOREM VerdictsEstablished == Spec => []VerdictsAreEstablished
<1>1. EndpointsInv => VerdictsAreEstablished
  BY DEF EndpointsInv
<1> QED BY <1>1, EndpointsInvariant, PTL

\* No answer about a payment the mechanism looked at loses the hash it was told of
\* (answerSettleError).
THEOREM HashIsReported == Spec => []HashReported
<1>1. EndpointsInv => HashReported
  BY DEF EndpointsInv
<1> QED BY <1>1, EndpointsInvariant, PTL

=============================================================================
