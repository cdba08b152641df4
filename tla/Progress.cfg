\* One process whose payment may leave every mempool and whose settles may panic,
\* while the payment keeps being presented.
SPECIFICATION FairSpec
CONSTANTS
  Payments = {p1, p2}
  Sequences = {s1}
  Spends <- OneSequence
  Nodes = {n1}
  Laggards = {}
  Restarting = {n1}
  TTL = 2
  Facilitators = {f1}
  Endpoint <- Balanced
  Requests = {r1, r2}
  Serves <- AllServedByOne
  Presented = {p1}
  NoPayment = NoPayment
  MayPanic = TRUE
PROPERTIES
  ClaimsEnd
  PendingEnds
CHECK_DEADLOCK FALSE
