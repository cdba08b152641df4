\* A copy is presented while the first settle waits for its delivery.
SPECIFICATION Spec
CONSTANTS
  Payments = {p1, p2}
  Sequences = {s1}
  Spends <- OneSequence
  Nodes = {n1, n2}
  Laggards = {n2}
  Restarting = {n1}
  TTL = 2
  Facilitators = {f1}
  Endpoint <- Balanced
  Requests = {r1, r2}
  Serves <- AllServedByOne
  Presented = {p1}
  NoPayment = NoPayment
  MayPanic = FALSE
PROPERTY DuplicateCarriesHash
CHECK_DEADLOCK FALSE
