\* One process behind a load-balanced RPC: n2 lags, n1 restarts. p2 spends p1's
\* sequence; both are presented.
SPECIFICATION Spec
CONSTANTS
  Payments = {p1, p2}
  Sequences = {s1}
  Spends <- OneSequence
  Nodes = {n1, n2}
  Laggards = {n2}
  Restarting = {n1}
  TTL = 2
  Facilitators = {f1}
  Endpoint <- Balanced
  Requests = {r1, r2, r3}
  Serves <- AllServedByOne
  Presented = {p1, p2}
  NoPayment = NoPayment
  MayPanic = FALSE
SYMMETRY RequestSymmetry
INVARIANTS
  TypeOK
  RecordHasGrounds
  NotBroadcastAgain
PROPERTIES
  SettledOnce
  KeepsPromise
  HashlessDuplicateMeansFirstSettle
CHECK_DEADLOCK FALSE
