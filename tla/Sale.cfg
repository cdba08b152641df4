\* A visitor who may pay three times, over one sequence or the next, and a terminal
\* buyer under the same visit; two handlers and two settles; nothing restarts.
SPECIFICATION SaleSpec
CONSTANTS
  p1 = p1
  p2 = p2
  p3 = p3
  t1 = t1
  s1 = s1
  s2 = s2
  s3 = s3
  f1 = f1
  f2 = f2
  r1 = r1
  r2 = r2
  r3 = r3
  Payments = {p1, p2, p3, t1}
  Sequences = {s1, s2, s3}
  Spends <- SaleSpendsSeen
  Before <- SaleBefore
  Nodes = {n1}
  Laggards = {}
  Restarting = {}
  TTL = 1
  Facilitators = {f1}
  Endpoint <- OneNode
  Requests = {r1, r2}
  Serves <- OneProcess
  Presented = {p1, p2, p3, t1}
  NoPayment = NoPayment
  MayPanic = FALSE
  Handlers = {h1, h2}
  PagePayments = {p1, p2, p3}
  Tab = tab
  NoRequest = NoRequest
  NoHandler = NoHandler
  Faults = {}
SYMMETRY RivalSymmetry
INVARIANTS
  RefusedIsNotCharged
  OnePaymentPerReading
  ShownIsPaid
PROPERTIES
  SentStays
  PayingIsAnswered
CHECK_DEADLOCK FALSE
