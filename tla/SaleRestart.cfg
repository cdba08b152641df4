\* A visitor with three payments to sign; the facilitator may restart.
SPECIFICATION SaleSpec
CONSTANTS
  p1 = p1
  p2 = p2
  p3 = p3
  t1 = t1
  s1 = s1
  s2 = s2
  s3 = s3
  f1 = f1
  f2 = f2
  r1 = r1
  r2 = r2
  r3 = r3
  Payments = {p1, p2, p3}
  Sequences = {s1, s2}
  Spends <- SaleSpendsSeen
  Before <- SaleBefore
  Nodes = {n1}
  Laggards = {}
  Restarting = {}
  TTL = 1
  Facilitators = {f1}
  Endpoint <- OneNode
  Requests = {r1, r2}
  Serves <- OneProcess
  Presented = {p1, p2, p3}
  NoPayment = NoPayment
  MayPanic = FALSE
  Handlers = {h1, h2}
  PagePayments = {p1, p2, p3}
  Tab = tab
  NoRequest = NoRequest
  NoHandler = NoHandler
  Faults = {"restart"}
SYMMETRY RivalSymmetry
INVARIANT OnePaymentPerReading
CHECK_DEADLOCK FALSE
