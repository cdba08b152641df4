\* One payment, which a browser may send again, in two handlers at once, settled by
\* either of two processes that may restart or panic, through one node.
SPECIFICATION SaleSpec
CONSTANTS
  p1 = p1
  p2 = p2
  p3 = p3
  t1 = t1
  s1 = s1
  s2 = s2
  s3 = s3
  f1 = f1
  f2 = f2
  r1 = r1
  r2 = r2
  r3 = r3
  Payments = {p1}
  Sequences = {s1}
  Spends <- SaleSpendsSeen
  Before <- SaleBefore
  Nodes = {n1}
  Laggards = {}
  Restarting = {}
  TTL = 1
  Facilitators = {f1, f2}
  Endpoint <- OneNode
  Requests = {r1, r2, r3}
  Serves <- TwoProcesses
  Presented = {p1}
  NoPayment = NoPayment
  MayPanic = TRUE
  Handlers = {h1, h2}
  PagePayments = {p1}
  Tab = tab
  NoRequest = NoRequest
  NoHandler = NoHandler
  Faults = {"restart", "resend", "reload"}
SYMMETRY ReplicaSymmetry
INVARIANTS
  ClaimIsHeld
  OneReadingPerPayment
PROPERTY SettledOnceEver
CHECK_DEADLOCK FALSE
