\* Three peers for a table of two, a burst of a request and a half, and a sweep
\* interval as long as a request takes to refill, so a bucket can be full and not
\* swept.
SPECIFICATION Spec
CONSTANTS
  Peers = {k1, k2, k3}
  Burst = 3
  Cost = 2
  SweepInterval = 2
  MaxBuckets = 2
  MaxTime = 9
SYMMETRY PeerSymmetry
INVARIANTS
  TypeOK
  TableBounded
  WithinRate
  OnlyRecentPeersHeld
PROPERTIES
  TurnedAwayOnlyByAFullTable
  KeepsRatePromise
CHECK_DEADLOCK FALSE
