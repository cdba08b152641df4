----------------------------- MODULE RateLimiter -----------------------------
(***************************************************************************)
(* The per-peer throttle of facilitator/ratelimit.go: a table of token       *)
(* buckets under one mutex, capped, and swept of the buckets that have       *)
(* refilled. Time is a number of ticks on the clock cfg.Now gives, which may *)
(* step backwards; a bucket's tokens are counted in units, of which one      *)
(* refills in a tick and a request costs Cost.                               *)
(***************************************************************************)
EXTENDS Integers, FiniteSets

CONSTANTS
  Peers,          \* the keys peerAddress throttles by
  Burst,          \* a bucket's capacity, in units
  Cost,           \* the units of one token
  SweepInterval,  \* sweepInterval, in ticks
  MaxBuckets,     \* the table's ceiling
  MaxTime         \* a bound: the ticks a behaviour may take

ASSUME LimiterAssumption ==
  /\ Burst \in Nat /\ Cost \in Nat /\ 0 < Cost /\ Cost <= Burst
  /\ SweepInterval \in Nat /\ 0 < SweepInterval
  /\ MaxBuckets \in Nat /\ 0 < MaxBuckets
  /\ MaxTime \in Nat

VARIABLES
  now,        \* the clock
  buckets,    \* the table: a bucket for each peer it holds
  lastSweep,  \* when the table was last swept
  answer,     \* what the last step answered, if it was a request
  granted,    \* history: how many requests of each peer were granted
  elapsed,    \* history: how many ticks the clock has gone forwards
  steady      \* history: whether the clock has only gone forwards

vars == <<now, buckets, lastSweep, answer, granted, elapsed, steady>>

NoAnswer == [kind |-> "none"]

Answer(k, kind) == [peer |-> k, kind |-> kind]

Bucket == [tokens : 0..Burst, last : Nat]

Capped(units) == IF units > Burst THEN Burst ELSE units

\* lastSweep starts as Go's zero time, an interval and more before any clock.
Init ==
  /\ now = 0
  /\ buckets = [k \in {} |-> {}]
  /\ lastSweep = -SweepInterval
  /\ answer = NoAnswer
  /\ granted = [k \in Peers |-> 0]
  /\ elapsed = 0
  /\ steady = TRUE

-----------------------------------------------------------------------------
(* The sweep every request begins with *)

Held == DOMAIN buckets

\* Variant: a sweep that does not look at the ceiling.
DueOnInterval == now - lastSweep >= SweepInterval \/ now < lastSweep

\* Variant: a trigger left in the future when the clock steps back.
DueSteadily == now - lastSweep >= SweepInterval \/ Cardinality(Held) >= MaxBuckets

Due ==
  \/ now - lastSweep >= SweepInterval
  \/ now < lastSweep
  \/ Cardinality(Held) >= MaxBuckets

\* Variant: a bucket one token short of full is forgotten.
RefilledButOne(b) == b.tokens + (now - b.last) + Cost >= Burst

\* The buckets a sweep forgets.
Refilled(b) == b.tokens + (now - b.last) >= Burst

Kept == IF Due THEN {k \in Held : ~Refilled(buckets[k])} ELSE Held

LastSweep == IF Due THEN now ELSE lastSweep

-----------------------------------------------------------------------------
(* A request *)

\* Variant: a bucket dated in the future is measured like any other.
TokensSinceAnyDate(k) ==
  IF k \notin Kept THEN Burst ELSE Capped(buckets[k].tokens + (now - buckets[k].last))

\* The tokens of k's bucket now. One dated in the future is given no refill.
Tokens(k) ==
  IF k \notin Kept THEN Burst
  ELSE IF now < buckets[k].last THEN buckets[k].tokens
  ELSE Capped(buckets[k].tokens + (now - buckets[k].last))

\* Variant: a bucket measured again keeps the instant it was first measured at.
StoreUndated(k, tokens) ==
  [q \in Kept \cup {k} |->
    IF q # k THEN buckets[q]
    ELSE [tokens |-> tokens, last |-> IF k \in Kept THEN buckets[k].last ELSE now]]

\* The table after the sweep, with k's bucket measured now.
Store(k, tokens) ==
  [q \in Kept \cup {k} |-> IF q = k THEN [tokens |-> tokens, last |-> now] ELSE buckets[q]]

\* Variant: room counted without the bucket about to be stored.
NoRoomPast(k) == k \notin Kept /\ Cardinality(Kept) > MaxBuckets

\* A peer not held finds the swept table at its ceiling.
NoRoom(k) == k \notin Kept /\ Cardinality(Kept) >= MaxBuckets

TurnAway(k) ==
  /\ NoRoom(k)
  /\ buckets' = [q \in Kept |-> buckets[q]]
  /\ lastSweep' = LastSweep
  /\ answer' = Answer(k, "turned_away")
  /\ UNCHANGED <<now, granted, elapsed, steady>>

Grant(k) ==
  /\ ~NoRoom(k)
  /\ Tokens(k) >= Cost
  /\ buckets' = Store(k, Tokens(k) - Cost)
  /\ lastSweep' = LastSweep
  /\ answer' = Answer(k, "granted")
  /\ granted' = [granted EXCEPT ![k] = @ + 1]
  /\ UNCHANGED <<now, elapsed, steady>>

Refuse(k) ==
  /\ ~NoRoom(k)
  /\ Tokens(k) < Cost
  /\ buckets' = Store(k, Tokens(k))
  /\ lastSweep' = LastSweep
  /\ answer' = Answer(k, "refused")
  /\ UNCHANGED <<now, granted, elapsed, steady>>

\* allow, on a request of peer k.
Allow(k) == TurnAway(k) \/ Grant(k) \/ Refuse(k)

-----------------------------------------------------------------------------
(* The clock *)

Tick ==
  /\ elapsed < MaxTime
  /\ now' = now + 1
  /\ elapsed' = elapsed + 1
  /\ answer' = NoAnswer
  /\ UNCHANGED <<buckets, lastSweep, granted, steady>>

StepBack ==
  /\ now' \in 0 .. now - 1
  /\ answer' = NoAnswer
  /\ steady' = FALSE
  /\ UNCHANGED <<buckets, lastSweep, granted, elapsed>>

Next ==
  \/ Tick \/ StepBack
  \/ \E k \in Peers : Allow(k)

Spec == Init /\ [][Next]_vars

-----------------------------------------------------------------------------
(* Properties *)

\* The types of the table, the clock and the history.
TypeOK ==
  /\ now \in Nat
  /\ Held \subseteq Peers /\ buckets \in [Held -> Bucket]
  /\ lastSweep \in Int
  /\ answer \in {NoAnswer} \cup [peer : Peers, kind : {"granted", "refused", "turned_away"}]
  /\ granted \in [Peers -> Nat]
  /\ elapsed \in Nat
  /\ steady \in BOOLEAN

\* The table never holds more peers than its ceiling (ratelimit.go:31-32), though
\* a request may find it there and store one more bucket.
TableBounded == Cardinality(Held) <= MaxBuckets

\* What peer k may spend now: a peer not held may spend a whole burst.
Credit(k) ==
  IF k \notin Held THEN Burst
  ELSE IF now < buckets[k].last THEN buckets[k].tokens
  ELSE Capped(buckets[k].tokens + (now - buckets[k].last))

\* No peer is granted more than a burst and what time has refilled, however its
\* bucket is swept, re-measured or forgotten at the ceiling (ratelimit.go:133-134).
WithinRate == \A k \in Peers : granted[k] * Cost <= Burst + elapsed

\* Once a request has swept, the table holds only peers seen within the interval
\* and the time a bucket takes to refill (ratelimit.go:20-22), however the clock has
\* stepped: a sweep due by the clock's time before a step back is not put off until
\* that time comes again (ratelimit.go:142-144).
OnlyRecentPeersHeld ==
  answer # NoAnswer =>
    \A k \in Held : now - buckets[k].last < SweepInterval + Burst

\* A peer turned away with credit to spend was not held, and the table is at its
\* ceiling with peers that have all yet to refill (ratelimit.go:37-38): no peer
\* held is crowded out, and no idle one holds a place against a new one.
TurnedAwayOnlyByAFullTable ==
  [][\A k \in Peers :
       answer' = Answer(k, "turned_away") =>
         /\ k \notin Held \/ Refilled(buckets[k])
         /\ Cardinality(Held') = MaxBuckets
         /\ \A q \in Held' : ~Refilled(buckets[q])]_vars

Promise == INSTANCE RatePromise WITH credit <- [k \in Peers |-> Credit(k)]

\* The capped, swept table decides as one bucket per peer that is never forgotten:
\* a sweep grants nothing and takes nothing (ratelimit.go:133-134).
KeepsRatePromise == Promise!PromiseSpec

=============================================================================
