-------------------------- MODULE RateLimiterProofs --------------------------
(***************************************************************************)
(* Theorems about RateLimiter, for any peers, rates, intervals and ceilings. *)
(***************************************************************************)
EXTENDS RateLimiter, FiniteSetTheorems, TLAPS

USE DEF Answer, NoAnswer, Bucket

-----------------------------------------------------------------------------
(* What a request does to the table *)

LEMMA CappedUnits ==
  ASSUME NEW u \in Nat
  PROVE  /\ Capped(u) \in 0..Burst
         /\ Capped(u) <= u
         /\ Burst <= u => Capped(u) = Burst
         /\ Capped(Capped(u) + 1) = Capped(u + 1)
BY LimiterAssumption DEF Capped

LEMMA CreditUnits ==
  ASSUME TypeOK, NEW k \in Peers
  PROVE  Credit(k) \in 0..Burst
<1>1. CASE k \in Held /\ buckets[k].last <= now
  <2>1. buckets[k] \in Bucket /\ now \in Nat
    BY <1>1 DEF TypeOK
  <2>2. buckets[k].tokens + (now - buckets[k].last) \in Nat
    BY <1>1, <2>1, LimiterAssumption
  <2> QED BY <1>1, <2>1, <2>2, CappedUnits DEF Credit
<1>2. CASE k \in Held /\ now < buckets[k].last
  BY <1>2, LimiterAssumption DEF Credit, TypeOK
<1>3. CASE k \notin Held
  BY <1>3, LimiterAssumption DEF Credit
<1>4. k \in Held => buckets[k].last \in Nat /\ now \in Nat
  BY DEF TypeOK
<1> QED BY <1>1, <1>2, <1>3, <1>4

\* A sweep forgets a bucket only where it decides as a peer not held.
LEMMA SweepGrantsNothing ==
  ASSUME TypeOK, NEW k \in Peers
  PROVE  Tokens(k) = Credit(k)
<1>1. CASE k \in Held /\ k \notin Kept
  <2>1. Refilled(buckets[k])
    BY <1>1 DEF Kept
  <2>2. buckets[k] \in Bucket /\ now \in Nat
    BY <1>1 DEF TypeOK
  <2>3. ~(now < buckets[k].last)
    BY <2>1, <2>2, LimiterAssumption DEF Refilled
  <2>4. buckets[k].tokens + (now - buckets[k].last) \in Nat
    BY <2>2, <2>3, LimiterAssumption
  <2>5. Credit(k) = Burst
    BY <1>1, <2>1, <2>3, <2>4, CappedUnits DEF Credit, Refilled
  <2> QED BY <1>1, <2>5 DEF Tokens
<1>2. CASE k \notin Held
  BY <1>2 DEF Tokens, Credit, Kept
<1>3. CASE k \in Kept
  BY <1>3 DEF Tokens, Credit, Kept
<1> QED BY <1>1, <1>2, <1>3

\* The bucket of a peer not asked about is kept as it was, or swept.
LEMMA OthersKept ==
  ASSUME TypeOK, NEW q \in Peers, UNCHANGED now,
         q \in Held' <=> q \in Kept,
         q \in Kept => buckets'[q] = buckets[q]
  PROVE  Credit(q)' = Credit(q)
<1>1. CASE q \in Kept
  BY <1>1 DEF Credit, Kept
<1>2. CASE q \notin Kept
  <2>1. Credit(q)' = Burst
    BY <1>2 DEF Credit
  <2>2. Tokens(q) = Burst
    BY <1>2 DEF Tokens
  <2> QED BY <2>1, <2>2, SweepGrantsNothing
<1> QED BY <1>1, <1>2

\* The table a request stores.
LEMMA StoreCredit ==
  ASSUME TypeOK, NEW k \in Peers, NEW tokens \in 0..Burst,
         buckets' = Store(k, tokens), UNCHANGED now, NEW q \in Peers
  PROVE  Credit(q)' = IF q = k THEN tokens ELSE Credit(q)
<1>1. Held' = Kept \cup {k}
  BY DEF Store, Held
<1>2. CASE q = k
  <2>1. buckets'[k] = [tokens |-> tokens, last |-> now]
    BY DEF Store
  <2>2. now \in Nat /\ tokens \in Nat /\ tokens <= Burst
    BY LimiterAssumption DEF TypeOK
  <2>3. Capped(tokens + (now - now)) = tokens
    BY <2>2, LimiterAssumption DEF Capped
  <2> QED BY <1>1, <1>2, <2>1, <2>2, <2>3 DEF Credit
<1>3. CASE q # k
  BY <1>1, <1>3, OthersKept DEF Store
<1> QED BY <1>2, <1>3

LEMMA GrantCredit ==
  ASSUME TypeOK, NEW k \in Peers, Grant(k)
  PROVE  /\ Credit(k) >= Cost
         /\ \A q \in Peers : Credit(q)' = IF q = k THEN Credit(k) - Cost ELSE Credit(q)
<1>1. Tokens(k) = Credit(k) /\ Credit(k) \in 0..Burst /\ Credit(k) >= Cost
  BY SweepGrantsNothing, CreditUnits DEF Grant
<1>2. Credit(k) - Cost \in 0..Burst
  BY <1>1, LimiterAssumption
<1>3. buckets' = Store(k, Credit(k) - Cost) /\ UNCHANGED now
  BY <1>1 DEF Grant
<1> QED BY <1>1, <1>2, <1>3, StoreCredit

LEMMA RefuseCredit ==
  ASSUME TypeOK, NEW k \in Peers, Refuse(k)
  PROVE  /\ Credit(k) < Cost
         /\ \A q \in Peers : Credit(q)' = Credit(q)
<1>1. Tokens(k) = Credit(k) /\ Credit(k) \in 0..Burst /\ Credit(k) < Cost
  BY SweepGrantsNothing, CreditUnits DEF Refuse
<1>2. buckets' = Store(k, Credit(k)) /\ UNCHANGED now
  BY <1>1 DEF Refuse
<1> QED BY <1>1, <1>2, StoreCredit

LEMMA TurnAwayCredit ==
  ASSUME TypeOK, NEW k \in Peers, TurnAway(k)
  PROVE  /\ Credit(k) = Burst
         /\ \A q \in Peers : Credit(q)' = Credit(q)
<1>1. Credit(k) = Burst
  BY SweepGrantsNothing DEF TurnAway, NoRoom, Tokens
<1>2. Held' = Kept /\ UNCHANGED now /\ \A q \in Kept : buckets'[q] = buckets[q]
  BY DEF TurnAway, Held
<1> QED BY <1>1, <1>2, OthersKept

-----------------------------------------------------------------------------
(* Types *)

LEMMA StoreType ==
  ASSUME TypeOK, NEW k \in Peers, NEW tokens \in 0..Burst, buckets' = Store(k, tokens)
  PROVE  /\ Held' = Kept \cup {k}
         /\ Held' \subseteq Peers
         /\ buckets' \in [Held' -> Bucket]
<1>1. Kept \subseteq Held /\ Held \subseteq Peers /\ now \in Nat
  BY DEF TypeOK, Kept
<1>2. Held' = Kept \cup {k}
  BY DEF Store, Held
<1>3. \A q \in Kept : buckets[q] \in Bucket
  BY <1>1 DEF TypeOK
<1>4. [tokens |-> tokens, last |-> now] \in Bucket
  BY <1>1
<1>5. buckets' \in [Kept \cup {k} -> Bucket]
  BY <1>3, <1>4 DEF Store
<1> QED BY <1>1, <1>2, <1>5

LEMMA AllowType == ASSUME TypeOK, NEW k \in Peers, Allow(k) PROVE TypeOK'
<1>0. now \in Nat /\ lastSweep \in Int /\ LastSweep \in Int
  BY DEF TypeOK, LastSweep
<1>1. CASE TurnAway(k)
  <2>1. Held' = Kept /\ Kept \subseteq Held
    BY <1>1 DEF TurnAway, Kept, Held
  <2>2. buckets' \in [Kept -> Bucket]
    BY <1>1, <2>1 DEF TurnAway, TypeOK
  <2> QED BY <1>0, <1>1, <2>1, <2>2 DEF TurnAway, TypeOK
<1>2. CASE Grant(k)
  <2>1. Tokens(k) - Cost \in 0..Burst
    BY <1>2, SweepGrantsNothing, CreditUnits, LimiterAssumption DEF Grant
  <2>2. Held' \subseteq Peers /\ buckets' \in [Held' -> Bucket]
    BY <1>2, <2>1, StoreType DEF Grant
  <2> QED BY <1>0, <1>2, <2>2 DEF Grant, TypeOK
<1>3. CASE Refuse(k)
  <2>1. Tokens(k) \in 0..Burst
    BY SweepGrantsNothing, CreditUnits
  <2>2. Held' \subseteq Peers /\ buckets' \in [Held' -> Bucket]
    BY <1>3, <2>1, StoreType DEF Refuse
  <2> QED BY <1>0, <1>3, <2>2 DEF Refuse, TypeOK
<1> QED BY <1>1, <1>2, <1>3 DEF Allow

\* The table, the clock and the history keep their types.
THEOREM TypeCorrect == Spec => []TypeOK
<1>1. Init => TypeOK
  BY LimiterAssumption DEF Init, TypeOK, Held
<1>2. TypeOK /\ [Next]_vars => TypeOK'
  <2> SUFFICES ASSUME TypeOK, [Next]_vars PROVE TypeOK'
    OBVIOUS
  <2>1. ASSUME NEW k \in Peers, Allow(k) PROVE TypeOK'
    BY <2>1, AllowType
  <2>2. CASE Tick
    BY <2>2 DEF Tick, TypeOK, Held
  <2>3. CASE StepBack
    <3>1. now' \in Nat
      BY <2>3 DEF StepBack, TypeOK
    <3> QED BY <2>3, <3>1 DEF StepBack, TypeOK, Held
  <2>4. CASE UNCHANGED vars
    BY <2>4 DEF vars, TypeOK, Held
  <2> QED BY <2>1, <2>2, <2>3, <2>4 DEF Next
<1> QED BY <1>1, <1>2, PTL DEF Spec

-----------------------------------------------------------------------------
(* The ceiling *)

\* The table is finite besides: a cardinality says nothing otherwise.
BoundInv == IsFiniteSet(Held) /\ TableBounded

LEMMA KeptBounded ==
  ASSUME BoundInv
  PROVE  /\ IsFiniteSet(Kept) /\ Kept \subseteq Held
         /\ Cardinality(Kept) \in Nat /\ Cardinality(Kept) <= MaxBuckets
<1>1. Kept \subseteq Held
  BY DEF Kept
<1>2. IsFiniteSet(Kept) /\ Cardinality(Kept) <= Cardinality(Held)
  BY <1>1, FS_Subset DEF BoundInv
<1>3. Cardinality(Kept) \in Nat /\ Cardinality(Held) \in Nat
  BY <1>2, FS_CardinalityType DEF BoundInv
<1> QED BY <1>1, <1>2, <1>3, LimiterAssumption DEF BoundInv, TableBounded

\* A request that is answered from a bucket leaves room for it: its peer was kept,
\* or the table was below its ceiling.
LEMMA StoreBounded ==
  ASSUME BoundInv, NEW k \in Peers, ~NoRoom(k), Held' = Kept \cup {k}
  PROVE  BoundInv'
<1>1. IsFiniteSet(Held')
  BY KeptBounded, FS_AddElement
<1>2. CASE k \in Kept
  <2>1. Held' = Kept
    BY <1>2
  <2> QED BY <1>1, <2>1, KeptBounded DEF BoundInv, TableBounded
<1>3. CASE k \notin Kept
  <2>1. Cardinality(Kept) < MaxBuckets
    BY <1>3, KeptBounded, LimiterAssumption DEF NoRoom
  <2>2. Cardinality(Held') = Cardinality(Kept) + 1
    BY <1>3, KeptBounded, FS_AddElement
  <2> QED BY <1>1, <2>1, <2>2, KeptBounded, LimiterAssumption DEF BoundInv, TableBounded
<1> QED BY <1>2, <1>3

LEMMA BoundInvariant == Spec => []BoundInv
<1>1. Init => BoundInv
  <2> SUFFICES ASSUME Init PROVE BoundInv
    OBVIOUS
  <2>1. Held = {}
    BY DEF Init, Held
  <2> QED BY <2>1, FS_EmptySet, LimiterAssumption DEF BoundInv, TableBounded
<1>2. BoundInv /\ [Next]_vars => BoundInv'
  <2> SUFFICES ASSUME BoundInv, [Next]_vars PROVE BoundInv'
    OBVIOUS
  <2>1. ASSUME NEW k \in Peers, TurnAway(k) PROVE BoundInv'
    <3>1. Held' = Kept
      BY <2>1 DEF TurnAway, Held
    <3> QED BY <3>1, KeptBounded DEF BoundInv, TableBounded
  <2>2. ASSUME NEW k \in Peers, Grant(k) \/ Refuse(k) PROVE BoundInv'
    <3>1. ~NoRoom(k) /\ Held' = Kept \cup {k}
      BY <2>2 DEF Grant, Refuse, Store, Held
    <3> QED BY <3>1, StoreBounded
  <2>3. CASE UNCHANGED buckets
    BY <2>3 DEF BoundInv, TableBounded, Held
  <2> QED BY <2>1, <2>2, <2>3 DEF Next, Allow, Tick, StepBack, vars
<1> QED BY <1>1, <1>2, PTL DEF Spec

\* However many peers ask, the table holds at most MaxBuckets of them.
THEOREM TableIsBounded == Spec => []TableBounded
<1>1. BoundInv => TableBounded
  BY DEF BoundInv
<1> QED BY <1>1, BoundInvariant, PTL

-----------------------------------------------------------------------------
(* Credit over time *)

LEMMA TickCredit ==
  ASSUME TypeOK, Tick, NEW k \in Peers
  PROVE  Credit(k)' = IF k \in Held /\ now < buckets[k].last
                        THEN Credit(k)
                        ELSE Capped(Credit(k) + 1)
<1>1. Held' = Held /\ buckets' = buckets /\ now' = now + 1 /\ now \in Nat
  BY DEF Tick, TypeOK, Held
<1>2. CASE k \notin Held
  <2>1. Capped(Burst + 1) = Burst
    BY LimiterAssumption DEF Capped
  <2> QED BY <1>1, <1>2, <2>1 DEF Credit
<1>3. CASE k \in Held
  <2>1. buckets[k] \in Bucket
    BY <1>3 DEF TypeOK
  <2> DEFINE last == buckets[k].last
             tokens == buckets[k].tokens
  <2>2. last \in Nat /\ tokens \in Nat /\ tokens <= Burst
    BY <2>1, LimiterAssumption
  <2> HIDE DEF last, tokens
  <2>3. CASE now < last
    <3>1. Credit(k) = tokens
      BY <1>3, <2>3 DEF Credit, last, tokens
    <3>2. CASE now' < last
      BY <1>1, <1>3, <2>3, <3>1, <3>2 DEF Credit, last, tokens
    <3>3. CASE ~(now' < last)
      <4>1. now' - last = 0
        BY <1>1, <2>2, <2>3, <3>3
      <4>2. Capped(tokens + 0) = tokens
        BY <2>2, LimiterAssumption DEF Capped
      <4>3. Credit(k)' = Capped(tokens + (now' - last))
        BY <1>1, <1>3, <3>3 DEF Credit, last, tokens
      <4> QED BY <1>3, <2>3, <3>1, <4>1, <4>2, <4>3 DEF last
    <3> QED BY <3>2, <3>3
  <2>4. CASE ~(now < last)
    <3>1. ~(now' < last)
      BY <1>1, <2>2, <2>4
    <3>2. Credit(k) = Capped(tokens + (now - last))
      BY <1>3, <2>4 DEF Credit, last, tokens
    <3>3. Credit(k)' = Capped(tokens + (now' - last))
      BY <1>1, <1>3, <3>1 DEF Credit, last, tokens
    <3>4. /\ tokens + (now - last) \in Nat
          /\ tokens + (now' - last) = (tokens + (now - last)) + 1
      BY <1>1, <2>2, <2>4
    <3>5. Capped(Capped(tokens + (now - last)) + 1) = Capped((tokens + (now - last)) + 1)
      BY <3>4, CappedUnits
    <3> QED BY <1>3, <2>4, <3>2, <3>3, <3>4, <3>5 DEF last
  <2> QED BY <2>3, <2>4
<1> QED BY <1>2, <1>3

LEMMA StepBackCredit ==
  ASSUME TypeOK, StepBack, NEW k \in Peers
  PROVE  Credit(k)' <= Credit(k) /\ Credit(k)' \in 0..Burst
<1>1. Held' = Held /\ buckets' = buckets /\ now' \in Nat /\ now' < now /\ now \in Nat
  BY DEF StepBack, TypeOK, Held
<1>2. CASE k \notin Held
  BY <1>1, <1>2, LimiterAssumption DEF Credit
<1>3. CASE k \in Held
  <2>1. buckets[k] \in Bucket
    BY <1>3 DEF TypeOK
  <2> DEFINE last == buckets[k].last
             tokens == buckets[k].tokens
  <2>2. last \in Nat /\ tokens \in Nat /\ tokens <= Burst
    BY <2>1, LimiterAssumption
  <2>3. /\ Credit(k) = IF now < last THEN tokens ELSE Capped(tokens + (now - last))
        /\ Credit(k)' = IF now' < last THEN tokens ELSE Capped(tokens + (now' - last))
    BY <1>1, <1>3 DEF Credit
  <2> HIDE DEF last, tokens
  <2>4. CASE now < last
    <3>1. now' < last
      BY <1>1, <2>2, <2>4
    <3> QED BY <2>2, <2>3, <2>4, <3>1, LimiterAssumption
  <2>5. CASE ~(now < last)
    <3>1. PICK u \in Nat : u = tokens + (now - last) /\ tokens <= u
      BY <1>1, <2>2, <2>5
    <3>2. Credit(k) = Capped(u) /\ tokens <= Capped(u)
      BY <2>2, <2>3, <2>5, <3>1, LimiterAssumption DEF Capped
    <3>3. CASE now' < last
      BY <2>2, <2>3, <3>2, <3>3, LimiterAssumption
    <3>4. CASE ~(now' < last)
      <4> DEFINE v == tokens + (now' - last)
      <4> DEFINE then == now'
      <4>0. then \in Nat /\ now \in Nat /\ then < now /\ last <= then
        BY <1>1, <2>2, <3>4
      <4>1. v = tokens + (then - last)
        OBVIOUS
      <4> HIDE DEF then, v
      <4>3. v \in Nat /\ v <= u
        BY <2>2, <3>1, <4>0, <4>1
      <4>2. Credit(k)' = Capped(v)
        BY <2>3, <3>4 DEF v
      <4>4. Capped(v) <= Capped(u) /\ Capped(v) \in 0..Burst
        BY <4>3, LimiterAssumption DEF Capped
      <4> QED BY <3>2, <4>2, <4>4
    <3> QED BY <3>3, <3>4
  <2> QED BY <2>4, <2>5
<1> QED BY <1>2, <1>3

-----------------------------------------------------------------------------
(* The rate *)

\* What a peer was granted and what it may still spend come out of one burst and
\* what has refilled.
RateInv == \A k \in Peers : granted[k] * Cost + Credit(k) <= Burst + elapsed

LEMMA OneMore ==
  ASSUME NEW n \in Nat, NEW c \in Nat
  PROVE  (n + 1) * c = n * c + c /\ n * c \in Nat
OBVIOUS

\* No peer is granted more than a burst and what time has refilled.
THEOREM RateIsKept == Spec => []WithinRate
<1>1. Init => RateInv
  BY LimiterAssumption DEF Init, RateInv, Credit, Held
<1>2. TypeOK /\ RateInv /\ [Next]_vars => RateInv'
  <2> SUFFICES ASSUME TypeOK, RateInv, [Next]_vars, NEW q \in Peers
               PROVE  granted'[q] * Cost + Credit(q)' <= Burst + elapsed'
    BY DEF RateInv
  <2> DEFINE spent == granted[q] * Cost
  <2>0. /\ spent + Credit(q) <= Burst + elapsed
        /\ spent \in Nat /\ Credit(q) \in 0..Burst /\ elapsed \in Nat
        /\ granted[q] \in Nat
    <3>1. granted[q] \in Nat
      BY DEF TypeOK
    <3> QED BY <3>1, CreditUnits, OneMore, LimiterAssumption DEF RateInv, TypeOK
  <2> HIDE DEF spent
  <2>1. ASSUME NEW k \in Peers, Grant(k)
        PROVE  granted'[q] * Cost + Credit(q)' <= Burst + elapsed'
    <3>1. /\ Credit(q)' = IF q = k THEN Credit(k) - Cost ELSE Credit(q)
          /\ elapsed' = elapsed
      BY <2>1, GrantCredit DEF Grant
    <3>2. granted'[q] = IF q = k THEN granted[q] + 1 ELSE granted[q]
      BY <2>1 DEF Grant, TypeOK
    <3>3. CASE q = k
      <4>1. (granted[q] + 1) * Cost = spent + Cost
        BY <2>0, OneMore, LimiterAssumption DEF spent
      <4> QED BY <2>0, <3>1, <3>2, <3>3, <4>1, LimiterAssumption
    <3>4. CASE q # k
      BY <2>0, <3>1, <3>2, <3>4 DEF spent
    <3> QED BY <3>3, <3>4
  <2>2. ASSUME NEW k \in Peers, Refuse(k) \/ TurnAway(k)
        PROVE  granted'[q] * Cost + Credit(q)' <= Burst + elapsed'
    <3>1. Credit(q)' = Credit(q) /\ UNCHANGED <<elapsed, granted>>
      BY <2>2, RefuseCredit, TurnAwayCredit DEF Refuse, TurnAway
    <3> QED BY <2>0, <3>1 DEF spent
  <2>3. CASE Tick
    <3>1. Credit(q)' <= Credit(q) + 1 /\ Credit(q)' \in Nat
      BY <2>0, <2>3, TickCredit, CappedUnits
    <3>2. elapsed' = elapsed + 1 /\ granted' = granted
      BY <2>3 DEF Tick
    <3> QED BY <2>0, <3>1, <3>2, LimiterAssumption DEF spent
  <2>4. CASE StepBack
    <3>1. Credit(q)' <= Credit(q) /\ Credit(q)' \in 0..Burst
      BY <2>4, StepBackCredit
    <3>2. UNCHANGED <<elapsed, granted>>
      BY <2>4 DEF StepBack
    <3> QED BY <2>0, <3>1, <3>2, LimiterAssumption DEF spent
  <2>5. CASE UNCHANGED vars
    <3>1. Credit(q)' = Credit(q) /\ UNCHANGED <<elapsed, granted>>
      BY <2>5 DEF vars, Credit, Held
    <3> QED BY <2>0, <3>1 DEF spent
  <2> QED BY <2>1, <2>2, <2>3, <2>4, <2>5 DEF Next, Allow
<1>3. TypeOK /\ RateInv => WithinRate
  <2> SUFFICES ASSUME TypeOK, RateInv, NEW k \in Peers
               PROVE  granted[k] * Cost <= Burst + elapsed
    BY DEF WithinRate
  <2>1. granted[k] \in Nat
    BY DEF TypeOK
  <2> DEFINE spent == granted[k] * Cost
  <2>2. spent \in Nat /\ Credit(k) \in 0..Burst /\ spent + Credit(k) <= Burst + elapsed
    BY <2>1, OneMore, CreditUnits, LimiterAssumption DEF RateInv
  <2>3. elapsed \in Nat
    BY DEF TypeOK
  <2> HIDE DEF spent
  <2>4. spent <= Burst + elapsed
    BY <2>2, <2>3, LimiterAssumption
  <2> QED BY <2>4 DEF spent
<1> QED BY <1>1, <1>2, <1>3, TypeCorrect, PTL DEF Spec

-----------------------------------------------------------------------------
(* The promise *)

\* Until the clock steps back, no bucket is dated in the future.
SteadyInv == steady => \A k \in Held : buckets[k].last <= now

LEMMA SteadyInvariant == Spec => []SteadyInv
<1>1. Init => SteadyInv
  BY DEF Init, SteadyInv, Held
<1>2. TypeOK /\ SteadyInv /\ [Next]_vars => SteadyInv'
  <2> SUFFICES ASSUME TypeOK, SteadyInv, [Next]_vars, steady', NEW q \in Held'
               PROVE  buckets'[q].last <= now'
    BY DEF SteadyInv
  <2>0. now \in Nat
    BY DEF TypeOK
  <2>1. ASSUME NEW k \in Peers, Grant(k) \/ Refuse(k) PROVE buckets'[q].last <= now'
    <3>1. steady /\ now' = now
      BY <2>1 DEF Grant, Refuse
    <3>2. PICK tokens : buckets' = Store(k, tokens)
      BY <2>1 DEF Grant, Refuse
    <3>3. CASE q = k
      BY <2>0, <3>1, <3>2, <3>3 DEF Store, Held
    <3>4. CASE q # k
      BY <3>1, <3>2, <3>4 DEF Store, Held, Kept, SteadyInv
    <3> QED BY <3>3, <3>4
  <2>2. ASSUME NEW k \in Peers, TurnAway(k) PROVE buckets'[q].last <= now'
    BY <2>2 DEF TurnAway, Held, Kept, SteadyInv
  <2>3. CASE Tick
    <3>1. q \in Held /\ buckets[q].last <= now /\ buckets[q] \in Bucket
      BY <2>3 DEF Tick, SteadyInv, Held, TypeOK
    <3> QED BY <2>0, <2>3, <3>1 DEF Tick
  <2>4. CASE StepBack
    BY <2>4 DEF StepBack
  <2>5. CASE UNCHANGED vars
    BY <2>5 DEF vars, Held, SteadyInv
  <2> QED BY <2>1, <2>2, <2>3, <2>4, <2>5 DEF Next, Allow
<1> QED BY <1>1, <1>2, TypeCorrect, PTL DEF Spec

LEMMA PromiseStep ==
  ASSUME TypeOK, SteadyInv, [Next]_vars
  PROVE  [Promise!PromiseNext]_(Promise!promiseVars)
<1> DEFINE credit == [k \in Peers |-> Credit(k)]
<1>0. \A k \in Peers : credit[k] = Credit(k) /\ credit'[k] = Credit(k)'
  OBVIOUS
<1>1. ASSUME NEW k \in Peers, Grant(k) PROVE Promise!Grant(k)
  <2>1. credit[k] >= Cost
    BY <1>1, GrantCredit
  <2>2. credit' = [credit EXCEPT ![k] = @ - Cost]
    BY <1>1, GrantCredit
  <2>3. answer' = Answer(k, "granted") /\ UNCHANGED steady
    BY <1>1 DEF Grant
  <2> QED BY <2>1, <2>2, <2>3 DEF Promise!Grant, Promise!Answer
<1>2. ASSUME NEW k \in Peers, Refuse(k) PROVE Promise!Refuse(k)
  <2>1. credit[k] < Cost
    BY <1>2, RefuseCredit
  <2>2. credit' = credit
    BY <1>2, RefuseCredit
  <2>3. answer' = Answer(k, "refused") /\ UNCHANGED steady
    BY <1>2 DEF Refuse
  <2> QED BY <2>1, <2>2, <2>3 DEF Promise!Refuse, Promise!Answer
<1>3. ASSUME NEW k \in Peers, TurnAway(k) PROVE Promise!TurnAway(k)
  <2>1. credit[k] = Burst
    BY <1>3, TurnAwayCredit
  <2>2. credit' = credit
    BY <1>3, TurnAwayCredit
  <2>3. answer' = Answer(k, "turned_away") /\ UNCHANGED steady
    BY <1>3 DEF TurnAway
  <2> QED BY <2>1, <2>2, <2>3 DEF Promise!TurnAway, Promise!Answer
<1>4. CASE Tick
  <2> DEFINE waiting == {k \in Peers : k \in Held /\ now < buckets[k].last}
  <2>1. steady => waiting = {}
    <3>1. \A k \in Held : now \in Nat /\ buckets[k].last \in Nat
      BY DEF TypeOK
    <3> QED BY <3>1 DEF SteadyInv
  <2>2. credit' = [k \in Peers |-> IF k \in waiting THEN credit[k] ELSE Capped(credit[k] + 1)]
    BY <1>4, TickCredit
  <2>3. answer' = NoAnswer /\ UNCHANGED steady
    BY <1>4 DEF Tick
  <2>4. \A u : Capped(u) = Promise!Capped(u)
    BY DEF Capped, Promise!Capped
  <2>5. waiting \in SUBSET Peers
    OBVIOUS
  <2> HIDE DEF waiting
  <2>6. Promise!Refill
    BY <2>1, <2>2, <2>3, <2>4, <2>5 DEF Promise!Refill, Promise!NoAnswer
  <2> QED BY <2>6 DEF Promise!PromiseNext
<1>5. CASE StepBack
  <2>1. credit' \in [Peers -> 0..Burst] /\ \A k \in Peers : credit'[k] <= credit[k]
    BY <1>5, StepBackCredit
  <2>2. answer' = NoAnswer /\ steady' = FALSE
    BY <1>5 DEF StepBack
  <2>3. Promise!Lose
    BY <2>1, <2>2 DEF Promise!Lose, Promise!NoAnswer
  <2> QED BY <2>3 DEF Promise!PromiseNext
<1>6. CASE UNCHANGED vars
  <2>1. \A k \in Peers : Credit(k)' = Credit(k)
    BY <1>6 DEF vars, Credit, Held
  <2> QED BY <1>6, <2>1 DEF vars, Promise!promiseVars
<1> QED BY <1>1, <1>2, <1>3, <1>4, <1>5, <1>6 DEF Next, Allow, Promise!PromiseNext

\* The capped, swept table decides as one bucket per peer that is never forgotten.
THEOREM RatePromiseKept == Spec => KeepsRatePromise
<1>1. Init => Promise!PromiseInit
  <2> SUFFICES ASSUME Init PROVE Promise!PromiseInit
    OBVIOUS
  <2>1. \A k \in Peers : Credit(k) = Burst
    BY DEF Init, Credit, Held
  <2> QED BY <2>1 DEF Init, Promise!PromiseInit, Promise!NoAnswer
<1> QED BY <1>1, PromiseStep, TypeCorrect, SteadyInvariant, PTL
        DEF Spec, KeepsRatePromise, Promise!PromiseSpec

-----------------------------------------------------------------------------
(* The peers held *)

\* A peer held was seen since the last sweep, or had yet to refill at it.
RecentInv ==
  /\ \A k \in Held : lastSweep - buckets[k].last < Burst
  /\ answer # NoAnswer => now - lastSweep < SweepInterval

\* What a sweep leaves, or what there was when none was due. No sweep is dated after
\* the request it began, so no bucket stored since is dated before it.
LEMMA KeptRecent ==
  ASSUME TypeOK, RecentInv
  PROVE  /\ LastSweep \in Int /\ LastSweep <= now /\ now - LastSweep < SweepInterval
         /\ \A k \in Kept : LastSweep - buckets[k].last < Burst
<1>0. now \in Nat /\ lastSweep \in Int /\ \A k \in Held : buckets[k] \in Bucket
  BY DEF TypeOK
<1>1. CASE Due
  <2>1. LastSweep = now /\ Kept = {k \in Held : ~Refilled(buckets[k])}
    BY <1>1 DEF LastSweep, Kept
  <2>2. ASSUME NEW k \in Kept PROVE LastSweep - buckets[k].last < Burst
    BY <1>0, <2>1, <2>2, LimiterAssumption DEF Refilled, Bucket
  <2> QED BY <1>0, <2>1, <2>2, LimiterAssumption
<1>2. CASE ~Due
  <2>1. /\ LastSweep = lastSweep /\ Kept = Held
        /\ lastSweep <= now /\ now - lastSweep < SweepInterval
    BY <1>0, <1>2, LimiterAssumption DEF LastSweep, Kept, Due
  <2> QED BY <1>0, <2>1 DEF RecentInv
<1> QED BY <1>1, <1>2

LEMMA RecentStore ==
  ASSUME TypeOK, RecentInv, NEW k \in Peers, NEW tokens,
         buckets' = Store(k, tokens), lastSweep' = LastSweep, UNCHANGED now
  PROVE  RecentInv'
<1>0. now \in Nat
  BY DEF TypeOK
<1>1. now' - lastSweep' < SweepInterval
  BY KeptRecent
<1>2. ASSUME NEW q \in Held' PROVE lastSweep' - buckets'[q].last < Burst
  <2>1. CASE q = k
    <3>1. buckets'[q].last = now
      BY <2>1 DEF Store
    <3> QED BY <1>0, <3>1, KeptRecent, LimiterAssumption
  <2>2. CASE q # k
    <3>1. q \in Kept /\ buckets'[q] = buckets[q]
      BY <1>2, <2>2 DEF Store, Held
    <3> QED BY <3>1, KeptRecent
  <2> QED BY <2>1, <2>2
<1> QED BY <1>1, <1>2 DEF RecentInv

\* Once a request has swept, the table holds only peers seen within the interval
\* and the time a bucket takes to refill, however the clock has stepped.
THEOREM RecentPeersHeld == Spec => []OnlyRecentPeersHeld
<1>1. Init => RecentInv
  BY LimiterAssumption DEF Init, RecentInv, Held
<1>2. TypeOK /\ RecentInv /\ [Next]_vars => RecentInv'
  <2> SUFFICES ASSUME TypeOK, RecentInv, [Next]_vars PROVE RecentInv'
    OBVIOUS
  <2>1. ASSUME NEW k \in Peers, Grant(k) \/ Refuse(k) PROVE RecentInv'
    BY <2>1, RecentStore DEF Grant, Refuse
  <2>2. ASSUME NEW k \in Peers, TurnAway(k) PROVE RecentInv'
    BY <2>2, KeptRecent DEF TurnAway, RecentInv, Held
  <2>3. CASE Tick \/ StepBack
    BY <2>3 DEF Tick, StepBack, RecentInv, Held
  <2>4. CASE UNCHANGED vars
    BY <2>4 DEF vars, RecentInv, Held
  <2> QED BY <2>1, <2>2, <2>3, <2>4 DEF Next, Allow
<1>3. TypeOK /\ RecentInv => OnlyRecentPeersHeld
  <2> SUFFICES ASSUME TypeOK, RecentInv, answer # NoAnswer, NEW k \in Held
               PROVE  now - buckets[k].last < SweepInterval + Burst
    BY DEF OnlyRecentPeersHeld
  <2>1. now \in Nat /\ lastSweep \in Int /\ buckets[k] \in Bucket
    BY DEF TypeOK
  <2> QED BY <2>1, LimiterAssumption DEF RecentInv, Bucket
<1> QED BY <1>1, <1>2, <1>3, TypeCorrect, PTL DEF Spec

\* A peer turned away with credit to spend was not held, and the table is at its
\* ceiling with peers that have all yet to refill.
THEOREM CrowdedOutByTheFull == Spec => TurnedAwayOnlyByAFullTable
<1> DEFINE Crowded(k) ==
      answer' = Answer(k, "turned_away") =>
        /\ k \notin Held \/ Refilled(buckets[k])
        /\ Cardinality(Held') = MaxBuckets
        /\ \A q \in Held' : ~Refilled(buckets[q])
<1>1. BoundInv /\ [Next]_vars => [\A k \in Peers : Crowded(k)]_vars
  <2> SUFFICES ASSUME BoundInv, Next, NEW k \in Peers, answer' = Answer(k, "turned_away")
               PROVE  Crowded(k)
    OBVIOUS
  <2>1. TurnAway(k)
    BY Zenon DEF Next, Allow, TurnAway, Grant, Refuse, Tick, StepBack
  <2>2. Held' = Kept /\ NoRoom(k)
    BY <2>1 DEF TurnAway, Held
  <2>3. Cardinality(Kept) = MaxBuckets
    BY <2>2, KeptBounded, LimiterAssumption DEF NoRoom
  <2>4. Due
    <3>1. Cardinality(Held) >= Cardinality(Kept)
      BY KeptBounded, FS_Subset DEF BoundInv
    <3> QED BY <2>3, <3>1 DEF Due
  <2>5. Kept = {q \in Held : ~Refilled(buckets[q])}
    BY <2>4 DEF Kept
  <2> QED BY <2>2, <2>3, <2>5 DEF NoRoom
<1> QED BY <1>1, BoundInvariant, PTL DEF Spec, TurnedAwayOnlyByAFullTable

=============================================================================
