---------------------------- MODULE Settlements ----------------------------
(***************************************************************************)
(* The settlement record of one facilitator process                         *)
(* (facilitator/exact/settlements.go): the payments it is settling or has    *)
(* settled, so that each is settled once.  Every method runs under one       *)
(* mutex, so each is one operator from a record to a record; Facilitator     *)
(* says when they run.                                                       *)
(*                                                                          *)
(* Time is an age: an entry holds how many ticks ago it was stamped, counted *)
(* up to TTL + 1, since the code tells ages apart only as within             *)
(* settlementTTL or past it.                                                 *)
(***************************************************************************)
EXTENDS SignedPayments

CONSTANT TTL  \* settlementTTL, in ticks of the clock

ASSUME TTLAssumption == TTL \in Nat \ {0}

\* The zero time.Time.
NoTime == -1

Ages == 0 .. TTL + 1
Times == Ages \cup {NoTime}

\* A time stamped TTL ticks ago or less.
Recent(t) == t # NoTime /\ t <= TTL

Older(t) == IF t \in 0 .. TTL THEN t + 1 ELSE t

\* hash says whether the hash a node admitted the payment under is recorded: it
\* is the hash of the payment's own bytes, so there is only one it can be.
Fields == [state : {"unclaimed", "settling", "settled", "pending"},
           hash : BOOLEAN, at : Times]

\* An entry has a time exactly if it has a hash, which a payment settled or pending
\* does, and one being settled may keep from when it was pending.
Entries ==
  {e \in Fields :
     /\ e.hash <=> e.at # NoTime
     /\ e.state = "unclaimed" => ~e.hash
     /\ e.state \in {"settled", "pending"} => e.hash}

\* What the map answers for a key it does not hold.
Unclaimed == [state |-> "unclaimed", hash |-> FALSE, at |-> NoTime]

Records == [Payments -> Entries]

NewRecord == [p \in Payments |-> Unclaimed]

\* Variant: an entry lapses a tick early.
ExpiredAtTTL(e) == e.state \notin {"unclaimed", "settling"} /\ e.at >= TTL

\* A claimed entry never expires, however long its settle takes.
Expired(e) == e.state \notin {"unclaimed", "settling"} /\ e.at > TTL

\* The scan each claim begins with, over every key.
Swept(rec) == [p \in Payments |-> IF Expired(rec[p]) THEN Unclaimed ELSE rec[p]]

\* Variant: a claim refuses only what is settled.
ClaimableWhileSettling(rec, p) == Swept(rec)[p].state # "settled"

\* claim's answer: whether the settle that asks may run.
Claimable(rec, p) == Swept(rec)[p].state \notin {"settling", "settled"}

\* Variant: the claim of a pending payment forgets what it was.
ClaimedAnew(rec, p) == [Swept(rec) EXCEPT ![p] = [Unclaimed EXCEPT !.state = "settling"]]

\* A pending payment keeps its hash and its time while it is reconciled.
Claimed(rec, p) == [Swept(rec) EXCEPT ![p].state = "settling"]

Released(rec, p) == [rec EXCEPT ![p] = Unclaimed]

\* Variant: a settled payment is released like a refused one.
SettledForgotten(rec, p) == Released(rec, p)

MarkedSettled(rec, p) ==
  [rec EXCEPT ![p] = [state |-> "settled", hash |-> TRUE, at |-> 0]]

\* Variant: each record of a pending payment stamps it anew.
PendingRestamped(rec, p) ==
  [rec EXCEPT ![p] = [state |-> "pending", hash |-> TRUE, at |-> 0]]

\* Variant: the time kept is that of the record before, pending or not.
PendingUndated(rec, p) ==
  [rec EXCEPT ![p] = [state |-> "pending", hash |-> TRUE, at |-> @.at]]

\* A payment already pending keeps the time of its first record.
MarkedPending(rec, p) ==
  [rec EXCEPT ![p] = [state |-> "pending", hash |-> TRUE,
                      at |-> IF @.at = NoTime THEN 0 ELSE @.at]]

\* A tick of the clock, over every entry.
Aged(rec) == [p \in Payments |-> [rec[p] EXCEPT !.at = Older(@)]]

=============================================================================
