------------------------------- MODULE MCSale -------------------------------
(***************************************************************************)
(* Instances of Sale for TLC: a visitor's account of two sequences, and a    *)
(* terminal buyer's of one.                                                  *)
(***************************************************************************)
EXTENDS Sale, TLC

CONSTANTS
  p1, p2, p3, t1,  \* p2 is signed over p1's sequence, p3 over the next one
  s1, s2, s3,      \* the visitor's sequences s1 and s2, and the terminal buyer's
  f1, f2,          \* facilitator processes
  r1, r2, r3       \* the settles they may run

SaleSpends == (p1 :> s1 @@ p2 :> s1 @@ p3 :> s2 @@ t1 :> s3)

SaleSpendsSeen == [p \in Payments |-> SaleSpends[p]]

SaleBefore == [s \in Sequences |-> IF s = s2 THEN {s1} ELSE {}]

OneNode == [f \in Facilitators |-> Nodes]

\* Every settle is f1's.
OneProcess == [r \in Requests |-> f1]

\* Two replicas, of two settles and of one.
TwoProcesses == [r \in Requests |-> IF r = r3 THEN f2 ELSE f1]

ReplicaSymmetry == Permutations(Handlers) \cup Permutations({r1, r2})

\* Two payments over one sequence stand for each other too.
RivalSymmetry == Permutations(Handlers) \cup Permutations(Requests) \cup Permutations({p1, p2})

=============================================================================
