---------------------------- MODULE MCFacilitator ----------------------------
(***************************************************************************)
(* Instances of Facilitator for TLC: small sets of model values, and the    *)
(* functions between them that a configuration cannot spell.                *)
(***************************************************************************)
EXTENDS Facilitator, FiniteSets, TLC

\* Both payments are signed over one sequence: the second is the transaction a
\* payer sends to void the first.
OneSequence == [p \in Payments |-> CHOOSE s \in Sequences : TRUE]

\* One process behind a balancer over every node.
Balanced == [f \in Facilitators |-> Nodes]

AllServedByOne == [r \in Requests |-> CHOOSE f \in Facilitators : TRUE]

RequestSymmetry == Permutations(Requests)

=============================================================================
