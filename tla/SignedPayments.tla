--------------------------- MODULE SignedPayments ---------------------------
(***************************************************************************)
(* What a signed payment is to every other module: a transaction known by    *)
(* the hash of its bytes, signed over one sequence of its payer's account.   *)
(***************************************************************************)
EXTENDS Integers

CONSTANTS
  Payments,   \* signed transactions, each named by its hash
  Sequences,  \* account sequences: a (payer, sequence number) pair each
  Spends      \* Spends[p] is the account sequence payment p is signed over

ASSUME SpendsAssumption == Spends \in [Payments -> Sequences]

\* The payments signed over p's sequence, p among them: a block executes at most one.
Rivals(p) == {q \in Payments : Spends[q] = Spends[p]}

=============================================================================
