------------------------------- MODULE Chain -------------------------------
(***************************************************************************)
(* The gno chain as the facilitator meets it: nodes with a mempool each,    *)
(* and blocks that every node executes sooner or later.  None of it is code *)
(* of this repository; it is modelled from how facilitator/exact/node.go    *)
(* uses it and from what e2e/settle_test.go observes of real nodes:         *)
(*                                                                          *)
(*   - a transaction spends one sequence of its payer, so of the payments   *)
(*     signed over the same sequence a block executes at most one;          *)
(*   - a node answers from the blocks it has executed itself, and may lag;  *)
(*   - a node's mempool refuses a copy it already holds, and a restarted    *)
(*     node has lost its mempool;                                           *)
(*   - anyone who holds a signed payment can hand it to any node, so a node *)
(*     may hear of one by gossip, from a late broadcast or from a stranger. *)
(***************************************************************************)
EXTENDS SignedPayments

CONSTANTS
  Nodes,
  Laggards,   \* nodes that may execute a block later than the chain commits it
  Restarting  \* nodes that may restart

ASSUME ChainAssumption ==
  /\ Laggards \subseteq Nodes
  /\ Restarting \subseteq Nodes

VARIABLES
  outcome,  \* outcome[p]: what the block that executed p made of it
  view,     \* view[n]: the payments in the blocks node n has executed
  mempool   \* mempool[n]: the payments node n holds for a block

chainVars == <<outcome, view, mempool>>

\* "aborted" is a delivery the VM refused: it still spent the sequence and the fee.
Outcomes == {"none", "ok", "aborted"}

Executed == {p \in Payments : outcome[p] # "none"}

ChainTypeOK ==
  /\ outcome \in [Payments -> Outcomes]
  /\ view \in [Nodes -> SUBSET Payments]
  /\ mempool \in [Nodes -> SUBSET Payments]

ChainInit ==
  /\ outcome = [p \in Payments |-> "none"]
  /\ view = [n \in Nodes |-> {}]
  /\ mempool = [n \in Nodes |-> {}]

\* The payer's account at n still stands at the sequence p is signed over.
Fresh(n, p) == Rivals(p) \cap view[n] = {}

\* CheckTx at n accepts p: nothing n executed or holds spends its sequence.
Admits(n, p) == Fresh(n, p) /\ Rivals(p) \cap mempool[n] = {}

Admit(n, p) == mempool' = [mempool EXCEPT ![n] = @ \cup {p}]

-----------------------------------------------------------------------------

\* Node n hears of p from another node or from whoever holds the signed payment.
Hear(n, p) ==
  /\ Admits(n, p)
  /\ Admit(n, p)
  /\ UNCHANGED <<outcome, view>>

\* n proposes the block that executes p, from a mempool that has seen every block
\* before it. Nodes that do not lag execute it at once.
Commit(n, p) ==
  /\ p \in mempool[n]
  /\ view[n] = Executed
  /\ \E o \in Outcomes \ {"none"} : outcome' = [outcome EXCEPT ![p] = o]
  /\ view' = [m \in Nodes |->
       IF m \in Laggards \ {n} THEN view[m] ELSE Executed \cup {p}]
  /\ mempool' = [m \in Nodes |->
       IF m \in Laggards \ {n} THEN mempool[m] ELSE mempool[m] \ Rivals(p)]

\* A lagging node executes the blocks it missed and rechecks its mempool.
CatchUp(n) ==
  /\ view[n] # Executed
  /\ view' = [view EXCEPT ![n] = Executed]
  /\ mempool' = [mempool EXCEPT ![n] = {p \in @ : Rivals(p) \cap Executed = {}}]
  /\ UNCHANGED outcome

\* A restarted node has the blocks it executed and an empty mempool.
RestartNode(n) ==
  /\ n \in Restarting
  /\ mempool[n] # {}
  /\ mempool' = [mempool EXCEPT ![n] = {}]
  /\ UNCHANGED <<outcome, view>>

ChainNext ==
  \E n \in Nodes :
    \/ \E p \in Payments : Hear(n, p) \/ Commit(n, p)
    \/ CatchUp(n)
    \/ RestartNode(n)

=============================================================================
