-------------------------- MODULE SettlementPromise --------------------------
(***************************************************************************)
(* What settling promises the seller, with no word of records, requests,    *)
(* nodes or mempools: a block executes a payment at most once, and at most  *)
(* one of those signed over a sequence; a process reports the execution as  *)
(* it was; and having reported a payment settled, it does not report it     *)
(* again while it remembers.                                                 *)
(***************************************************************************)
EXTENDS SignedPayments

CONSTANT Facilitators

VARIABLES
  delivery,  \* delivery[p]: what the block that executed p made of it
  reported,  \* reported[f]: the payments f reported settled and remembers
  told       \* the verdict given in the last step, if one was

promiseVars == <<delivery, reported, told>>

Silence == [kind |-> "none"]

Verdict(f, p, k) == [by |-> f, pay |-> p, kind |-> k]

PromiseInit ==
  /\ delivery = [p \in Payments |-> "none"]
  /\ reported = [f \in Facilitators |-> {}]
  /\ told = Silence

\* A block executes p, the first of its rivals.
Execute(p) ==
  /\ \A q \in Rivals(p) : delivery[q] = "none"
  /\ \E o \in {"ok", "aborted"} : delivery' = [delivery EXCEPT ![p] = o]
  /\ told' = Silence
  /\ UNCHANGED reported

ReportSettled(f, p) ==
  /\ delivery[p] = "ok"
  /\ p \notin reported[f]
  /\ reported' = [reported EXCEPT ![f] = @ \cup {p}]
  /\ told' = Verdict(f, p, "settled")
  /\ UNCHANGED delivery

ReportAborted(f, p) ==
  /\ delivery[p] = "aborted"
  /\ told' = Verdict(f, p, "aborted")
  /\ UNCHANGED <<delivery, reported>>

\* Time passes, or a process restarts: some of what was reported is forgotten.
\* A step that reports nothing and forgets nothing is one too.
Forget ==
  /\ reported' \in [Facilitators -> SUBSET Payments]
  /\ \A f \in Facilitators : reported'[f] \subseteq reported[f]
  /\ told' = Silence
  /\ UNCHANGED delivery

PromiseNext ==
  \/ \E p \in Payments : Execute(p)
  \/ \E f \in Facilitators, p \in Payments : ReportSettled(f, p) \/ ReportAborted(f, p)
  \/ Forget

PromiseSpec == PromiseInit /\ [][PromiseNext]_promiseVars

=============================================================================
