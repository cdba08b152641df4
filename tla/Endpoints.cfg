\* Two rules of a check stand for all of them.
SPECIFICATION Spec
CONSTANTS
  Rules = {"sequence_mismatch", "amount_mismatch"}
  Payer = payer
  Hash = hash
  Nothing = nothing
INVARIANTS
  VerdictsAreEstablished
  HashReported
CHECK_DEADLOCK FALSE
