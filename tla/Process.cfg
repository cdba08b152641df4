\* The start's window is four retries long; a call may hang past it. Two requests,
\* whose timers keep the code's order and ratios.
SPECIFICATION Spec
CONSTANTS
  Window = 4
  Interval = 1
  CallTimeout = 7
  HeaderTimeout = 1
  AnswerTimeout = 5
  Drain = 6
  Requests = {r1, r2}
SYMMETRY RequestSymmetry
INVARIANTS
  MismatchCaught
  StartsInTime
  DrainCoversRequests
PROPERTY GivesUpOnlyOnSilence
CHECK_DEADLOCK FALSE
