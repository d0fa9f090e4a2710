SPECIFICATION Spec
CONSTANTS
  Alert = {a1}
  Run = {r1, r2, r3, r4}
  Ticket = {}
  Handler = {h1}
  Worker = {w1}
  Kind = {"auto"}
  Gate = {"open"}
  BreakerLimit = 3
  Budgets <- FourFirings
INVARIANT BreakerHolds
CHECK_DEADLOCK FALSE
