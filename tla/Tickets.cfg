SPECIFICATION FairSpec
CONSTANTS
  Ticket = {t1, t2, t3}
  Request = {r1}
  Submitter = {s1, s2}
  Approver = {a1, a2}
  MaxFaults = 1
  NoTicket = NoTicket
  NoRequest = NoRequest
  NoHandler = NoHandler
INVARIANT OneActive
INVARIANT NoOverlap
INVARIANT SucceedsOnce
PROPERTY TicketsEnd
CHECK_DEADLOCK FALSE
