CONSTANTS
  Tickets = {t1}
  Users = {u1}
  Requests = {r1, r2}
  TTLs <- TicketTTLs
  CacheTTL = 3
  Second = 2
  MaxDelay = 2
  InternalTimeout = 2
  OutboundTimeout = 3
SPECIFICATION FairSpec
INVARIANTS TypeOK InStep Fresh
PROPERTIES Freed TicketLifeSpec
CHECK_DEADLOCK FALSE
