CONSTANTS
  t1 = t1
  t2 = t2
  h1 = h1
  h2 = h2
  Tickets = {t1, t2}
  NoTicket = NoTicket
  Hosts = {h1, h2}
  MaxHostAttempts = 2
  UserSsh = TRUE
  MaxFaults = 3

SPECIFICATION FairSpec

CHECK_DEADLOCK FALSE

INVARIANTS
  NoHostForgotten
  NoticedCancelFails
  SuccessIsReal
  HostLossIsRetried
PROPERTIES
  ImplementsReports
  WorkerEnds
