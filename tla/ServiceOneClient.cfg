CONSTANTS
  t1 = t1
  t2 = t2
  t3 = t3
  app = app
  other = other
  server = server
  Server = server
  ProcOf <- OneClient
  Threads = {t1, t2}
  Clients = {app}
  Ids = {stop, absent}
  InRange = {stop, absent}
  Installed = {stop}
  Throwing = {stop}
  Large = {}
  MaxIncarnation = 2
  None = None
SPECIFICATION FairSpec
INVARIANTS IInv OneServerPerProcess RefetchFutile WatchedOrDead
PROPERTIES FrameworkSettles
