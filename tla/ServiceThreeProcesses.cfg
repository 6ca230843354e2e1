CONSTANTS
  t1 = t1
  t2 = t2
  t3 = t3
  app = app
  other = other
  server = server
  Server = server
  ProcOf <- ThreeProcesses
  Threads = {t1, t2, t3}
  Clients = {app, other}
  Ids = {test, absent, beyond}
  InRange = {test, absent}
  Installed = {test}
  Throwing = {test}
  Large = {test}
  MaxIncarnation = 2
  None = None
SPECIFICATION Spec
PROPERTIES SettledInstance KeepsPromise
