SPECIFICATION Spec
CONSTANTS
  c1 = c1
  c2 = c2
  c3 = c3
  root = root
  signed = signed
  unsigned = unsigned
  Clients <- MixedClients
  UidOf <- MixedUsers
  Root = root
  Valid = {signed}
  Backlog = 2
  Checker = Checker
  Notifier = Notifier
  None = None
PROPERTIES KeepsLine
INVARIANTS IInv OnlyTrustedServed StatusNotStolen ExitOnlyWhenTold
CHECK_DEADLOCK FALSE
