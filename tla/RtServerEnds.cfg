SPECIFICATION TalkingSpec
CONSTANTS
  c1 = c1
  c2 = c2
  c3 = c3
  root = root
  signed = signed
  unsigned = unsigned
  Clients <- SignedClients
  UidOf <- SignedUsers
  Root = root
  Valid = {signed}
  Backlog = 2
  Checker = Checker
  Notifier = Notifier
  None = None
PROPERTIES ConnectionsEnd
CHECK_DEADLOCK FALSE
