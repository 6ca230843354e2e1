SPECIFICATION FairBootSpec
CONSTANTS
  Procs = {p1, p2, p3}
  Silent = {p1, p2}
  Old = {p1}
  Requested = {p3}
  Backlog = 1
  Tries = 2
  None = None
INVARIANTS BootInv Handover JavaToldRightly DaemonHonest
PROPERTIES BootSettles
CHECK_DEADLOCK FALSE
