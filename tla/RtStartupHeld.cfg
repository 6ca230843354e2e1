SPECIFICATION FairSpec
CONSTANTS
  Procs = {p1, p2}
  Silent = {p1}
  Old = {p1}
  Backlog = 1
  Tries = 2
  None = None
PROPERTIES AwaitBounded
CHECK_DEADLOCK FALSE
