SPECIFICATION Spec
CONSTANTS
  Methods = {m1, m2}
  Bundled = {m1}
  Contents = {{m1}, {m1, m2}}
  MaxPatches = 4
INVARIANTS IInv FixedInForce LastFixedWins NoPatchLeftOut
CHECK_DEADLOCK FALSE
