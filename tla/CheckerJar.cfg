SPECIFICATION FairSpec
CONSTANTS
  Servers = {1, 2}
  Jar <- MCJar
  Before <- MCBefore
  MaxFailures = 1
  MaxCrashes = 1
INVARIANTS JarSound UndisturbedWhole
PROPERTIES JarSettles
