SPECIFICATION FairSpec
CONSTANTS
  Callers = {k1, k2}
  Forms = {k1}
  Limiters = {"api", "auth"}
  Limit <- MCLimit
  Window <- MCWindow
  DefaultCooldown = 1
  MaxFailures = 1
INVARIANTS
  TwiceAtMost
PROPERTIES
  WindowEnds
