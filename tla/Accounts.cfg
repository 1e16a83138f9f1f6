SPECIFICATION Spec
CONSTANTS
  People = {p1}
  Requests = {r1, r2, r3}
  OAuthStates = {s1, s2}
  Tokens = {t1}
  MaxEdits = 3
  Pictures = {f0}
  MaxFailures = 1
  Nobody = Nobody
  NoFile = NoFile
SYMMETRY Interchangeable
INVARIANTS
  Inv
  AvatarFiles
  CachedIsCurrent
PROPERTIES
  AccountStands
CHECK_DEADLOCK FALSE
