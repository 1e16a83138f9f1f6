SPECIFICATION Spec
CONSTANTS
  Milestones = {m1, m2}
  Ratings = {1, 5}
  Unrated = Unrated
  AgeBonus = 7
  Pairs = {k1, k2, k3, k4}
  EnvPair = EnvPair
  NoPair = NoPair
  NoScore = NoScore
  PageSize = 2
  MaxFailures = 2
SYMMETRY Interchangeable
INVARIANTS
  ScoreFollowsHistory
  RecordsVerify
CHECK_DEADLOCK FALSE
