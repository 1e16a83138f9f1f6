SPECIFICATION Spec
CONSTANTS
  Milestones = {m1, m2}
  Ratings = {1, 5}
  Unrated = Unrated
  AgeBonus = 7
  Pairs = {k1, k2, k3, k4}
  EnvPair = EnvPair
  NoPair = NoPair
  NoScore = NoScore
  PageSize = 2
  MaxFailures = 0
INVARIANTS
  UnreadFirst
CHECK_DEADLOCK FALSE
