SPECIFICATION FairPagesSpec
CONSTANTS
  Users = {"client", "freelancer", "admin"}
  MaxChanges = 1
  MaxEvents = 2
  NoUser = NoUser
  NoData = NoData
INVARIANTS
  ActedPageIsCurrent
PROPERTIES
  PageSettles
CHECK_DEADLOCK FALSE
