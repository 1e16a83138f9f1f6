SPECIFICATION Spec
CONSTANTS
  Seats = {"client", "freelancer"}
  Take = 1
  MaxChanges = 1
  MaxMessages = 1
  MaxFailures = 1
  MaxVisits = 3
  NoData = NoData
INVARIANTS
  LiveViewIsTrue
  ChatIsComplete
CHECK_DEADLOCK FALSE
