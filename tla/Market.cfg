SPECIFICATION RacesSpec
CONSTANTS
  Jobs = {j1, j2}
  Freelancers = {f1, f2}
  Handlers = {r1, r2, r3}
  MaxFailures = 1
  NoJob = NoJob
  NoFreelancer = NoFreelancer
SYMMETRY Interchangeable
INVARIANTS
  AcceptedIsWhole
  OneContractUnlessRaced
  NoBidLeftPending
PROPERTIES
  DecisionsStandUnlessRaced
