SPECIFICATION Spec
CONSTANTS
  client = client
  freelancer = freelancer
  stranger = stranger
  c1 = c1
  c2 = c2
  tab1 = tab1
  tab2 = tab2
  Users = {client, freelancer, stranger}
  Contracts = {c1, c2}
  ClientOf <- MCClientOf
  FreelancerOf <- MCFreelancerOf
  Names = {n1}
  Tabs = {tab1, tab2}
  TabContract <- MCTabContract
  Requests = {r1, r2, r3}
  MaxTime = 2
  MaxFailures = 1
  NoTime = NoTime
  NoRequest = NoRequest
  NoTab = NoTab
  NoContract = NoContract
SYMMETRY Interchangeable
INVARIANTS
  ChainTellsTheTruth
  NoTimeTwice
  VersionsCount
CHECK_DEADLOCK FALSE
