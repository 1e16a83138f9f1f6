SPECIFICATION MCSpec
CONSTANTS
  client = client
  freelancer = freelancer
  c1 = c1
  c2 = c2
  m1 = m1
  m2 = m2
  m3 = m3
  d1 = d1
  d2 = d2
  k1 = k1
  k2 = k2
  Users = {client, freelancer}
  Contracts = {c1, c2}
  Milestones = {m1, m2, m3}
  Disputes = {d1}
  Keys = {k1, k2}
  NoKey = NoKey
  NoMilestone = NoMilestone
  NoDispute = NoDispute
  ClientOf <- CrossedClientOf
  FreelancerOf <- CrossedFreelancerOf
  ContractOf <- CrossedContractOf
  Amount <- MCAmount
  KeyUse <- OneKeyPerRequest
  Percentages = {50, 100}
  DepositSizes = {2}
  MaxDeposited = 2
  MaxFailures = 1
  NoUser = NoUser
INVARIANTS
  RowsMatchSums
  InEscrowIsLive
  MoneyConserved
  AckedMeansDone
  CompletionIsExact
  WindowIsHonoured
PROPERTIES
  ImplementsCustody
CHECK_DEADLOCK FALSE
