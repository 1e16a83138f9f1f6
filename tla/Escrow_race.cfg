SPECIFICATION Spec
CONSTANTS
  client = client
  freelancer = freelancer
  c1 = c1
  c2 = c2
  m1 = m1
  m2 = m2
  m3 = m3
  d1 = d1
  d2 = d2
  k1 = k1
  k2 = k2
  Users = {client, freelancer}
  Contracts = {c1}
  Milestones = {m1, m2}
  Disputes = {d1, d2}
  Keys = {k1, k2}
  NoKey = NoKey
  NoMilestone = NoMilestone
  NoDispute = NoDispute
  ClientOf <- MCClientOf
  FreelancerOf <- MCFreelancerOf
  ContractOf <- MCContractOf
  Amount <- MCAmount
  KeyUse <- NoKeyUse
  Percentages = {50}
  DepositSizes = {2}
  MaxDeposited = 4
  MaxFailures = 1
INVARIANTS
  ContractCompletesUncancelled
CHECK_DEADLOCK FALSE
