------------------------------ MODULE MCEscrow ------------------------------
(* Small instances of Escrow for TLC. *)
EXTENDS Escrow, TLC

CONSTANTS client, freelancer, c1, c2, m1, m2, m3, d1, d2, k1, k2

MCClientOf == [c \in Contracts |-> client]
MCFreelancerOf == [c \in Contracts |-> freelancer]
MCContractOf == [m \in Milestones |-> c1]
\* 1 and 2 cents: a ruling of 50 % splits one evenly and rounds the other.
MCAmount == [m \in Milestones |-> IF m = m1 THEN 1 ELSE 2]

\* One key per request, as a client that draws a UUID per button press has.
OneKeyPerRequest ==
  {<<NoKey, op, m>> : op \in {"fund", "approve"}, m \in Milestones}
    \union {<<k1, "fund", m1>>, <<k2, "approve", m1>>}

\* No keys at all, where the question is another.
NoKeyUse == {<<NoKey, op, m>> : op \in {"fund", "approve"}, m \in Milestones}

\* A client that sends one key with every request, and one that may also send none.
SharedKey == {<<k1, op, m>> : op \in {"fund", "approve"}, m \in Milestones}
SharedKeyOrNone == SharedKey \union NoKeyUse
FundKeyOrNone == {<<k1, "fund", m>> : m \in Milestones} \union NoKeyUse

\* Two contracts with the parties crossed: each user's income in one contract
\* pays for the other, so payouts and funds meet in the same wallet.
CrossedContractOf == [m \in Milestones |-> IF m = m2 THEN c2 ELSE c1]
CrossedClientOf == [c \in Contracts |-> IF c = c1 THEN client ELSE freelancer]
CrossedFreelancerOf == [c \in Contracts |-> IF c = c1 THEN freelancer ELSE client]

=============================================================================
