----------------------------- MODULE LedgerRows -----------------------------
(***************************************************************************)
(* The table escrow_transactions itself.  Escrow keeps the sums the code   *)
(* selects; here every insert also appends its rows to a bag, and the sums *)
(* are computed from the bag the way ledger.service.ts asks for them.      *)
(***************************************************************************)
EXTENDS Escrow, Bags

CONSTANT NoUser

ASSUME NoUserAssumption == NoUser \notin Users

VARIABLE rows

Row(type, from, to, m, cents) ==
  [type |-> type, from |-> from, to |-> to, milestone |-> m, cents |-> cents]

append(newRows) == rows' = rows (+) SetToBag({r \in newRows : r.cents # 0})

\* SELECT SUM(amountCents) ... WHERE.
SumWhere(where(_)) ==
  SumFunctionOnSet([r \in BagToSet(rows) |-> rows[r] * r.cents],
                   {r \in BagToSet(rows) : where(r)})

creditsOf(u) == SumWhere(LAMBDA r : r.to = u)
debitsOf(u) == SumWhere(LAMBDA r : r.from = u)
inflow(m) == SumWhere(LAMBDA r : r.milestone = m /\ r.type = "FUND")
outflow(m, types) == SumWhere(LAMBDA r : r.milestone = m /\ r.type \in types)

FaultyUserInEscrowCents(u) ==
  SumWhere(LAMBDA r : r.from = u /\ r.type = "FUND")
    - SumWhere(LAMBDA r : r.type = "RELEASE" /\ Client(r.milestone) = u)

\* What GET /api/wallet shows as locked: the user's FUND rows, less what left the
\* escrows of the contracts in which the user is the client.
userInEscrowCents(u) ==
  SumWhere(LAMBDA r : r.from = u /\ r.type = "FUND")
    - SumWhere(LAMBDA r : r.type \in {"RELEASE", "REFUND"} /\ Client(r.milestone) = u)

RowsInit == Init /\ rows = EmptyBag

depositRow(u, cents) ==
  deposit(u, cents) /\ append({Row("DEPOSIT", NoUser, u, NoMilestone, cents)})

fundRow(m) ==
  FundCommit(m) /\ append({Row("FUND", Client(m), NoUser, m, Amount[m])})

cancelRow(u, m) ==
  /\ cancelMilestone(u, m)
  /\ append(IF state[m] = "FUNDED"
              THEN {Row("REFUND", NoUser, u, m, milestoneEscrowCents(m))} ELSE {})

releaseRow(m) ==
  /\ ApproveCommit(m)
  /\ append({Row("RELEASE", NoUser, Freelancer(m), m, Amount[m])})

splitRows(m) ==
  /\ ResolveCommit(m)
  /\ LET toFreelancer == Share(milestoneEscrowCents(m), txn[m].pct)
         toClient == milestoneEscrowCents(m) - toFreelancer
     IN  append({Row("RELEASE", NoUser, Freelancer(m), m, toFreelancer),
                 Row("REFUND", NoUser, Client(m), m, toClient)})

RowsNext ==
  \/ \E u \in Users, cents \in DepositSizes : depositRow(u, cents)
  \/ \E m \in Milestones : fundRow(m)
  \/ \E u \in Users, m \in Milestones : cancelRow(u, m)
  \/ \E m \in Milestones : releaseRow(m)
  \/ \E m \in Milestones : splitRows(m)
  \/ UNCHANGED <<ledgerVars, rows>> /\ Next

RowsSpec == RowsInit /\ [][RowsNext]_<<vars, rows>>

-----------------------------------------------------------------------------

\* Every balance the code derives from the table is the sum Escrow keeps, whatever
\* the order in which funds, refunds, releases and splits of rounded halves append.
RowsMatchSums ==
  /\ \A u \in Users : creditsOf(u) = credits[u] /\ debitsOf(u) = debits[u]
  /\ \A m \in Milestones :
       /\ inflow(m) = funded[m]
       /\ outflow(m, {"RELEASE"}) = released[m]
       /\ outflow(m, {"REFUND"}) = refunded[m]

\* The figure a wallet shows as locked in escrow is the total of the client's
\* milestones that were funded and are not settled.
InEscrowIsLive ==
  \A u \in Users :
    userInEscrowCents(u) =
      SumFunctionOnSet(Amount, {m \in Milestones : Client(m) = u
                                  /\ state[m] \notin TerminalStates \union {"CREATED"}})

=============================================================================
