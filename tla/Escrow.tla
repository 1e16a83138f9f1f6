------------------------------- MODULE Escrow -------------------------------
(***************************************************************************)
(* The escrow state machine: escrow.service.ts over the append-only table  *)
(* escrow_transactions, with the auto-release sweep as one more caller.    *)
(*                                                                         *)
(* Every operation runs in a transaction that holds the row lock of its    *)
(* milestone, so at most one transaction per milestone is open: txn[m].    *)
(* An operation that only reads and writes what that lock protects is one  *)
(* action (cancelMilestone, openDispute...).  An operation that reads data *)
(* other transactions may change is split at each such read, under READ    *)
(* COMMITTED: fundMilestone (the wallet sums) and approveMilestone and     *)
(* resolveDispute (the count of open sibling milestones).                  *)
(*                                                                         *)
(* The ledger is kept as the sums the code selects from it.  The table is  *)
(* append-only, so a sum moves only when a row is inserted, and a row      *)
(* moves exactly the sums whose WHERE clause it matches.  LedgerRows       *)
(* checks this against the rows themselves.                                *)
(***************************************************************************)
EXTENDS Integers, FiniteSets, Functions

CONSTANTS
  Users,          \* user ids: a client and a freelancer per contract
  Contracts, Milestones, Disputes,
  Keys,           \* idempotency keys clients send
  NoKey, NoMilestone, NoDispute,
  ClientOf,       \* contract -> user
  FreelancerOf,   \* contract -> user
  ContractOf,     \* milestone -> contract
  Amount,         \* milestone -> cents
  KeyUse,         \* <<key, operation, milestone>>: the requests that carry a key
  Percentages,    \* the rulings an arbitrator sends
  DepositSizes,   \* the top-ups users send
  MaxDeposited,   \* bound: total top-ups per user
  MaxFailures     \* bound: crashes and rolled back transactions

\* Prisma's schema makes both references mandatory; proposals.routes.ts refuses
\* a bid on one's own job, so the two parties of a contract differ.
ASSUME PartiesAssumption ==
  /\ ContractOf \in [Milestones -> Contracts]
  /\ ClientOf \in [Contracts -> Users]
  /\ FreelancerOf \in [Contracts -> Users]
  /\ \A c \in Contracts : ClientOf[c] # FreelancerOf[c]

\* The milestone schema of proposals.routes.ts requires positive integer cents.
ASSUME AmountAssumption == Amount \in [Milestones -> Nat \ {0}]

\* depositSchema and resolveSchema of escrow.routes.ts.
ASSUME RequestAssumption ==
  /\ Percentages \subseteq 0 .. 100
  /\ DepositSizes \subseteq Nat \ {0}
  /\ MaxDeposited \in Nat
  /\ MaxFailures \in Nat
  /\ KeyUse \subseteq (Keys \union {NoKey}) \X {"fund", "approve"} \X Milestones

ASSUME SentinelAssumption ==
  NoKey \notin Keys /\ NoMilestone \notin Milestones /\ NoDispute \notin Disputes

\* The tables users and milestones hold finitely many rows.
ASSUME FinitenessAssumption == IsFiniteSet(Users) /\ IsFiniteSet(Milestones)

VARIABLES
  state, clock,                          \* columns of milestones
  contractStatus, records, dispute,      \* contracts, work_records, disputes
  funded, released, refunded,            \* SUM(amountCents) by milestone and type
  credits, debits,                       \* SUM(amountCents) by toUserId, fromUserId
  usedKeys,                              \* the unique column idempotencyKey
  deposited,                             \* SUM(amountCents) of DEPOSIT by user
  txn,                                   \* the open transaction of each milestone
  due,                                   \* what the sweep read and has not visited
  acked,                                 \* requests answered 200
  failures

milestoneVars == <<state, clock>>
ledgerVars == <<funded, released, refunded, credits, debits, usedKeys, deposited>>
otherRows == <<contractStatus, records, dispute>>
processVars == <<due, acked, failures>>
vars == <<milestoneVars, otherRows, ledgerVars, txn, processVars>>

-----------------------------------------------------------------------------
(* Rows, sums and transitions.                                             *)

MilestoneStates == {"CREATED", "FUNDED", "IN_PROGRESS", "SUBMITTED",
                    "DISPUTED", "RELEASED", "RESOLVED", "CANCELLED"}
TerminalStates == {"RELEASED", "RESOLVED", "CANCELLED"}

\* autoReleaseAt: null, in the future, or in the past.
ClockStates == {"none", "running", "lapsed"}

\* Names that start with Faulty are deliberately wrong variants of the definition
\* after them; they show that a property would notice such a fault.
FaultyTRANSITIONS == [CREATED     |-> {"FUNDED", "CANCELLED"},
                      FUNDED      |-> {"IN_PROGRESS", "DISPUTED", "CANCELLED"},
                      IN_PROGRESS |-> {"SUBMITTED", "DISPUTED"},
                      SUBMITTED   |-> {"RELEASED", "IN_PROGRESS", "DISPUTED"},
                      DISPUTED    |-> {"RESOLVED"},
                      RELEASED    |-> {},
                      RESOLVED    |-> {},
                      CANCELLED   |-> {"FUNDED"}]

TRANSITIONS == [CREATED     |-> {"FUNDED", "CANCELLED"},
                FUNDED      |-> {"IN_PROGRESS", "DISPUTED", "CANCELLED"},
                IN_PROGRESS |-> {"SUBMITTED", "DISPUTED"},
                SUBMITTED   |-> {"RELEASED", "IN_PROGRESS", "DISPUTED"},
                DISPUTED    |-> {"RESOLVED"},
                RELEASED    |-> {},
                RESOLVED    |-> {},
                CANCELLED   |-> {}]

FaultyAssertTransition(m, to) == state[m] \notin TerminalStates

assertTransition(m, to) == to \in TRANSITIONS[state[m]]

Client(m) == ClientOf[ContractOf[m]]
Freelancer(m) == FreelancerOf[ContractOf[m]]
Siblings(m) == {s \in Milestones : ContractOf[s] = ContractOf[m]} \ {m}

walletBalanceCents(u) == credits[u] - debits[u]
milestoneEscrowCents(m) == funded[m] - (released[m] + refunded[m])

FaultyShare(escrow, pct) == escrow * pct

\* Math.round((escrow * pct) / 100): halves round up.
Share(escrow, pct) == (2 * escrow * pct + 100) \div 200

insertDeposit(u, cents) ==
  /\ deposited' = [deposited EXCEPT ![u] = @ + cents]
  /\ credits' = [credits EXCEPT ![u] = @ + cents]
  /\ UNCHANGED <<funded, released, refunded, debits, usedKeys>>

insertFund(m, key) ==
  /\ funded' = [funded EXCEPT ![m] = @ + Amount[m]]
  /\ debits' = [debits EXCEPT ![Client(m)] = @ + Amount[m]]
  /\ usedKeys' = usedKeys \union ({key} \ {NoKey})
  /\ UNCHANGED <<released, refunded, credits, deposited>>

FaultyInsertPayout(m, toFreelancer, toClient, key) ==
  /\ released' = [released EXCEPT ![m] = @ + toFreelancer]
  /\ refunded' = [refunded EXCEPT ![m] = @ + toClient]
  /\ credits' = [credits EXCEPT ![Freelancer(m)] = @ + toFreelancer]
  /\ usedKeys' = usedKeys \union ({key} \ {NoKey})
  /\ UNCHANGED <<funded, debits, deposited>>

\* A RELEASE row and a REFUND row of m, in one commit; a row of 0 is not written.
insertPayout(m, toFreelancer, toClient, key) ==
  /\ released' = [released EXCEPT ![m] = @ + toFreelancer]
  /\ refunded' = [refunded EXCEPT ![m] = @ + toClient]
  /\ credits' = [credits EXCEPT ![Freelancer(m)] = @ + toFreelancer,
                                ![Client(m)] = @ + toClient]
  /\ usedKeys' = usedKeys \union ({key} \ {NoKey})
  /\ UNCHANGED <<funded, debits, deposited>>

-----------------------------------------------------------------------------
(* Transactions.                                                           *)

FundSteps == {"funding", "walletLocked", "creditsRead", "balanceOk"}
ApproveSteps == {"approving", "approveCounted"}
ResolveSteps == {"resolving", "resolveCounted"}
Steps == {"idle"} \union FundSteps \union ApproveSteps \union ResolveSteps

\* What a transaction carries from its request: a key (client requests), whether
\* the sweep opened it, the percentage and the dispute of a ruling.  What it reads
\* later: seen, the sum of credits, and last, whether no sibling is open.
TxnOf(step, key, auto, pct, d) ==
  [step |-> step, key |-> key, auto |-> auto, seen |-> 0,
   last |-> FALSE, pct |-> pct, dispute |-> d]

Idle == TxnOf("idle", NoKey, FALSE, 0, NoDispute)

FaultyMilestoneLock(m) == TRUE

\* SELECT ... FOR UPDATE returns only once no other transaction holds the row.
withMilestoneLock(m) == txn[m] = Idle

Advance(m, step) == txn' = [txn EXCEPT ![m].step = step]
EndTxn(m) == txn' = [txn EXCEPT ![m] = Idle]

FaultyWalletLock(u) == FALSE

FaultyWalletLockWaitsForItself(u) ==
  \E m \in Milestones : Client(m) = u /\ txn[m].step \in FundSteps

\* pg_advisory_xact_lock(hashtext('wallet:' + clientId)) is held to the end.
walletLockHeld(u) ==
  \E m \in Milestones : Client(m) = u /\ txn[m].step \in FundSteps \ {"funding"}

\* The sweep awaits one approval before it starts the next.
sweepBusy == \E m \in Milestones : txn[m].auto

FaultyAlreadyProcessed(key) == key # NoKey

alreadyProcessed(key) == key \in usedKeys

Init ==
  /\ state = [m \in Milestones |-> "CREATED"]
  /\ clock = [m \in Milestones |-> "none"]
  /\ contractStatus = [c \in Contracts |-> "ACTIVE"]
  /\ records = {}
  /\ dispute = [d \in Disputes |-> [on |-> NoMilestone, status |-> "none"]]
  /\ funded = [m \in Milestones |-> 0]
  /\ released = [m \in Milestones |-> 0]
  /\ refunded = [m \in Milestones |-> 0]
  /\ credits = [u \in Users |-> 0]
  /\ debits = [u \in Users |-> 0]
  /\ usedKeys = {}
  /\ deposited = [u \in Users |-> 0]
  /\ txn = [m \in Milestones |-> Idle]
  /\ due = {}
  /\ acked = {}
  /\ failures = 0

-----------------------------------------------------------------------------
(* deposit and fundMilestone.                                              *)

deposit(u, cents) ==
  /\ deposited[u] + cents <= MaxDeposited
  /\ insertDeposit(u, cents)
  /\ UNCHANGED <<milestoneVars, otherRows, txn, processVars>>

FundBegin(u, m, key) ==
  /\ withMilestoneLock(m)
  /\ u = Client(m)
  /\ <<key, "fund", m>> \in KeyUse
  /\ ~alreadyProcessed(key)
  /\ assertTransition(m, "FUNDED")
  /\ txn' = [txn EXCEPT ![m] = TxnOf("funding", key, FALSE, 0, NoDispute)]
  /\ UNCHANGED <<milestoneVars, otherRows, ledgerVars, processVars>>

\* A known key answers 200 before the state of the milestone is looked at.
FundReplay(u, m, key) ==
  /\ withMilestoneLock(m)
  /\ u = Client(m)
  /\ <<key, "fund", m>> \in KeyUse
  /\ alreadyProcessed(key)
  /\ acked' = acked \union {<<"fund", m>>}
  /\ UNCHANGED <<milestoneVars, otherRows, ledgerVars, txn, due, failures>>

WalletLock(m) ==
  /\ txn[m].step = "funding"
  /\ ~walletLockHeld(Client(m))
  /\ Advance(m, "walletLocked")
  /\ UNCHANGED <<milestoneVars, otherRows, ledgerVars, processVars>>

\* walletBalanceCents is two SELECTs: the credits, then the debits.
ReadCredits(m) ==
  /\ txn[m].step = "walletLocked"
  /\ txn' = [txn EXCEPT ![m] = [@ EXCEPT !.step = "creditsRead",
                                         !.seen = credits[Client(m)]]]
  /\ UNCHANGED <<milestoneVars, otherRows, ledgerVars, processVars>>

BalanceOk(m) ==
  /\ txn[m].step = "creditsRead"
  /\ txn[m].seen - debits[Client(m)] >= Amount[m]
  /\ Advance(m, "balanceOk")
  /\ UNCHANGED <<milestoneVars, otherRows, ledgerVars, processVars>>

InsufficientFunds(m) ==
  /\ txn[m].step = "creditsRead"
  /\ txn[m].seen - debits[Client(m)] < Amount[m]
  /\ EndTxn(m)
  /\ UNCHANGED <<milestoneVars, otherRows, ledgerVars, processVars>>

FundCommit(m) ==
  /\ txn[m].step = "balanceOk"
  /\ ~alreadyProcessed(txn[m].key)
  /\ insertFund(m, txn[m].key)
  /\ state' = [state EXCEPT ![m] = "FUNDED"]
  /\ acked' = acked \union {<<"fund", m>>}
  /\ EndTxn(m)
  /\ UNCHANGED <<clock, otherRows, due, failures>>

-----------------------------------------------------------------------------
(* Operations that stay inside their milestone's lock.                     *)

startMilestone(u, m) ==
  /\ withMilestoneLock(m)
  /\ u = Freelancer(m)
  /\ assertTransition(m, "IN_PROGRESS")
  /\ state' = [state EXCEPT ![m] = "IN_PROGRESS"]
  /\ UNCHANGED <<clock, otherRows, ledgerVars, txn, processVars>>

submitMilestone(u, m) ==
  /\ withMilestoneLock(m)
  /\ u = Freelancer(m)
  /\ assertTransition(m, "SUBMITTED")
  /\ state' = [state EXCEPT ![m] = "SUBMITTED"]
  /\ clock' = [clock EXCEPT ![m] = "running"]
  /\ UNCHANGED <<otherRows, ledgerVars, txn, processVars>>

requestChanges(u, m) ==
  /\ withMilestoneLock(m)
  /\ u = Client(m)
  /\ assertTransition(m, "IN_PROGRESS")
  /\ state' = [state EXCEPT ![m] = "IN_PROGRESS"]
  /\ clock' = [clock EXCEPT ![m] = "none"]
  /\ UNCHANGED <<otherRows, ledgerVars, txn, processVars>>

\* Only a FUNDED milestone holds money to give back.
cancelMilestone(u, m) ==
  /\ withMilestoneLock(m)
  /\ u = Client(m)
  /\ assertTransition(m, "CANCELLED")
  /\ insertPayout(m, 0, IF state[m] = "FUNDED" THEN milestoneEscrowCents(m) ELSE 0, NoKey)
  /\ state' = [state EXCEPT ![m] = "CANCELLED"]
  /\ UNCHANGED <<clock, otherRows, txn, processVars>>

openDispute(u, m, d) ==
  /\ withMilestoneLock(m)
  /\ u \in {Client(m), Freelancer(m)}
  /\ assertTransition(m, "DISPUTED")
  /\ dispute[d].status = "none"
  /\ dispute' = [dispute EXCEPT ![d] = [on |-> m, status |-> "OPEN"]]
  /\ state' = [state EXCEPT ![m] = "DISPUTED"]
  /\ clock' = [clock EXCEPT ![m] = "none"]
  /\ UNCHANGED <<contractStatus, records, ledgerVars, txn, processVars>>

-----------------------------------------------------------------------------
(* approveMilestone and resolveDispute: both look at the sibling milestones, *)
(* whose rows other transactions may be changing.                          *)

\* LEDGER_MISMATCH refuses the approval when the escrow is not the amount.
approvable(m) ==
  assertTransition(m, "RELEASED") /\ milestoneEscrowCents(m) = Amount[m]

ApproveBegin(u, m, key) ==
  /\ withMilestoneLock(m)
  /\ u = Client(m)
  /\ <<key, "approve", m>> \in KeyUse
  /\ ~alreadyProcessed(key)
  /\ approvable(m)
  /\ txn' = [txn EXCEPT ![m] = TxnOf("approving", key, FALSE, 0, NoDispute)]
  /\ UNCHANGED <<milestoneVars, otherRows, ledgerVars, processVars>>

ApproveReplay(u, m, key) ==
  /\ withMilestoneLock(m)
  /\ u = Client(m)
  /\ <<key, "approve", m>> \in KeyUse
  /\ alreadyProcessed(key)
  /\ acked' = acked \union {<<"approve", m>>}
  /\ UNCHANGED <<milestoneVars, otherRows, ledgerVars, txn, due, failures>>

FaultyNoOpenSibling(m) ==
  \A s \in Siblings(m) : state[s] \in TerminalStates \ {"CANCELLED"}

\* The count of sibling milestones that are not in a terminal state is 0.
noOpenSibling(m) == \A s \in Siblings(m) : state[s] \in TerminalStates

CountOpen(m) ==
  /\ txn[m].step \in {"approving", "resolving"}
  /\ LET counted == IF txn[m].step = "approving" THEN "approveCounted" ELSE "resolveCounted"
     IN  txn' = [txn EXCEPT ![m] = [@ EXCEPT !.step = counted, !.last = noOpenSibling(m)]]
  /\ UNCHANGED <<milestoneVars, otherRows, ledgerVars, processVars>>

completeContract(m) ==
  contractStatus' = IF txn[m].last
                      THEN [contractStatus EXCEPT ![ContractOf[m]] = "COMPLETED"]
                      ELSE contractStatus

ApproveCommit(m) ==
  /\ txn[m].step = "approveCounted"
  /\ ~alreadyProcessed(txn[m].key)
  /\ insertPayout(m, Amount[m], 0, txn[m].key)
  /\ state' = [state EXCEPT ![m] = "RELEASED"]
  /\ clock' = [clock EXCEPT ![m] = "none"]
  /\ records' = records \union {m}
  /\ completeContract(m)
  /\ acked' = IF txn[m].auto THEN acked ELSE acked \union {<<"approve", m>>}
  /\ EndTxn(m)
  /\ UNCHANGED <<dispute, due, failures>>

\* The status OPEN was read before the lock: it says only that d was raised.
ResolveBegin(d, pct) ==
  /\ dispute[d].status # "none"
  /\ LET m == dispute[d].on IN
       /\ withMilestoneLock(m)
       /\ assertTransition(m, "RESOLVED")
       /\ txn' = [txn EXCEPT ![m] = TxnOf("resolving", NoKey, FALSE, pct, d)]
  /\ UNCHANGED <<milestoneVars, otherRows, ledgerVars, processVars>>

ResolveCommit(m) ==
  /\ txn[m].step = "resolveCounted"
  /\ LET escrow == milestoneEscrowCents(m)
         toFreelancer == Share(escrow, txn[m].pct)
     IN  insertPayout(m, toFreelancer, escrow - toFreelancer, NoKey)
  /\ dispute' = [dispute EXCEPT ![txn[m].dispute].status = "RESOLVED"]
  /\ state' = [state EXCEPT ![m] = "RESOLVED"]
  /\ completeContract(m)
  /\ EndTxn(m)
  /\ UNCHANGED <<clock, records, processVars>>

-----------------------------------------------------------------------------
(* sweepAutoReleases: one list, then one approval after the other.         *)

FaultySweepList ==
  /\ due = {} /\ ~sweepBusy
  /\ due' = {m \in Milestones : state[m] = "SUBMITTED"}
  /\ UNCHANGED <<milestoneVars, otherRows, ledgerVars, txn, acked, failures>>

SweepList ==
  /\ due = {} /\ ~sweepBusy
  /\ due' = {m \in Milestones : state[m] = "SUBMITTED" /\ clock[m] = "lapsed"}
  /\ UNCHANGED <<milestoneVars, otherRows, ledgerVars, txn, acked, failures>>

\* The state is read again under the lock, the deadline is not.
SweepApprove(m) ==
  /\ m \in due /\ ~sweepBusy
  /\ withMilestoneLock(m)
  /\ approvable(m)
  /\ txn' = [txn EXCEPT ![m] = TxnOf("approving", NoKey, TRUE, 0, NoDispute)]
  /\ due' = due \ {m}
  /\ UNCHANGED <<milestoneVars, otherRows, ledgerVars, acked, failures>>

\* The approval throws, the loop catches and goes on.
SweepSkip(m) ==
  /\ m \in due /\ ~sweepBusy
  /\ withMilestoneLock(m)
  /\ ~approvable(m)
  /\ due' = due \ {m}
  /\ UNCHANGED <<milestoneVars, otherRows, ledgerVars, txn, acked, failures>>

FaultySweepVisit(m) == SweepApprove(m)

\* One turn of the loop over the list.
SweepVisit(m) == SweepApprove(m) \/ SweepSkip(m)

\* Time passes: the deadline of a submission moves into the past.
Lapse(m) ==
  /\ clock[m] = "running"
  /\ clock' = [clock EXCEPT ![m] = "lapsed"]
  /\ UNCHANGED <<state, otherRows, ledgerVars, txn, processVars>>

-----------------------------------------------------------------------------
(* Transactions that do not commit.                                        *)

\* The INSERT of a key another transaction committed meanwhile throws P2002.
KeyTaken(m) ==
  /\ txn[m].step \in {"balanceOk", "approveCounted"}
  /\ alreadyProcessed(txn[m].key)
  /\ EndTxn(m)
  /\ UNCHANGED <<milestoneVars, otherRows, ledgerVars, processVars>>

\* The transaction timeout of 15 s, a lost connection, a failing signature.
Rollback(m) ==
  /\ txn[m] # Idle
  /\ failures < MaxFailures
  /\ failures' = failures + 1
  /\ EndTxn(m)
  /\ UNCHANGED <<milestoneVars, otherRows, ledgerVars, due, acked>>

\* The API process stops: PostgreSQL rolls back what was open, the sweep's list
\* is gone.  The worker lives in the same process.
Crash ==
  /\ failures < MaxFailures
  /\ failures' = failures + 1
  /\ txn' = [m \in Milestones |-> Idle]
  /\ due' = {}
  /\ UNCHANGED <<milestoneVars, otherRows, ledgerVars, acked>>

-----------------------------------------------------------------------------
Requests ==
  \/ \E u \in Users, cents \in DepositSizes : deposit(u, cents)
  \/ \E u \in Users, m \in Milestones, key \in Keys \union {NoKey} :
       \/ FundBegin(u, m, key)
       \/ FundReplay(u, m, key)
       \/ ApproveBegin(u, m, key)
       \/ ApproveReplay(u, m, key)
  \/ \E u \in Users, m \in Milestones :
       \/ startMilestone(u, m)
       \/ submitMilestone(u, m)
       \/ requestChanges(u, m)
       \/ cancelMilestone(u, m)
  \/ \E u \in Users, m \in Milestones, d \in Disputes : openDispute(u, m, d)
  \/ \E d \in Disputes, pct \in Percentages : ResolveBegin(d, pct)

\* The steps a transaction takes on its own once it holds its milestone.
Proceed(m) ==
  \/ ReadCredits(m)
  \/ BalanceOk(m)
  \/ InsufficientFunds(m)
  \/ FundCommit(m)
  \/ CountOpen(m)
  \/ ApproveCommit(m)
  \/ ResolveCommit(m)
  \/ KeyTaken(m)

Next ==
  \/ Requests
  \/ \E m \in Milestones : WalletLock(m) \/ Proceed(m) \/ Lapse(m) \/ Rollback(m)
  \/ SweepList
  \/ \E m \in Milestones : SweepVisit(m)
  \/ Crash

Spec == Init /\ [][Next]_vars

\* The server runs every statement it was sent; PostgreSQL queues the waiters of
\* a lock first come, first served, so no fund waits for ever while others pass;
\* the scheduler runs the sweep every minute and the sweep visits its whole list.
Fairness ==
  /\ \A m \in Milestones : WF_vars(Proceed(m)) /\ SF_vars(WalletLock(m))
  /\ WF_vars(SweepList)
  /\ \A m \in Milestones : WF_vars(SweepVisit(m))

FairSpec == Spec /\ Fairness

-----------------------------------------------------------------------------
(* Properties.                                                             *)

RowTypeOK ==
  /\ state \in [Milestones -> MilestoneStates]
  /\ clock \in [Milestones -> ClockStates]
  /\ contractStatus \in [Contracts -> {"ACTIVE", "COMPLETED"}]
  /\ records \subseteq Milestones
  /\ dispute \in [Disputes -> [on : Milestones \union {NoMilestone},
                               status : {"none", "OPEN", "RESOLVED"}]]

LedgerTypeOK ==
  /\ funded \in [Milestones -> Nat]
  /\ released \in [Milestones -> Nat]
  /\ refunded \in [Milestones -> Nat]
  /\ credits \in [Users -> Nat]
  /\ debits \in [Users -> Nat]
  /\ deposited \in [Users -> Nat]
  /\ usedKeys \subseteq Keys

Txn == [step : Steps, key : Keys \union {NoKey}, auto : BOOLEAN, seen : Nat,
        last : BOOLEAN, pct : 0 .. 100, dispute : Disputes \union {NoDispute}]

ProcessTypeOK ==
  /\ txn \in [Milestones -> Txn]
  /\ due \subseteq Milestones
  /\ acked \subseteq {"fund", "approve"} \X Milestones
  /\ failures \in Nat

\* The columns, sums and open transactions have the types the schema gives them;
\* no sum and no row is ever negative.
TypeOK == RowTypeOK /\ LedgerTypeOK /\ ProcessTypeOK

\* The ledger and the state machine agree: a live milestone holds exactly its
\* amount, a terminal one holds nothing and paid out exactly what was put in.
\* approveMilestone calls this its invariant and answers LEDGER_MISMATCH.
LedgerAgreesWithState ==
  \A m \in Milestones :
    /\ state[m] = "CREATED" => funded[m] = 0
    /\ state[m] \notin {"CREATED", "CANCELLED"} => funded[m] = Amount[m]
    /\ state[m] = "CANCELLED" => released[m] = 0 /\ funded[m] \in {0, Amount[m]}
    /\ state[m] = "RELEASED" => refunded[m] = 0
    /\ released[m] + refunded[m] = IF state[m] \in TerminalStates THEN funded[m] ELSE 0

\* No interleaving of funds, payouts and top-ups spends a wallet below zero: the
\* advisory lock of fundMilestone closes the gap between the sums and the row.
WalletNeverOverdrawn == \A u \in Users : walletBalanceCents(u) >= 0

\* A contract is marked COMPLETED only when none of its milestones can move again.
CompletedMeansSettled ==
  \A c \in Contracts : contractStatus[c] = "COMPLETED" =>
    \A m \in Milestones : ContractOf[m] = c => state[m] \in TerminalStates

\* A milestone is in dispute exactly while one dispute about it is open, and a
\* milestone is disputed once in its life: why resolveDispute may trust a status
\* it read before it took the lock.
DisputesMatchState ==
  /\ \A m \in Milestones :
       state[m] = "DISPUTED" <=> \E d \in Disputes : dispute[d] = [on |-> m, status |-> "OPEN"]
  /\ \A d, e \in Disputes :
       dispute[d].status # "none" /\ dispute[e].on = dispute[d].on => e = d

\* Money leaves the escrow of a milestone in one commit, never in a second one,
\* whatever retries, sweeps and rulings overlap.
PaidOutOnce ==
  [][\A m \in Milestones :
       released[m] + refunded[m] > 0 => UNCHANGED <<released[m], refunded[m]>>]_vars

\* A disputed milestone never auto-pays and is not paid by a late approval: only
\* the ruling on its own dispute moves it.
DisputeFreezesEscrow ==
  [][\A m \in Milestones : state[m] = "DISPUTED" /\ state'[m] # "DISPUTED" =>
       /\ state'[m] = "RESOLVED"
       /\ txn[m].step = "resolveCounted"
       /\ dispute[txn[m].dispute] = [on |-> m, status |-> "OPEN"]]_vars

\* Each key stands for one request, as a client has it that draws a UUID per press
\* of a button.
KeysNameRequests == \A r, q \in KeyUse : r[1] = q[1] /\ r[1] # NoKey => r = q

\* A client that was answered 200 has what it asked for: the milestone was funded,
\* or its money went to the freelancer.  Of the keys this needs KeysNameRequests.
AckedMeansDone ==
  \A m \in Milestones :
    /\ <<"fund", m>> \in acked => funded[m] = Amount[m]
    /\ <<"approve", m>> \in acked => state[m] = "RELEASED"

\* The sweep approves only what the client has been silent about for the whole
\* review window.  Does not hold: see the known gaps in the README.
AutoReleaseHonoursWindow == \A m \in Milestones : txn[m].auto => clock[m] = "lapsed"

settled(c) ==
  \A m \in Milestones : ContractOf[m] = c => state[m] \in TerminalStates /\ txn[m] = Idle

\* A contract is COMPLETED once its last milestone reached a terminal state.  Does not
\* hold when that milestone is cancelled: see the known gaps in the README.
ContractCompletes ==
  \A c \in Contracts : settled(c) => contractStatus[c] = "COMPLETED"

\* The same, of contracts none of whose milestones was cancelled: what is left is
\* the race of the last two milestones.
ContractCompletesUncancelled ==
  \A c \in Contracts :
    settled(c) /\ (\A m \in Milestones : ContractOf[m] = c => state[m] # "CANCELLED")
      => contractStatus[c] = "COMPLETED"

\* A lapsed submission does not wait for ever: it is released, or the client or a
\* dispute takes it out of the sweep's hands.
LapsedIsHandled ==
  \A m \in Milestones :
    (state[m] = "SUBMITTED" /\ clock[m] = "lapsed")
      ~> ~(state[m] = "SUBMITTED" /\ clock[m] = "lapsed")

\* Nobody waits for ever on the two locks: every open transaction ends.
TransactionsEnd == \A m \in Milestones : (txn[m] # Idle) ~> (txn[m] = Idle)

walletOf == [u \in Users |-> walletBalanceCents(u)]
heldBy == [m \in Milestones |-> milestoneEscrowCents(m)]

\* The total of wallets and escrows is what users paid in: nothing is printed,
\* nothing is lost, in any state between two commits.
MoneyConserved ==
  SumFunctionOnSet(walletOf, Users) + SumFunctionOnSet(heldBy, Milestones)
    = SumFunctionOnSet(deposited, Users)

\* The escrow is a custodian: a wallet is the sums of its rows, a milestone is open
\* until it has a FUND row.  The reads of fundMilestone are not one step, yet no
\* interleaving of them can be told from the custodian that looks and takes at once.
Payer == [m \in Milestones |-> Client(m)]
Payee == [m \in Milestones |-> Freelancer(m)]
neverFunded == {m \in Milestones : funded[m] = 0}

Abstract == INSTANCE Custody WITH wallet <- walletOf, held <- heldBy, open <- neverFunded

\* Every behaviour of the escrow is one of the custodian.
ImplementsCustody == Abstract!CustodySpec

=============================================================================
