---------------------------- MODULE EscrowProofs ----------------------------
(***************************************************************************)
(* Proofs about Escrow, LedgerRows and Settlements, for any number of      *)
(* users, contracts, milestones, disputes, keys, rows and cents.           *)
(***************************************************************************)
EXTENDS LedgerRows, Settlements, FiniteSetTheorems, WellFoundedInduction, TLAPS

-----------------------------------------------------------------------------
(* The inductive invariant: what the locks protect while a transaction is  *)
(* under way, and what the stable properties need of each other.           *)

\* What a transaction found under the milestone's lock still holds: nobody else
\* moves the milestone or its dispute.
LockedRowsStay ==
  \A m \in Milestones :
    /\ txn[m].step \in FundSteps => state[m] = "CREATED"
    /\ txn[m].step \in ApproveSteps => state[m] = "SUBMITTED"
    /\ txn[m].step \in ResolveSteps =>
         /\ state[m] = "DISPUTED"
         /\ txn[m].dispute \in Disputes
         /\ dispute[txn[m].dispute] = [on |-> m, status |-> "OPEN"]

\* What a fund found under the wallet's lock still holds: the debits stand still
\* and the credits only grow.
LockedWalletStays ==
  /\ \A m, n \in Milestones :
       /\ Client(m) = Client(n)
       /\ txn[m].step \in FundSteps \ {"funding"}
       /\ txn[n].step \in FundSteps \ {"funding"}
       => m = n
  /\ \A m \in Milestones :
       /\ txn[m].step \in {"creditsRead", "balanceOk"} => txn[m].seen <= credits[Client(m)]
       /\ txn[m].step = "balanceOk" => debits[Client(m)] + Amount[m] <= credits[Client(m)]

\* A count of no open siblings stays right: terminal states are final.
CountStays ==
  \A m \in Milestones :
    txn[m].step \in {"approveCounted", "resolveCounted"} /\ txn[m].last => noOpenSibling(m)

\* A dispute that was raised is about a milestone, disputed or resolved.
DisputesAreAttached ==
  \A d \in Disputes :
    IF dispute[d].status = "none"
      THEN dispute[d].on = NoMilestone
      ELSE dispute[d].on \in Milestones /\ state[dispute[d].on] \in {"DISPUTED", "RESOLVED"}

Inv ==
  /\ TypeOK
  /\ LedgerAgreesWithState
  /\ WalletNeverOverdrawn
  /\ CompletedMeansSettled
  /\ DisputesMatchState
  /\ LockedRowsStay
  /\ LockedWalletStays
  /\ CountStays
  /\ DisputesAreAttached

-----------------------------------------------------------------------------
(* Operators.                                                              *)

\* A ruling splits an escrow into two parts, neither of them negative.
LEMMA ShareSplits ==
  ASSUME NEW escrow \in Nat, NEW pct \in 0 .. 100
  PROVE  Share(escrow, pct) \in 0 .. escrow
<1>1. 2 * escrow * pct \in Nat /\ 2 * escrow * pct <= 200 * escrow
  <2>1. escrow * pct \in Nat
    OBVIOUS
  <2>2. escrow * (100 - pct) \in Nat
    OBVIOUS
  <2>3. escrow * (100 - pct) = 100 * escrow - escrow * pct
    OBVIOUS
  <2>4. 2 * escrow * pct = 2 * (escrow * pct)
    OBVIOUS
  <2> QED
    BY <2>1, <2>2, <2>3, <2>4
<1>2. ASSUME NEW x \in Nat, x <= 200 * escrow
      PROVE  (x + 100) \div 200 \in 0 .. escrow
  BY <1>2
<1> QED
  BY <1>1, <1>2 DEF Share

\* The two parties of a milestone are users, and not the same one.
LEMMA Parties ==
  \A m \in Milestones :
    Client(m) \in Users /\ Freelancer(m) \in Users /\ Client(m) # Freelancer(m)
BY PartiesAssumption DEF Client, Freelancer

\* The transition table, read backwards.
LEMMA Sources ==
  ASSUME TypeOK, NEW m \in Milestones
  PROVE  /\ assertTransition(m, "FUNDED") => state[m] = "CREATED"
         /\ assertTransition(m, "CANCELLED") => state[m] \in {"CREATED", "FUNDED"}
         /\ assertTransition(m, "IN_PROGRESS") => state[m] \in {"FUNDED", "SUBMITTED"}
         /\ assertTransition(m, "SUBMITTED") => state[m] = "IN_PROGRESS"
         /\ assertTransition(m, "DISPUTED") => state[m] \in {"FUNDED", "IN_PROGRESS", "SUBMITTED"}
         /\ assertTransition(m, "RELEASED") => state[m] = "SUBMITTED"
         /\ assertTransition(m, "RESOLVED") => state[m] = "DISPUTED"
<1>1. /\ TRANSITIONS["CREATED"] = {"FUNDED", "CANCELLED"}
      /\ TRANSITIONS["FUNDED"] = {"IN_PROGRESS", "DISPUTED", "CANCELLED"}
      /\ TRANSITIONS["IN_PROGRESS"] = {"SUBMITTED", "DISPUTED"}
      /\ TRANSITIONS["SUBMITTED"] = {"RELEASED", "IN_PROGRESS", "DISPUTED"}
      /\ TRANSITIONS["DISPUTED"] = {"RESOLVED"}
      /\ TRANSITIONS["RELEASED"] = {}
      /\ TRANSITIONS["RESOLVED"] = {}
      /\ TRANSITIONS["CANCELLED"] = {}
  BY DEF TRANSITIONS
<1>2. state[m] \in MilestoneStates
  BY DEF TypeOK, RowTypeOK
<1> QED
  BY <1>1, <1>2 DEF MilestoneStates, assertTransition

-----------------------------------------------------------------------------
(* Typing.                                                                 *)

\* The empty database satisfies the inductive invariant.
LEMMA InitInv == Init => Inv
<1> SUFFICES ASSUME Init PROVE Inv
  OBVIOUS
<1> USE DEF Init, Idle, TxnOf
<1>1. TypeOK
  BY DEF TypeOK, RowTypeOK, LedgerTypeOK, ProcessTypeOK, Txn,
         MilestoneStates, ClockStates, Steps
<1>2. LedgerAgreesWithState
  BY DEF LedgerAgreesWithState, TerminalStates
<1>3. WalletNeverOverdrawn
  <2> SUFFICES ASSUME NEW u \in Users PROVE credits[u] - debits[u] >= 0
    BY DEF WalletNeverOverdrawn, walletBalanceCents
  <2>1. credits[u] = 0 /\ debits[u] = 0
    BY Zenon
  <2> QED
    BY ONLY <2>1
<1>4. CompletedMeansSettled
  BY DEF CompletedMeansSettled
<1>5. DisputesMatchState /\ DisputesAreAttached
  BY DEF DisputesMatchState, DisputesAreAttached
<1>6. LockedRowsStay /\ LockedWalletStays /\ CountStays
  BY DEF LockedRowsStay, LockedWalletStays, CountStays,
         FundSteps, ApproveSteps, ResolveSteps
<1> QED
  BY <1>1, <1>2, <1>3, <1>4, <1>5, <1>6 DEF Inv

\* A sum of the ledger stays a natural number under the rows the code inserts.
LEMMA InsertTyping ==
  ASSUME LedgerTypeOK, NEW m \in Milestones, NEW key \in Keys \union {NoKey}
  PROVE  /\ insertFund(m, key) => LedgerTypeOK'
         /\ \A a, b \in Nat : insertPayout(m, a, b, key) => LedgerTypeOK'
<1> USE DEF LedgerTypeOK
<1>1. Client(m) \in Users /\ Freelancer(m) \in Users /\ Client(m) # Freelancer(m)
  BY Parties
<1>2. Amount[m] \in Nat
  BY AmountAssumption
<1>3. ASSUME insertFund(m, key) PROVE LedgerTypeOK'
  BY <1>1, <1>2, <1>3 DEF insertFund
<1>4. ASSUME NEW a \in Nat, NEW b \in Nat, insertPayout(m, a, b, key) PROVE LedgerTypeOK'
  BY <1>1, <1>4 DEF insertPayout
<1> QED
  BY <1>3, <1>4

\* An escrow never holds a negative sum.
LEMMA EscrowTyping ==
  ASSUME Inv, NEW m \in Milestones
  PROVE  milestoneEscrowCents(m) \in Nat
<1>1. /\ state[m] \in MilestoneStates
      /\ funded[m] \in Nat /\ released[m] \in Nat /\ refunded[m] \in Nat
  BY DEF Inv, TypeOK, RowTypeOK, LedgerTypeOK
<1>2. released[m] + refunded[m] = IF state[m] \in TerminalStates THEN funded[m] ELSE 0
  BY DEF Inv, LedgerAgreesWithState
<1> QED
  BY <1>1, <1>2 DEF milestoneEscrowCents

\* No insert makes a sum negative: every handler appends amounts of 0 or more.
LEMMA LedgerTyping ==
  ASSUME Inv, [Next]_vars
  PROVE  LedgerTypeOK'
<1>1. LedgerTypeOK
  BY DEF Inv, TypeOK
<1>2. CASE UNCHANGED ledgerVars
  BY <1>1, <1>2 DEF LedgerTypeOK, ledgerVars
<1>3. ASSUME NEW u \in Users, NEW cents \in DepositSizes, deposit(u, cents)
      PROVE  LedgerTypeOK'
  BY <1>1, <1>3, RequestAssumption DEF LedgerTypeOK, deposit, insertDeposit
<1>4. ASSUME NEW m \in Milestones, FundCommit(m) PROVE LedgerTypeOK'
  <2>1. txn[m].key \in Keys \union {NoKey}
    BY DEF Inv, TypeOK, ProcessTypeOK, Txn
  <2> QED
    BY <1>1, <1>4, <2>1, InsertTyping DEF FundCommit
<1>5. ASSUME NEW u \in Users, NEW m \in Milestones, cancelMilestone(u, m)
      PROVE  LedgerTypeOK'
  BY <1>1, <1>5, InsertTyping, EscrowTyping DEF cancelMilestone
<1>6. ASSUME NEW m \in Milestones, ApproveCommit(m)
      PROVE  LedgerTypeOK'
  <2>1. txn[m].key \in Keys \union {NoKey}
    BY DEF Inv, TypeOK, ProcessTypeOK, Txn
  <2>2. Amount[m] \in Nat
    BY AmountAssumption
  <2> QED
    BY <1>1, <1>6, <2>1, <2>2, InsertTyping DEF ApproveCommit
<1>7. ASSUME NEW m \in Milestones, ResolveCommit(m) PROVE LedgerTypeOK'
  <2> DEFINE escrow == milestoneEscrowCents(m)
             toFreelancer == Share(escrow, txn[m].pct)
  <2>1. txn[m].pct \in 0 .. 100
    BY DEF Inv, TypeOK, ProcessTypeOK, Txn
  <2>2. escrow \in Nat
    BY EscrowTyping
  <2>3. toFreelancer \in 0 .. escrow
    BY <2>1, <2>2, ShareSplits
  <2>4. insertPayout(m, toFreelancer, escrow - toFreelancer, NoKey)
    BY <1>7 DEF ResolveCommit
  <2>5. toFreelancer \in Nat /\ escrow - toFreelancer \in Nat
    BY <2>2, <2>3
  <2> HIDE DEF escrow, toFreelancer
  <2> QED
    BY <1>1, <2>4, <2>5, InsertTyping
<1> QED
  BY <1>2, <1>3, <1>4, <1>5, <1>6, <1>7
     DEF Next, Requests, Proceed, SweepVisit, vars,
         FundBegin, FundReplay, ApproveBegin, ApproveReplay, startMilestone, submitMilestone,
         requestChanges, openDispute, ResolveBegin, WalletLock, ReadCredits, BalanceOk,
         InsufficientFunds, CountOpen, KeyTaken, Lapse, Rollback, SweepList, SweepApprove,
         SweepSkip, Crash


\* The steps of a transaction keep its record well formed.
LEMMA ProcessTyping ==
  ASSUME Inv, [Next]_vars
  PROVE  ProcessTypeOK'
<1>1. ProcessTypeOK /\ LedgerTypeOK
  BY DEF Inv, TypeOK
<1>2. Idle \in Txn
  BY DEF Idle, TxnOf, Txn, Steps
<1>3. ASSUME NEW m \in Milestones, EndTxn(m) PROVE txn' \in [Milestones -> Txn]
  BY <1>1, <1>2, <1>3 DEF ProcessTypeOK, EndTxn
<1>4. ASSUME NEW m \in Milestones, NEW step \in Steps, Advance(m, step)
      PROVE  txn' \in [Milestones -> Txn]
  BY <1>1, <1>4 DEF ProcessTypeOK, Advance, Txn
<1>5. CASE UNCHANGED <<txn, processVars>>
  BY <1>1, <1>5 DEF ProcessTypeOK, processVars
<1>6. ASSUME NEW u \in Users, NEW m \in Milestones, NEW key \in Keys \union {NoKey},
             FundBegin(u, m, key) \/ ApproveBegin(u, m, key)
      PROVE  ProcessTypeOK'
  <2>1. /\ TxnOf("funding", key, FALSE, 0, NoDispute) \in Txn
        /\ TxnOf("approving", key, FALSE, 0, NoDispute) \in Txn
    BY DEF TxnOf, Txn, Steps, FundSteps, ApproveSteps
  <2> QED
    BY <1>1, <1>6, <2>1 DEF ProcessTypeOK, processVars, FundBegin, ApproveBegin
<1>7. ASSUME NEW u \in Users, NEW m \in Milestones, NEW key \in Keys \union {NoKey},
             FundReplay(u, m, key) \/ ApproveReplay(u, m, key)
      PROVE  ProcessTypeOK'
  BY <1>1, <1>7 DEF ProcessTypeOK, FundReplay, ApproveReplay
<1>8. ASSUME NEW m \in Milestones, WalletLock(m) \/ BalanceOk(m)
      PROVE  ProcessTypeOK'
  BY <1>1, <1>4, <1>8 DEF ProcessTypeOK, processVars, WalletLock, BalanceOk, Steps, FundSteps
<1>9. ASSUME NEW m \in Milestones, ReadCredits(m) PROVE ProcessTypeOK'
  <2>1. credits[Client(m)] \in Nat
    BY <1>1, Parties DEF LedgerTypeOK
  <2>2. txn[m] \in Txn
    BY <1>1 DEF ProcessTypeOK
  <2>3. [txn[m] EXCEPT !.step = "creditsRead", !.seen = credits[Client(m)]] \in Txn
    BY <2>1, <2>2 DEF Txn, Steps, FundSteps
  <2> QED
    BY <1>1, <1>9, <2>3 DEF ProcessTypeOK, processVars, ReadCredits
<1>10. ASSUME NEW m \in Milestones, CountOpen(m) PROVE ProcessTypeOK'
  <2>1. noOpenSibling(m) \in BOOLEAN
    BY DEF noOpenSibling
  <2>2. txn[m] \in Txn
    BY <1>1 DEF ProcessTypeOK
  <2>3. \A step \in {"approveCounted", "resolveCounted"} :
          [txn[m] EXCEPT !.step = step, !.last = noOpenSibling(m)] \in Txn
    BY <2>1, <2>2 DEF Txn, Steps, ApproveSteps, ResolveSteps
  <2> QED
    BY <1>1, <1>10, <2>3 DEF ProcessTypeOK, processVars, CountOpen
<1>11. ASSUME NEW m \in Milestones, FundCommit(m) PROVE ProcessTypeOK'
  BY <1>1, <1>3, <1>11 DEF ProcessTypeOK, FundCommit
<1>12. ASSUME NEW m \in Milestones, ApproveCommit(m)
       PROVE  ProcessTypeOK'
  BY <1>1, <1>3, <1>12 DEF ProcessTypeOK, ApproveCommit
<1>13. ASSUME NEW m \in Milestones,
              InsufficientFunds(m) \/ ResolveCommit(m) \/ KeyTaken(m) \/ Rollback(m)
       PROVE  ProcessTypeOK'
  BY <1>1, <1>3, <1>13
     DEF ProcessTypeOK, processVars, InsufficientFunds, ResolveCommit, KeyTaken, Rollback
<1>14. ASSUME NEW d \in Disputes, NEW pct \in Percentages, ResolveBegin(d, pct)
       PROVE  ProcessTypeOK'
  <2> DEFINE m == dispute[d].on
  <2>1. m \in Milestones
    BY <1>14 DEF ResolveBegin, Inv, DisputesAreAttached
  <2>2. TxnOf("resolving", NoKey, FALSE, pct, d) \in Txn
    BY RequestAssumption DEF TxnOf, Txn, Steps, ResolveSteps
  <2> QED
    BY <1>1, <1>14, <2>1, <2>2 DEF ProcessTypeOK, processVars, ResolveBegin
<1>15. ASSUME NEW m \in Milestones, SweepApprove(m) PROVE ProcessTypeOK'
  <2>1. TxnOf("approving", NoKey, TRUE, 0, NoDispute) \in Txn
    BY DEF TxnOf, Txn, Steps, ApproveSteps
  <2> QED
    BY <1>1, <1>15, <2>1 DEF ProcessTypeOK, SweepApprove
<1>16. ASSUME SweepList PROVE ProcessTypeOK'
  BY <1>1, <1>16 DEF ProcessTypeOK, SweepList
<1>17. ASSUME NEW m \in Milestones, SweepSkip(m) PROVE ProcessTypeOK'
  BY <1>1, <1>17 DEF ProcessTypeOK, SweepSkip
<1>18. ASSUME Crash PROVE ProcessTypeOK'
  BY <1>1, <1>2, <1>18 DEF ProcessTypeOK, Crash
<1> QED
  BY <1>5, <1>6, <1>7, <1>8, <1>9, <1>10, <1>11, <1>12, <1>13, <1>14, <1>15, <1>16, <1>17, <1>18
     DEF Next, Requests, Proceed, SweepVisit, vars, deposit, startMilestone, submitMilestone,
         requestChanges, cancelMilestone, openDispute, Lapse

\* Every update of a row writes a value of its column.
LEMMA RowTyping ==
  ASSUME Inv, [Next]_vars
  PROVE  RowTypeOK'
<1>1. RowTypeOK
  BY DEF Inv, TypeOK
<1> USE DEF RowTypeOK, milestoneVars, otherRows
<1>2. CASE UNCHANGED <<milestoneVars, otherRows>>
  BY <1>1, <1>2
<1>3. ASSUME NEW m \in Milestones, FundCommit(m) PROVE RowTypeOK'
  BY <1>1, <1>3 DEF FundCommit, MilestoneStates
<1>4. ASSUME NEW u \in Users, NEW m \in Milestones,
             startMilestone(u, m) \/ cancelMilestone(u, m)
      PROVE  RowTypeOK'
  BY <1>1, <1>4 DEF startMilestone, cancelMilestone, MilestoneStates
<1>5. ASSUME NEW u \in Users, NEW m \in Milestones, submitMilestone(u, m)
      PROVE  RowTypeOK'
  BY <1>1, <1>5 DEF submitMilestone, MilestoneStates, ClockStates
<1>6. ASSUME NEW u \in Users, NEW m \in Milestones, requestChanges(u, m)
      PROVE  RowTypeOK'
  BY <1>1, <1>6 DEF requestChanges, MilestoneStates, ClockStates
<1>7. ASSUME NEW u \in Users, NEW m \in Milestones, NEW d \in Disputes, openDispute(u, m, d)
      PROVE  RowTypeOK'
  BY <1>1, <1>7 DEF openDispute, MilestoneStates, ClockStates
<1>8. ASSUME NEW m \in Milestones, completeContract(m)
      PROVE  contractStatus' \in [Contracts -> {"ACTIVE", "COMPLETED"}]
  BY <1>1, <1>8 DEF completeContract
<1>9. ASSUME NEW m \in Milestones, ApproveCommit(m)
      PROVE  RowTypeOK'
  BY <1>1, <1>8, <1>9 DEF ApproveCommit, MilestoneStates, ClockStates
<1>10. ASSUME NEW m \in Milestones, ResolveCommit(m) PROVE RowTypeOK'
  BY <1>1, <1>8, <1>10 DEF ResolveCommit, MilestoneStates
<1>11. ASSUME NEW m \in Milestones, Lapse(m) PROVE RowTypeOK'
  BY <1>1, <1>11 DEF Lapse, ClockStates
<1> QED
  BY <1>2, <1>3, <1>4, <1>5, <1>6, <1>7, <1>9, <1>10, <1>11
     DEF Next, Requests, Proceed, SweepVisit, vars,
         deposit, FundBegin, FundReplay, ApproveBegin, ApproveReplay, ResolveBegin, WalletLock,
         ReadCredits, BalanceOk, InsufficientFunds, CountOpen, KeyTaken, Rollback, SweepList,
         SweepApprove, SweepSkip, Crash

\* Every step keeps the type invariant.
LEMMA Typing ==
  ASSUME Inv, [Next]_vars
  PROVE  TypeOK'
BY LedgerTyping, ProcessTyping, RowTyping DEF TypeOK

-----------------------------------------------------------------------------
(* Which steps move the rows of milestones, contracts and disputes.        *)

Quiet == UNCHANGED <<state, contractStatus, dispute, funded, released, refunded>>

\* The steps that move a milestone; each moves one.
Moves(m) ==
  \/ FundCommit(m)
  \/ \E u \in Users :
       \/ startMilestone(u, m)
       \/ submitMilestone(u, m)
       \/ requestChanges(u, m)
       \/ cancelMilestone(u, m)
       \/ \E d \in Disputes : openDispute(u, m, d)
  \/ ApproveCommit(m)
  \/ ResolveCommit(m)

\* A step leaves all rows alone or moves those of one milestone, in the way one
\* handler does.
LEMMA RowSteps ==
  ASSUME [Next]_vars
  PROVE  Quiet \/ \E m \in Milestones : Moves(m)
<1> USE DEF Quiet, otherRows, ledgerVars, milestoneVars
<1>1. CASE UNCHANGED vars
  BY <1>1 DEF vars
<1>2. ASSUME NEW u \in Users, NEW cents \in DepositSizes, deposit(u, cents) PROVE Quiet
  BY <1>2 DEF deposit, insertDeposit
<1>3. ASSUME NEW u \in Users, NEW m \in Milestones, NEW key \in Keys \union {NoKey},
             \/ FundBegin(u, m, key) \/ FundReplay(u, m, key)
             \/ ApproveBegin(u, m, key) \/ ApproveReplay(u, m, key)
      PROVE  Quiet
  BY <1>3 DEF FundBegin, FundReplay, ApproveBegin, ApproveReplay
<1>4. ASSUME NEW m \in Milestones,
             \/ WalletLock(m) \/ ReadCredits(m) \/ BalanceOk(m) \/ InsufficientFunds(m)
             \/ CountOpen(m) \/ KeyTaken(m) \/ Rollback(m)
      PROVE  Quiet
  BY <1>4 DEF WalletLock, ReadCredits, BalanceOk, InsufficientFunds, CountOpen, KeyTaken, Rollback
<1>5. ASSUME NEW m \in Milestones, SweepApprove(m) \/ SweepSkip(m) \/ Lapse(m) PROVE Quiet
  BY <1>5 DEF SweepApprove, SweepSkip, Lapse
<1>6. ASSUME NEW d \in Disputes, NEW pct \in Percentages, ResolveBegin(d, pct) PROVE Quiet
  BY <1>6 DEF ResolveBegin
<1>7. ASSUME SweepList \/ Crash PROVE Quiet
  BY <1>7 DEF SweepList, Crash
<1> QED
  BY <1>1, <1>2, <1>3, <1>4, <1>5, <1>6, <1>7
     DEF Next, Requests, Proceed, SweepVisit, Moves

\* The state a step finds its milestone in: the guard for the operations of one
\* step, what the open transaction found under its lock for the others.
LEMMA MoveSources ==
  ASSUME Inv, NEW m \in Milestones
  PROVE  /\ FundCommit(m) => state[m] = "CREATED"
         /\ \A u \in Users :
              /\ startMilestone(u, m) => state[m] \in {"FUNDED", "SUBMITTED"}
              /\ submitMilestone(u, m) => state[m] = "IN_PROGRESS"
              /\ requestChanges(u, m) => state[m] \in {"FUNDED", "SUBMITTED"}
              /\ cancelMilestone(u, m) => state[m] \in {"CREATED", "FUNDED"}
              /\ \A d \in Disputes : openDispute(u, m, d) =>
                   state[m] \in {"FUNDED", "IN_PROGRESS", "SUBMITTED"}
         /\ ApproveCommit(m) => state[m] = "SUBMITTED"
         /\ ResolveCommit(m) => state[m] = "DISPUTED"
<1>1. TypeOK
  BY DEF Inv
<1>2. LockedRowsStay
  BY DEF Inv
<1> QED
  BY <1>1, <1>2, Sources
     DEF LockedRowsStay, FundSteps, ApproveSteps, ResolveSteps, FundCommit, startMilestone,
         submitMilestone, requestChanges, cancelMilestone, openDispute, ApproveCommit,
         ResolveCommit

-----------------------------------------------------------------------------
(* The ledger and the state machine.                                       *)

\* What the rows of a payout do to the sums of each milestone.
LEMMA PayoutSums ==
  ASSUME LedgerTypeOK, NEW m \in Milestones, NEW a, NEW b, NEW key, insertPayout(m, a, b, key)
  PROVE  /\ funded' = funded
         /\ released'[m] = released[m] + a /\ refunded'[m] = refunded[m] + b
         /\ \A n \in Milestones \ {m} : released'[n] = released[n] /\ refunded'[n] = refunded[n]
BY DEF LedgerTypeOK, insertPayout

\* LedgerAgreesWithState of one milestone.
Agrees(m) ==
  /\ state[m] = "CREATED" => funded[m] = 0
  /\ state[m] \notin {"CREATED", "CANCELLED"} => funded[m] = Amount[m]
  /\ state[m] = "CANCELLED" => released[m] = 0 /\ funded[m] \in {0, Amount[m]}
  /\ state[m] = "RELEASED" => refunded[m] = 0
  /\ released[m] + refunded[m] = IF state[m] \in TerminalStates THEN funded[m] ELSE 0

\* Every handler appends the rows that its change of state calls for.
LEMMA LedgerAgrees ==
  ASSUME Inv, [Next]_vars
  PROVE  LedgerAgreesWithState'
<1>1. /\ TypeOK /\ RowTypeOK /\ LedgerTypeOK
      /\ \A n \in Milestones : Agrees(n)
  BY DEF Inv, TypeOK, LedgerAgreesWithState, Agrees
<1>2. SUFFICES ASSUME NEW n \in Milestones PROVE Agrees(n)'
  BY DEF LedgerAgreesWithState, Agrees
<1>3. CASE Quiet
  BY <1>1, <1>3 DEF Agrees, Quiet
<1>4. ASSUME NEW m \in Milestones, Moves(m) PROVE Agrees(n)'
  <2>1. /\ state[m] \in MilestoneStates /\ state[n] \in MilestoneStates
        /\ funded[m] \in Nat /\ released[m] \in Nat /\ refunded[m] \in Nat
        /\ funded[n] \in Nat /\ released[n] \in Nat /\ refunded[n] \in Nat
        /\ Amount[m] \in Nat \ {0}
        /\ Agrees(m) /\ Agrees(n)
    BY <1>1, AmountAssumption DEF RowTypeOK, LedgerTypeOK
  <2> USE DEF Agrees, TerminalStates, RowTypeOK, LedgerTypeOK
  <2>2. CASE FundCommit(m)
    <3>1. state[m] = "CREATED"
      BY <2>2, MoveSources
    <3> QED
      BY <1>1, <2>1, <2>2, <3>1 DEF FundCommit, insertFund
  <2>3. ASSUME NEW u \in Users,
               startMilestone(u, m) \/ submitMilestone(u, m) \/ requestChanges(u, m)
        PROVE  Agrees(n)'
    <3>1. state[m] \in {"FUNDED", "SUBMITTED", "IN_PROGRESS"}
      BY <2>3, MoveSources
    <3> QED
      BY <1>1, <2>1, <2>3, <3>1
         DEF startMilestone, submitMilestone, requestChanges, ledgerVars
  <2>4. ASSUME NEW u \in Users, cancelMilestone(u, m) PROVE Agrees(n)'
    <3>1. state[m] \in {"CREATED", "FUNDED"}
      BY <2>4, MoveSources
    <3>2. PICK a : insertPayout(m, 0, a, NoKey) /\ a = funded[m]
      BY <2>1, <2>4, <3>1 DEF cancelMilestone, milestoneEscrowCents
    <3>3. /\ funded' = funded
          /\ released'[m] = released[m] + 0 /\ refunded'[m] = refunded[m] + funded[m]
          /\ n # m => released'[n] = released[n] /\ refunded'[n] = refunded[n]
      BY <1>1, <3>2, PayoutSums
    <3>4. state'[m] = "CANCELLED" /\ (n # m => state'[n] = state[n])
      BY <1>1, <2>4 DEF cancelMilestone
    <3>5. CASE n = m
      <4>1. released[m] = 0 /\ refunded[m] = 0 /\ funded[m] \in {0, Amount[m]}
        BY <2>1, <3>1
      <4>2. released'[m] = 0 /\ refunded'[m] = funded'[m] /\ funded'[m] \in {0, Amount[m]}
        BY <2>1, <3>3, <4>1
      <4> QED
        BY <2>1, <3>4, <3>5, <4>2
    <3>6. CASE n # m
      BY <2>1, <3>3, <3>4, <3>6
    <3> QED
      BY <3>5, <3>6
  <2>5. ASSUME NEW u \in Users, NEW d \in Disputes, openDispute(u, m, d) PROVE Agrees(n)'
    <3>1. state[m] \in {"FUNDED", "SUBMITTED", "IN_PROGRESS"}
      BY <2>5, MoveSources
    <3> QED
      BY <1>1, <2>1, <2>5, <3>1 DEF openDispute, ledgerVars
  <2>6. ASSUME ApproveCommit(m) PROVE Agrees(n)'
    <3>1. state[m] = "SUBMITTED"
      BY <2>6, MoveSources
    <3>2. /\ funded' = funded
          /\ released'[m] = released[m] + Amount[m] /\ refunded'[m] = refunded[m] + 0
          /\ n # m => released'[n] = released[n] /\ refunded'[n] = refunded[n]
      BY <1>1, <2>6, PayoutSums DEF ApproveCommit
    <3>3. state'[m] = "RELEASED" /\ (n # m => state'[n] = state[n])
      BY <1>1, <2>6 DEF ApproveCommit
    <3>4. CASE n = m
      <4>1. released[m] = 0 /\ refunded[m] = 0 /\ funded[m] = Amount[m]
        BY <2>1, <3>1
      <4>2. released'[m] = funded'[m] /\ refunded'[m] = 0 /\ funded'[m] = Amount[m]
        BY <2>1, <3>2, <4>1
      <4> QED
        BY <2>1, <3>3, <3>4, <4>2
    <3>5. CASE n # m
      BY <2>1, <3>2, <3>3, <3>5
    <3> QED
      BY <3>4, <3>5
  <2>7. CASE ResolveCommit(m)
    <3>1. state[m] = "DISPUTED"
      BY <2>7, MoveSources
    <3>2. txn[m].pct \in 0 .. 100
      BY DEF Inv, TypeOK, ProcessTypeOK, Txn
    <3>3. milestoneEscrowCents(m) = funded[m] /\ funded[m] = Amount[m]
      BY <2>1, <3>1 DEF milestoneEscrowCents
    <3>4. PICK share \in 0 .. funded[m] :
            insertPayout(m, share, funded[m] - share, NoKey) /\ state' = [state EXCEPT ![m] = "RESOLVED"]
      BY <2>1, <2>7, <3>2, <3>3, ShareSplits DEF ResolveCommit
    <3>5. /\ funded' = funded
          /\ released'[m] = released[m] + share /\ refunded'[m] = refunded[m] + (funded[m] - share)
          /\ n # m => released'[n] = released[n] /\ refunded'[n] = refunded[n]
      BY <1>1, <3>4, PayoutSums
    <3> QED
      BY <1>1, <2>1, <3>1, <3>3, <3>4, <3>5
  <2> QED
    BY <1>4, <2>2, <2>3, <2>4, <2>5, <2>6, <2>7 DEF Moves
<1> QED
  BY <1>3, <1>4, RowSteps

-----------------------------------------------------------------------------
(* Terminal states and contracts.                                          *)

\* What a step that moves milestone m leaves alone, and that it ends in no open
\* transaction of m.
LEMMA MovesOne ==
  ASSUME Inv, NEW m \in Milestones, Moves(m)
  PROVE  /\ \A n \in Milestones \ {m} : state'[n] = state[n] /\ txn'[n] = txn[n]
         /\ txn'[m] = Idle
         /\ state[m] \notin TerminalStates
<1>1. state \in [Milestones -> MilestoneStates] /\ txn \in [Milestones -> Txn]
  BY DEF Inv, TypeOK, RowTypeOK, ProcessTypeOK
<1>2. CASE FundCommit(m)
  BY <1>1, <1>2, MoveSources DEF FundCommit, EndTxn, TerminalStates
<1>3. ASSUME NEW u \in Users,
             \/ startMilestone(u, m) \/ submitMilestone(u, m)
             \/ requestChanges(u, m) \/ cancelMilestone(u, m)
      PROVE  /\ \A n \in Milestones \ {m} : state'[n] = state[n] /\ txn'[n] = txn[n]
             /\ txn'[m] = Idle
             /\ state[m] \notin TerminalStates
  BY <1>1, <1>3, MoveSources
     DEF startMilestone, submitMilestone, requestChanges, cancelMilestone, withMilestoneLock,
         TerminalStates
<1>4. ASSUME NEW u \in Users, NEW d \in Disputes, openDispute(u, m, d)
      PROVE  /\ \A n \in Milestones \ {m} : state'[n] = state[n] /\ txn'[n] = txn[n]
             /\ txn'[m] = Idle
             /\ state[m] \notin TerminalStates
  BY <1>1, <1>4, MoveSources DEF openDispute, withMilestoneLock, TerminalStates
<1>5. ASSUME ApproveCommit(m)
      PROVE  /\ \A n \in Milestones \ {m} : state'[n] = state[n] /\ txn'[n] = txn[n]
             /\ txn'[m] = Idle
             /\ state[m] \notin TerminalStates
  BY <1>1, <1>5, MoveSources DEF ApproveCommit, EndTxn, TerminalStates
<1>6. CASE ResolveCommit(m)
  BY <1>1, <1>6, MoveSources DEF ResolveCommit, EndTxn, TerminalStates
<1> QED
  BY <1>2, <1>3, <1>4, <1>5, <1>6 DEF Moves

\* A terminal state is final.
LEMMA TerminalStays ==
  ASSUME Inv, [Next]_vars, NEW m \in Milestones, state[m] \in TerminalStates
  PROVE  state'[m] = state[m]
BY RowSteps, MovesOne DEF Quiet

\* The answer of the sibling count, once "none is open", does not become stale:
\* terminal states are final.
LEMMA NoOpenSiblingStays ==
  ASSUME Inv, [Next]_vars, NEW m \in Milestones, noOpenSibling(m)
  PROVE  noOpenSibling(m)'
BY TerminalStays DEF noOpenSibling, Siblings

\* A handler completes a contract only on an answer that is still true.
LEMMA Completed ==
  ASSUME Inv, [Next]_vars
  PROVE  CompletedMeansSettled'
<1>1. SUFFICES ASSUME NEW c \in Contracts, contractStatus'[c] = "COMPLETED",
                      NEW n \in Milestones, ContractOf[n] = c
               PROVE  state'[n] \in TerminalStates
  BY DEF CompletedMeansSettled
<1>2. contractStatus \in [Contracts -> {"ACTIVE", "COMPLETED"}]
  BY DEF Inv, TypeOK, RowTypeOK
<1>3. CASE contractStatus[c] = "COMPLETED"
  <2>1. state[n] \in TerminalStates
    BY <1>1, <1>3 DEF Inv, CompletedMeansSettled
  <2> QED
    BY <2>1, TerminalStays
<1>4. CASE contractStatus[c] # "COMPLETED"
  <2>1. PICK m \in Milestones : Moves(m) /\ ~Quiet
    BY <1>1, <1>4, RowSteps DEF Quiet
  <2>2. /\ completeContract(m)
        /\ txn[m].step \in {"approveCounted", "resolveCounted"}
        /\ state' \in {[state EXCEPT ![m] = "RELEASED"], [state EXCEPT ![m] = "RESOLVED"]}
    BY <1>1, <1>4, <2>1
       DEF Moves, otherRows, FundCommit, startMilestone, submitMilestone, requestChanges,
           cancelMilestone, openDispute, ApproveCommit, ResolveCommit
  <2>3. txn[m].last /\ ContractOf[m] = c
    BY <1>1, <1>2, <1>4, <2>2 DEF completeContract
  <2>4. noOpenSibling(m)
    BY <2>2, <2>3 DEF Inv, CountStays
  <2>5. state'[m] \in TerminalStates
    BY <2>2 DEF Inv, TypeOK, RowTypeOK, TerminalStates
  <2>6. CASE n = m
    BY <2>5, <2>6
  <2>7. CASE n # m
    <3>1. state[n] \in TerminalStates
      BY <1>1, <2>3, <2>4, <2>7 DEF noOpenSibling, Siblings
    <3> QED
      BY <3>1, TerminalStays
  <2> QED
    BY <2>6, <2>7
<1> QED
  BY <1>3, <1>4

-----------------------------------------------------------------------------
(* Disputes.                                                               *)

\* The steps that touch disputes: one is raised, or the open one is ruled on.
LEMMA DisputeSteps ==
  ASSUME Inv, NEW m \in Milestones, Moves(m)
  PROVE  \/ dispute' = dispute /\ state[m] # "DISPUTED" /\ state'[m] # "DISPUTED"
         \/ \E d \in Disputes :
              /\ dispute[d].status = "none"
              /\ dispute' = [dispute EXCEPT ![d] = [on |-> m, status |-> "OPEN"]]
              /\ state[m] \notin {"DISPUTED", "RESOLVED"} /\ state'[m] = "DISPUTED"
         \/ \E d \in Disputes :
              /\ dispute[d] = [on |-> m, status |-> "OPEN"]
              /\ dispute' = [dispute EXCEPT ![d].status = "RESOLVED"]
              /\ state[m] = "DISPUTED" /\ state'[m] = "RESOLVED"
<1>1. state \in [Milestones -> MilestoneStates]
  BY DEF Inv, TypeOK, RowTypeOK
<1> DEFINE Kept == dispute' = dispute /\ state[m] # "DISPUTED" /\ state'[m] # "DISPUTED"
<1>2. CASE FundCommit(m)
  <2>1. Kept
    BY <1>1, <1>2, MoveSources DEF FundCommit, otherRows
  <2> QED
    BY <2>1
<1>3. ASSUME NEW u \in Users,
             \/ startMilestone(u, m) \/ submitMilestone(u, m)
             \/ requestChanges(u, m) \/ cancelMilestone(u, m)
      PROVE  Kept
  BY <1>1, <1>3, MoveSources
     DEF startMilestone, submitMilestone, requestChanges, cancelMilestone, otherRows
<1>4. ASSUME ApproveCommit(m)
      PROVE  Kept
  BY <1>1, <1>4, MoveSources DEF ApproveCommit
<1>5. ASSUME NEW u \in Users, NEW d \in Disputes, openDispute(u, m, d)
      PROVE  /\ dispute[d].status = "none"
             /\ dispute' = [dispute EXCEPT ![d] = [on |-> m, status |-> "OPEN"]]
             /\ state[m] \notin {"DISPUTED", "RESOLVED"} /\ state'[m] = "DISPUTED"
  BY <1>1, <1>5, MoveSources DEF openDispute
<1>6. CASE ResolveCommit(m)
  <2>1. /\ txn[m].dispute \in Disputes
        /\ dispute[txn[m].dispute] = [on |-> m, status |-> "OPEN"]
        /\ state[m] = "DISPUTED"
    BY <1>6 DEF ResolveCommit, Inv, LockedRowsStay, ResolveSteps
  <2>2. /\ dispute' = [dispute EXCEPT ![txn[m].dispute].status = "RESOLVED"]
        /\ state'[m] = "RESOLVED"
    BY <1>1, <1>6 DEF ResolveCommit
  <2> QED
    BY <2>1, <2>2
<1> QED
  BY <1>2, <1>3, <1>4, <1>5, <1>6 DEF Moves

\* openDispute and resolveDispute keep disputes and states in step.
LEMMA Disputed ==
  ASSUME Inv, [Next]_vars
  PROVE  DisputesMatchState' /\ DisputesAreAttached'
<1>1. /\ DisputesMatchState /\ DisputesAreAttached
      /\ state \in [Milestones -> MilestoneStates]
      /\ dispute \in [Disputes -> [on : Milestones \union {NoMilestone},
                                   status : {"none", "OPEN", "RESOLVED"}]]
  BY DEF Inv, TypeOK, RowTypeOK
<1> USE DEF DisputesMatchState, DisputesAreAttached
<1>2. CASE Quiet
  BY <1>1, <1>2 DEF Quiet
<1>3. ASSUME NEW m \in Milestones, Moves(m) PROVE DisputesMatchState' /\ DisputesAreAttached'
  <2>1. \A n \in Milestones \ {m} : state'[n] = state[n]
    BY <1>3, MovesOne
  <2>2. CASE dispute' = dispute /\ state[m] # "DISPUTED" /\ state'[m] # "DISPUTED"
    <3>1. \A n \in Milestones :
            /\ state'[n] = "DISPUTED" <=> state[n] = "DISPUTED"
            /\ state[n] \in {"DISPUTED", "RESOLVED"} => state'[n] = state[n]
      BY <2>1, <2>2, TerminalStays DEF TerminalStates
    <3> QED
      BY <1>1, <2>2, <3>1
  <2>3. ASSUME NEW d \in Disputes, dispute[d].status = "none",
               dispute' = [dispute EXCEPT ![d] = [on |-> m, status |-> "OPEN"]],
               state[m] \notin {"DISPUTED", "RESOLVED"}, state'[m] = "DISPUTED"
        PROVE  DisputesMatchState' /\ DisputesAreAttached'
    <3>1. \A e \in Disputes : dispute[e].on # m
      BY <1>1, <2>3, SentinelAssumption
    <3>2. /\ dispute'[d] = [on |-> m, status |-> "OPEN"]
          /\ \A e \in Disputes \ {d} : dispute'[e] = dispute[e]
      BY <1>1, <2>3
    <3>3. DisputesAreAttached'
      BY <1>1, <2>1, <2>3, <3>1, <3>2
    <3>4. ASSUME NEW n \in Milestones
          PROVE  state'[n] = "DISPUTED"
                   <=> \E e \in Disputes : dispute'[e] = [on |-> n, status |-> "OPEN"]
      BY <1>1, <2>1, <2>3, <3>1, <3>2
    <3>5. ASSUME NEW e \in Disputes, NEW f \in Disputes,
                 dispute'[e].status # "none", dispute'[f].on = dispute'[e].on
          PROVE  e = f
      BY <1>1, <3>1, <3>2, <3>5
    <3> QED
      BY <3>3, <3>4, <3>5
  <2>4. ASSUME NEW d \in Disputes, dispute[d] = [on |-> m, status |-> "OPEN"],
               dispute' = [dispute EXCEPT ![d].status = "RESOLVED"],
               state[m] = "DISPUTED", state'[m] = "RESOLVED"
        PROVE  DisputesMatchState' /\ DisputesAreAttached'
    <3>1. /\ dispute'[d] = [on |-> m, status |-> "RESOLVED"]
          /\ \A e \in Disputes \ {d} : dispute'[e] = dispute[e] /\ dispute[e].on # m
      BY <1>1, <2>4
    <3>2. DisputesAreAttached'
      BY <1>1, <2>1, <2>4, <3>1
    <3>3. ASSUME NEW n \in Milestones
          PROVE  state'[n] = "DISPUTED"
                   <=> \E e \in Disputes : dispute'[e] = [on |-> n, status |-> "OPEN"]
      BY <1>1, <2>1, <2>4, <3>1
    <3>4. ASSUME NEW e \in Disputes, NEW f \in Disputes,
                 dispute'[e].status # "none", dispute'[f].on = dispute'[e].on
          PROVE  e = f
      BY <1>1, <3>1, <3>4
    <3> QED
      BY <3>2, <3>3, <3>4
  <2> QED
    BY <1>3, <2>2, <2>3, <2>4, DisputeSteps
<1> QED
  BY <1>2, <1>3, RowSteps

-----------------------------------------------------------------------------
(* Open transactions.                                                      *)

\* A step opens a transaction, takes one further, or leaves each as it is or ended.
Opens(m) ==
  \/ \E u \in Users, key \in Keys \union {NoKey} :
       FundBegin(u, m, key) \/ ApproveBegin(u, m, key)
  \/ \E d \in Disputes, pct \in Percentages : ResolveBegin(d, pct) /\ dispute[d].on = m
  \/ SweepApprove(m)

Advances(m) == WalletLock(m) \/ ReadCredits(m) \/ BalanceOk(m) \/ CountOpen(m)

Shrinks == \A n \in Milestones : txn'[n] \in {txn[n], Idle}

\* A step ends transactions, opens one, or advances one.
LEMMA TxnSteps ==
  ASSUME Inv, [Next]_vars
  PROVE  Shrinks \/ \E m \in Milestones : Opens(m) \/ Advances(m)
<1>1. txn \in [Milestones -> Txn]
  BY DEF Inv, TypeOK, ProcessTypeOK
<1>2. ASSUME txn' = txn PROVE Shrinks
  BY <1>2 DEF Shrinks
<1>3. ASSUME NEW m \in Milestones, EndTxn(m) PROVE Shrinks
  BY <1>1, <1>3 DEF EndTxn, Shrinks
<1>4. ASSUME NEW m \in Milestones, Moves(m) PROVE Shrinks
  BY <1>4, MovesOne DEF Shrinks
<1>5. ASSUME NEW m \in Milestones, InsufficientFunds(m) \/ KeyTaken(m) \/ Rollback(m)
      PROVE  Shrinks
  BY <1>3, <1>5 DEF InsufficientFunds, KeyTaken, Rollback
<1>6. CASE Crash
  BY <1>6 DEF Crash, Shrinks
<1>7. ASSUME NEW d \in Disputes, NEW pct \in Percentages, ResolveBegin(d, pct)
      PROVE  \E m \in Milestones : Opens(m)
  <2>1. dispute[d].on \in Milestones
    BY <1>7 DEF ResolveBegin, Inv, DisputesAreAttached
  <2> QED
    BY <1>7, <2>1 DEF Opens
<1>8. ASSUME NEW u \in Users, NEW m \in Milestones, NEW key \in Keys \union {NoKey},
             FundReplay(u, m, key) \/ ApproveReplay(u, m, key)
      PROVE  Shrinks
  BY <1>2, <1>8 DEF FundReplay, ApproveReplay
<1>9. ASSUME NEW m \in Milestones, SweepSkip(m) \/ Lapse(m) PROVE Shrinks
  BY <1>2, <1>9 DEF SweepSkip, Lapse
<1> QED
  BY <1>2, <1>4, <1>5, <1>6, <1>7, <1>8, <1>9
     DEF Next, Requests, Proceed, SweepVisit, Opens, Advances, Moves, vars, deposit, SweepList

\* Opening a transaction moves no row and no sum.
LEMMA OpensOne ==
  ASSUME Inv, NEW m \in Milestones, Opens(m)
  PROVE  /\ UNCHANGED <<state, dispute, credits, debits>>
         /\ \A n \in Milestones \ {m} : txn'[n] = txn[n]
         /\ \/ txn'[m].step = "funding" /\ state[m] = "CREATED"
            \/ txn'[m].step = "approving" /\ state[m] = "SUBMITTED"
            \/ /\ txn'[m].step = "resolving" /\ state[m] = "DISPUTED"
               /\ txn'[m].dispute \in Disputes
               /\ dispute[txn'[m].dispute] = [on |-> m, status |-> "OPEN"]
<1>1. txn \in [Milestones -> Txn] /\ TypeOK
  BY DEF Inv, TypeOK, ProcessTypeOK
<1> USE DEF milestoneVars, otherRows, ledgerVars
<1> DEFINE Frame == /\ UNCHANGED <<state, dispute, credits, debits>>
                    /\ \A n \in Milestones \ {m} : txn'[n] = txn[n]
<1>2. ASSUME NEW u \in Users, NEW key \in Keys \union {NoKey}, FundBegin(u, m, key)
      PROVE  Frame /\ txn'[m].step = "funding" /\ state[m] = "CREATED"
  <2>1. state[m] = "CREATED"
    BY <1>1, <1>2, Sources DEF FundBegin
  <2>2. txn'[m] = TxnOf("funding", key, FALSE, 0, NoDispute)
    BY <1>1, <1>2 DEF FundBegin
  <2> QED
    BY <1>1, <1>2, <2>1, <2>2 DEF FundBegin, TxnOf
<1>3. ASSUME NEW u \in Users, NEW key \in Keys \union {NoKey}, ApproveBegin(u, m, key)
      PROVE  Frame /\ txn'[m].step = "approving" /\ state[m] = "SUBMITTED"
  <2>1. state[m] = "SUBMITTED"
    BY <1>1, <1>3, Sources DEF ApproveBegin, approvable
  <2>2. txn'[m] = TxnOf("approving", key, FALSE, 0, NoDispute)
    BY <1>1, <1>3 DEF ApproveBegin
  <2> QED
    BY <1>1, <1>3, <2>1, <2>2 DEF ApproveBegin, TxnOf
<1>4. ASSUME SweepApprove(m)
      PROVE  Frame /\ txn'[m].step = "approving" /\ state[m] = "SUBMITTED"
  <2>1. state[m] = "SUBMITTED"
    BY <1>1, <1>4, Sources DEF SweepApprove, approvable
  <2>2. txn'[m] = TxnOf("approving", NoKey, TRUE, 0, NoDispute)
    BY <1>1, <1>4 DEF SweepApprove
  <2> QED
    BY <1>1, <1>4, <2>1, <2>2 DEF SweepApprove, TxnOf
<1>5. ASSUME NEW d \in Disputes, NEW pct \in Percentages,
             ResolveBegin(d, pct), dispute[d].on = m
      PROVE  /\ Frame /\ txn'[m].step = "resolving" /\ txn'[m].dispute = d
             /\ state[m] = "DISPUTED" /\ dispute[d] = [on |-> m, status |-> "OPEN"]
  <2>1. state[m] = "DISPUTED" /\ dispute[d].status # "none"
    BY <1>1, <1>5, Sources DEF ResolveBegin
  <2>2. PICK e \in Disputes : dispute[e] = [on |-> m, status |-> "OPEN"]
    BY <2>1 DEF Inv, DisputesMatchState
  <2>3. e = d
    BY <1>5, <2>1, <2>2 DEF Inv, DisputesMatchState
  <2>4. txn'[m] = TxnOf("resolving", NoKey, FALSE, pct, d)
    BY <1>1, <1>5 DEF ResolveBegin
  <2> QED
    BY <1>1, <1>5, <2>1, <2>2, <2>3, <2>4 DEF ResolveBegin, TxnOf
<1>6. ASSUME NEW u \in Users, NEW key \in Keys \union {NoKey},
             FundBegin(u, m, key) \/ ApproveBegin(u, m, key)
      PROVE  /\ Frame
             /\ \/ txn'[m].step = "funding" /\ state[m] = "CREATED"
                \/ txn'[m].step = "approving" /\ state[m] = "SUBMITTED"
  BY <1>2, <1>3, <1>6
<1> QED
  BY <1>4, <1>5, <1>6 DEF Opens

\* What advancing does to the record, and that it moves no row and no sum.
LEMMA AdvancesOne ==
  ASSUME Inv, NEW m \in Milestones, Advances(m)
  PROVE  /\ UNCHANGED <<state, dispute, credits, debits>>
         /\ \A n \in Milestones \ {m} : txn'[n] = txn[n]
         /\ txn'[m].dispute = txn[m].dispute
         /\ \/ /\ txn[m].step = "funding" /\ txn'[m].step = "walletLocked"
               /\ ~walletLockHeld(Client(m))
            \/ /\ txn[m].step = "walletLocked" /\ txn'[m].step = "creditsRead"
               /\ txn'[m].seen = credits[Client(m)]
            \/ /\ txn[m].step = "creditsRead" /\ txn'[m].step = "balanceOk"
               /\ txn'[m].seen = txn[m].seen
               /\ txn[m].seen - debits[Client(m)] >= Amount[m]
            \/ /\ txn[m].step = "approving" /\ txn'[m].step = "approveCounted"
               /\ txn'[m].last = noOpenSibling(m)
            \/ /\ txn[m].step = "resolving" /\ txn'[m].step = "resolveCounted"
               /\ txn'[m].last = noOpenSibling(m)
<1>1. txn \in [Milestones -> Txn]
  BY DEF Inv, TypeOK, ProcessTypeOK
<1>2. txn[m] \in Txn
  BY <1>1
<1> USE DEF milestoneVars, otherRows, ledgerVars, Txn
<1>3. CASE WalletLock(m)
  BY <1>1, <1>2, <1>3 DEF WalletLock, Advance
<1>4. CASE ReadCredits(m)
  BY <1>1, <1>2, <1>4 DEF ReadCredits
<1>5. CASE BalanceOk(m)
  BY <1>1, <1>2, <1>5 DEF BalanceOk, Advance
<1>6. CASE CountOpen(m)
  BY <1>1, <1>2, <1>6 DEF CountOpen
<1> QED
  BY <1>3, <1>4, <1>5, <1>6 DEF Advances

\* What a handler checked of its milestone holds until it commits, because it
\* holds the row lock.
LEMMA LockedRows ==
  ASSUME Inv, [Next]_vars
  PROVE  LockedRowsStay'
<1>1. LockedRowsStay /\ txn \in [Milestones -> Txn]
  BY DEF Inv, TypeOK, ProcessTypeOK
<1> USE DEF LockedRowsStay, FundSteps, ApproveSteps, ResolveSteps
<1>2. CASE Shrinks
  <2> DEFINE Kept(n) == /\ state'[n] = state[n]
                        /\ \A d \in Disputes : dispute[d] = [on |-> n, status |-> "OPEN"]
                             => dispute'[d] = dispute[d]
  <2>1. \A n \in Milestones : txn'[n].step # "idle" => txn'[n] = txn[n]
    BY <1>2 DEF Shrinks, Idle, TxnOf
  <2>2. ASSUME NEW n \in Milestones, Quiet PROVE Kept(n)
    BY <2>2 DEF Quiet
  <2>3. ASSUME NEW n \in Milestones, txn'[n].step # "idle", NEW m \in Milestones, Moves(m)
        PROVE  Kept(n)
    <3>1. n # m
      BY <2>3, MovesOne DEF Idle, TxnOf
    <3>2. state'[n] = state[n]
      BY <2>3, <3>1, MovesOne
    <3>3. ASSUME NEW d \in Disputes, dispute[d] = [on |-> n, status |-> "OPEN"]
          PROVE  dispute'[d] = dispute[d]
      <4>1. dispute \in [Disputes -> [on : Milestones \union {NoMilestone},
                                     status : {"none", "OPEN", "RESOLVED"}]]
        BY DEF Inv, TypeOK, RowTypeOK
      <4>2. \A e \in Disputes :
              dispute[e].status = "none" \/ dispute[e] = [on |-> m, status |-> "OPEN"] => e # d
        BY <3>1, <3>3
      <4>3. \/ dispute' = dispute
            \/ \E e \in Disputes \ {d} : \E r : dispute' = [dispute EXCEPT ![e] = r]
        BY <2>3, <4>2, DisputeSteps
      <4> QED
        BY <4>1, <4>3
    <3> QED
      BY <3>2, <3>3
  <2>4. \A n \in Milestones : txn'[n].step # "idle" => Kept(n)
    BY <2>2, <2>3, RowSteps
  <2>5. ASSUME NEW n \in Milestones, txn'[n].step # "idle"
        PROVE  /\ txn'[n].step \in FundSteps => state'[n] = "CREATED"
               /\ txn'[n].step \in ApproveSteps => state'[n] = "SUBMITTED"
               /\ txn'[n].step \in ResolveSteps =>
                    /\ state'[n] = "DISPUTED"
                    /\ txn'[n].dispute \in Disputes
                    /\ dispute'[txn'[n].dispute] = [on |-> n, status |-> "OPEN"]
    <3>1. txn'[n] = txn[n] /\ Kept(n)
      BY <2>1, <2>4, <2>5
    <3> QED
      BY <1>1, <3>1
  <2> QED
    BY <2>5
<1>3. ASSUME NEW m \in Milestones, Opens(m) PROVE LockedRowsStay'
  BY <1>1, <1>3, OpensOne
<1>4. ASSUME NEW m \in Milestones, Advances(m) PROVE LockedRowsStay'
  <2>1. \A n \in Milestones \ {m} : txn'[n] = txn[n]
    BY <1>4, AdvancesOne
  <2>2. /\ UNCHANGED <<state, dispute>> /\ txn'[m].dispute = txn[m].dispute
        /\ \/ txn[m].step \in FundSteps /\ txn'[m].step \in FundSteps
           \/ txn[m].step \in ApproveSteps /\ txn'[m].step \in ApproveSteps
           \/ txn[m].step \in ResolveSteps /\ txn'[m].step \in ResolveSteps
    BY <1>4, AdvancesOne
  <2>3. ASSUME NEW n \in Milestones \ {m}
        PROVE  /\ txn'[n].step \in FundSteps => state'[n] = "CREATED"
               /\ txn'[n].step \in ApproveSteps => state'[n] = "SUBMITTED"
               /\ txn'[n].step \in ResolveSteps =>
                    /\ state'[n] = "DISPUTED"
                    /\ txn'[n].dispute \in Disputes
                    /\ dispute'[txn'[n].dispute] = [on |-> n, status |-> "OPEN"]
    BY <1>1, <2>1, <2>2
  <2>4. /\ txn'[m].step \in FundSteps => state'[m] = "CREATED"
        /\ txn'[m].step \in ApproveSteps => state'[m] = "SUBMITTED"
        /\ txn'[m].step \in ResolveSteps =>
             /\ state'[m] = "DISPUTED"
             /\ txn'[m].dispute \in Disputes
             /\ dispute'[txn'[m].dispute] = [on |-> m, status |-> "OPEN"]
    BY <1>1, <2>2
  <2> QED
    BY <2>3, <2>4
<1> QED
  BY <1>2, <1>3, <1>4, TxnSteps

\* The count an approval or a ruling carries stays true until it commits.
LEMMA Counts ==
  ASSUME Inv, [Next]_vars
  PROVE  CountStays'
<1>1. CountStays
  BY DEF Inv
<1> USE DEF CountStays
<1>2. CASE Shrinks
  BY <1>1, <1>2, NoOpenSiblingStays DEF Shrinks, Idle, TxnOf
<1>3. ASSUME NEW m \in Milestones, Opens(m) PROVE CountStays'
  BY <1>1, <1>3, OpensOne, NoOpenSiblingStays
<1>4. ASSUME NEW m \in Milestones, Advances(m) PROVE CountStays'
  BY <1>1, <1>4, AdvancesOne, NoOpenSiblingStays
<1> QED
  BY <1>2, <1>3, <1>4, TxnSteps

-----------------------------------------------------------------------------
(* Wallets.                                                                *)

WalletQuiet == debits' = debits /\ \A u \in Users : credits'[u] >= credits[u]

\* Money comes into a wallet at any time; it leaves by a FUND row only.
LEMMA WalletSteps ==
  ASSUME Inv, [Next]_vars
  PROVE  WalletQuiet \/ \E m \in Milestones : FundCommit(m)
<1>1. LedgerTypeOK
  BY DEF Inv, TypeOK
<1>2. CASE UNCHANGED ledgerVars
  BY <1>1, <1>2 DEF ledgerVars, WalletQuiet, LedgerTypeOK
<1>3. ASSUME NEW u \in Users, NEW cents \in DepositSizes, deposit(u, cents)
      PROVE  WalletQuiet
  BY <1>1, <1>3, RequestAssumption DEF deposit, insertDeposit, WalletQuiet, LedgerTypeOK
<1>4. ASSUME NEW m \in Milestones, NEW a \in Nat, NEW b \in Nat, NEW key,
             insertPayout(m, a, b, key)
      PROVE  WalletQuiet
  <2>1. Client(m) \in Users /\ Freelancer(m) \in Users /\ Client(m) # Freelancer(m)
    BY Parties
  <2> QED
    BY <1>1, <1>4, <2>1 DEF insertPayout, WalletQuiet, LedgerTypeOK
<1>5. ASSUME NEW u \in Users, NEW m \in Milestones, cancelMilestone(u, m)
      PROVE  WalletQuiet
  BY <1>4, <1>5, EscrowTyping DEF cancelMilestone
<1>6. ASSUME NEW m \in Milestones, ApproveCommit(m)
      PROVE  WalletQuiet
  BY <1>4, <1>6, AmountAssumption DEF ApproveCommit
<1>7. ASSUME NEW m \in Milestones, ResolveCommit(m) PROVE WalletQuiet
  <2> DEFINE escrow == milestoneEscrowCents(m)
             toFreelancer == Share(escrow, txn[m].pct)
  <2>1. txn[m].pct \in 0 .. 100
    BY DEF Inv, TypeOK, ProcessTypeOK, Txn
  <2>2. escrow \in Nat
    BY EscrowTyping
  <2>3. toFreelancer \in 0 .. escrow
    BY <2>1, <2>2, ShareSplits
  <2>4. insertPayout(m, toFreelancer, escrow - toFreelancer, NoKey)
    BY <1>7 DEF ResolveCommit
  <2>5. toFreelancer \in Nat /\ escrow - toFreelancer \in Nat
    BY <2>2, <2>3
  <2> HIDE DEF escrow, toFreelancer
  <2> QED
    BY <1>4, <2>4, <2>5
<1> QED
  BY <1>2, <1>3, <1>5, <1>6, <1>7
     DEF Next, Requests, Proceed, SweepVisit, vars,
         FundBegin, FundReplay, ApproveBegin, ApproveReplay, startMilestone, submitMilestone,
         requestChanges, openDispute, ResolveBegin, WalletLock, ReadCredits, BalanceOk,
         InsufficientFunds, CountOpen, KeyTaken, Lapse, Rollback, SweepList, SweepApprove,
         SweepSkip, Crash

\* What a FUND row does to the wallets: it debits one, and that one could pay.
LEMMA FundDebits ==
  ASSUME Inv, NEW m \in Milestones, FundCommit(m)
  PROVE  /\ credits' = credits
         /\ debits'[Client(m)] = debits[Client(m)] + Amount[m]
         /\ \A u \in Users \ {Client(m)} : debits'[u] = debits[u]
         /\ debits'[Client(m)] <= credits'[Client(m)]
<1>1. LedgerTypeOK /\ LockedWalletStays
  BY DEF Inv, TypeOK
<1>2. Client(m) \in Users
  BY Parties
<1>3. debits[Client(m)] + Amount[m] <= credits[Client(m)]
  BY <1>1 DEF FundCommit, LockedWalletStays
<1> QED
  BY <1>1, <1>2, <1>3 DEF FundCommit, insertFund, LedgerTypeOK

\* No fund commits more than the wallet holds.
LEMMA Wallets ==
  ASSUME Inv, [Next]_vars
  PROVE  WalletNeverOverdrawn'
<1>1. LedgerTypeOK /\ LedgerTypeOK' /\ WalletNeverOverdrawn
  BY LedgerTyping DEF Inv, TypeOK
<1>2. SUFFICES ASSUME NEW u \in Users PROVE debits'[u] <= credits'[u]
  BY <1>1 DEF WalletNeverOverdrawn, walletBalanceCents, LedgerTypeOK
<1>3. /\ debits[u] \in Nat /\ credits[u] \in Nat /\ debits[u] <= credits[u]
      /\ debits'[u] \in Nat /\ credits'[u] \in Nat
  BY <1>1 DEF WalletNeverOverdrawn, walletBalanceCents, LedgerTypeOK
<1>4. CASE WalletQuiet
  BY <1>3, <1>4 DEF WalletQuiet
<1>5. ASSUME NEW m \in Milestones, FundCommit(m) PROVE debits'[u] <= credits'[u]
  BY <1>3, <1>5, FundDebits
<1> QED
  BY <1>4, <1>5, WalletSteps

\* While a fund holds the wallet lock, the credits it read can only have grown and
\* the debits are those it compared with.
LEMMA LockedWallets ==
  ASSUME Inv, [Next]_vars
  PROVE  LockedWalletStays'
<1> DEFINE Holds(m) == txn[m].step \in FundSteps \ {"funding"}
           Sound(m) == /\ txn[m].step \in {"creditsRead", "balanceOk"}
                            => txn[m].seen <= credits[Client(m)]
                       /\ txn[m].step = "balanceOk"
                            => debits[Client(m)] + Amount[m] <= credits[Client(m)]
<1>1. /\ \A m, n \in Milestones : Client(m) = Client(n) /\ Holds(m) /\ Holds(n) => m = n
      /\ \A m \in Milestones : Sound(m)
      /\ txn \in [Milestones -> Txn] /\ LedgerTypeOK /\ LedgerTypeOK'
  BY LedgerTyping DEF Inv, TypeOK, ProcessTypeOK, LockedWalletStays
<1>2. SUFFICES
        /\ \A m, n \in Milestones : Client(m) = Client(n) /\ Holds(m)' /\ Holds(n)' => m = n
        /\ \A m \in Milestones : Sound(m)'
  BY DEF LockedWalletStays, Client
<1>3. \A m \in Milestones :
        /\ txn[m].seen \in Nat /\ Client(m) \in Users /\ Amount[m] \in Nat
        /\ credits[Client(m)] \in Nat /\ debits[Client(m)] \in Nat
        /\ credits'[Client(m)] \in Nat /\ debits'[Client(m)] \in Nat
        /\ Client(m)' = Client(m)
  BY <1>1, Parties, AmountAssumption DEF Txn, LedgerTypeOK, Client
<1>4. CASE Shrinks
  <2>1. \A m \in Milestones : Holds(m)' => Holds(m) /\ txn'[m] = txn[m]
    BY <1>4 DEF Shrinks, FundSteps, Idle, TxnOf
  <2>2. ASSUME NEW m \in Milestones, Holds(m)' PROVE Sound(m)'
    <3>1. Holds(m) /\ txn'[m] = txn[m] /\ Sound(m)
      BY <1>1, <2>1, <2>2
    <3>2. CASE WalletQuiet
      BY <1>3, <3>1, <3>2 DEF WalletQuiet
    <3>3. ASSUME NEW k \in Milestones, FundCommit(k) PROVE Sound(m)'
      <4>1. Holds(k)
        BY <3>3 DEF FundCommit, FundSteps
      <4>2. txn'[k] = Idle
        BY <3>3, MovesOne DEF Moves
      <4>3. m # k
        BY <2>2, <4>2 DEF FundSteps, Idle, TxnOf
      <4>4. Client(m) # Client(k)
        BY <1>1, <3>1, <4>1, <4>3
      <4> QED
        BY <1>3, <3>1, <3>3, <4>4, FundDebits
    <3> QED
      BY <3>2, <3>3, WalletSteps
  <2>3. ASSUME NEW m \in Milestones, ~Holds(m)' PROVE Sound(m)'
    BY <2>3 DEF FundSteps
  <2> QED
    BY <1>1, <2>1, <2>2, <2>3
<1>5. ASSUME NEW m \in Milestones, Opens(m)
      PROVE  /\ \A k, n \in Milestones : Client(k) = Client(n) /\ Holds(k)' /\ Holds(n)' => k = n
             /\ \A n \in Milestones : Sound(n)'
  <2>1. ~Holds(m)' /\ Sound(m)'
    BY <1>5, OpensOne DEF FundSteps
  <2>2. \A n \in Milestones \ {m} : (Holds(n)' <=> Holds(n)) /\ (Sound(n)' <=> Sound(n))
    BY <1>3, <1>5, OpensOne
  <2> HIDE DEF Holds, Sound
  <2> QED
    BY <1>1, <2>1, <2>2
<1>6. ASSUME NEW m \in Milestones, Advances(m)
      PROVE  /\ \A k, n \in Milestones : Client(k) = Client(n) /\ Holds(k)' /\ Holds(n)' => k = n
             /\ \A n \in Milestones : Sound(n)'
  <2>1. Sound(m)'
    BY <1>1, <1>3, <1>6, AdvancesOne
  <2>2. \A n \in Milestones \ {m} : (Holds(n)' <=> Holds(n)) /\ (Sound(n)' <=> Sound(n))
    BY <1>3, <1>6, AdvancesOne
  <2>3. Holds(m)' => Holds(m) \/ \A n \in Milestones : Client(n) = Client(m) => ~Holds(n)
    BY <1>6, AdvancesOne DEF FundSteps, walletLockHeld
  <2> HIDE DEF Holds, Sound
  <2> QED
    BY <1>1, <2>1, <2>2, <2>3
<1> QED
  BY <1>2, <1>4, <1>5, <1>6, TxnSteps

-----------------------------------------------------------------------------
(* The invariants.                                                         *)

\* Every step keeps the inductive invariant.
LEMMA Inductive ==
  ASSUME Inv, [Next]_vars
  PROVE  Inv'
BY Typing, LedgerAgrees, Wallets, Completed, Disputed, LockedRows, LockedWallets, Counts DEF Inv

\* The inductive invariant holds in every reachable state.
THEOREM Invariance == Spec => []Inv
<1>1. Inv /\ [Next]_vars => Inv'
  BY Inductive
<1> QED
  BY InitInv, <1>1, PTL DEF Spec

\* Rows, sums and open transactions keep their types: no sum ever goes negative.
THEOREM TypeCorrect == Spec => []TypeOK
<1>1. Inv => TypeOK
  BY DEF Inv
<1> QED
  BY <1>1, Invariance, PTL

\* LEDGER_MISMATCH never trips, in an escrow of any size.
THEOREM LedgerCorrect == Spec => []LedgerAgreesWithState
<1>1. Inv => LedgerAgreesWithState
  BY DEF Inv
<1> QED
  BY <1>1, Invariance, PTL

\* No wallet is ever overdrawn, however many funds of one client overlap.
THEOREM WalletCorrect == Spec => []WalletNeverOverdrawn
<1>1. Inv => WalletNeverOverdrawn
  BY DEF Inv
<1> QED
  BY <1>1, Invariance, PTL

\* A completed contract has no milestone that can still move.
THEOREM CompletedCorrect == Spec => []CompletedMeansSettled
<1>1. Inv => CompletedMeansSettled
  BY DEF Inv
<1> QED
  BY <1>1, Invariance, PTL

\* Disputes and milestones agree, and a milestone is disputed at most once.
THEOREM DisputesCorrect == Spec => []DisputesMatchState
<1>1. Inv => DisputesMatchState
  BY DEF Inv
<1> QED
  BY <1>1, Invariance, PTL

-----------------------------------------------------------------------------
(* Action properties.                                                      *)

\* A step that moves milestone m inserts no row of another milestone.
LEMMA MovesOwnSums ==
  ASSUME Inv, NEW m \in Milestones, Moves(m), NEW n \in Milestones \ {m}
  PROVE  funded'[n] = funded[n] /\ released'[n] = released[n] /\ refunded'[n] = refunded[n]
<1>1. LedgerTypeOK
  BY DEF Inv, TypeOK
<1>2. CASE FundCommit(m)
  BY <1>1, <1>2 DEF FundCommit, insertFund, LedgerTypeOK
<1>3. ASSUME NEW a, NEW b, NEW key, insertPayout(m, a, b, key)
      PROVE  funded'[n] = funded[n] /\ released'[n] = released[n] /\ refunded'[n] = refunded[n]
  BY <1>1, <1>3, PayoutSums
<1>4. CASE UNCHANGED ledgerVars
  BY <1>4 DEF ledgerVars
<1> QED
  BY <1>2, <1>3, <1>4
     DEF Moves, startMilestone, submitMilestone, requestChanges, cancelMilestone, openDispute,
         ApproveCommit, ResolveCommit

\* The funds of a milestone are paid out in one commit, never twice.
THEOREM NeverPaidTwice == Spec => PaidOutOnce
<1> DEFINE Once == \A m \in Milestones :
      released[m] + refunded[m] > 0 => UNCHANGED <<released[m], refunded[m]>>
<1>1. ASSUME Inv, [Next]_vars PROVE Once
  <2>1. SUFFICES ASSUME NEW n \in Milestones, released[n] + refunded[n] > 0
                 PROVE  UNCHANGED <<released[n], refunded[n]>>
    OBVIOUS
  <2>2. state[n] \in TerminalStates
    BY <1>1, <2>1 DEF Inv, LedgerAgreesWithState
  <2>3. CASE Quiet
    BY <2>3 DEF Quiet
  <2>4. ASSUME NEW m \in Milestones, Moves(m) PROVE UNCHANGED <<released[n], refunded[n]>>
    <3>1. n # m
      BY <1>1, <2>2, <2>4, MovesOne
    <3> QED
      BY <1>1, <2>4, <3>1, MovesOwnSums
  <2> QED
    BY <1>1, <2>3, <2>4, RowSteps
<1>2. Inv /\ [Next]_vars => [Once]_vars
  BY <1>1
<1> HIDE DEF Once
<1>3. Spec => [][Once]_vars
  BY <1>2, Invariance, PTL DEF Spec
<1> QED
  BY <1>3 DEF Once, PaidOutOnce

\* Only the ruling on its own dispute takes a milestone out of DISPUTED.
THEOREM DisputesFreeze == Spec => DisputeFreezesEscrow
<1> DEFINE Frozen == \A m \in Milestones : state[m] = "DISPUTED" /\ state'[m] # "DISPUTED" =>
       /\ state'[m] = "RESOLVED"
       /\ txn[m].step = "resolveCounted"
       /\ dispute[txn[m].dispute] = [on |-> m, status |-> "OPEN"]
<1>1. ASSUME Inv, [Next]_vars PROVE Frozen
  <2>1. SUFFICES ASSUME NEW n \in Milestones, state[n] = "DISPUTED", state'[n] # "DISPUTED"
                 PROVE  /\ state'[n] = "RESOLVED"
                        /\ txn[n].step = "resolveCounted"
                        /\ dispute[txn[n].dispute] = [on |-> n, status |-> "OPEN"]
    OBVIOUS
  <2>2. PICK m \in Milestones : Moves(m)
    BY <1>1, <2>1, RowSteps DEF Quiet
  <2>3. n = m
    BY <1>1, <2>1, <2>2, MovesOne
  <2>4. ResolveCommit(n)
    BY <1>1, <2>1, <2>2, <2>3, MoveSources DEF Moves
  <2>5. state' = [state EXCEPT ![n] = "RESOLVED"] /\ txn[n].step = "resolveCounted"
    BY <2>4 DEF ResolveCommit
  <2>6. LockedRowsStay /\ state \in [Milestones -> MilestoneStates]
    BY <1>1 DEF Inv, TypeOK, RowTypeOK
  <2> QED
    BY <2>5, <2>6 DEF LockedRowsStay, ResolveSteps
<1>2. Inv /\ [Next]_vars => [Frozen]_vars
  BY <1>1
<1> HIDE DEF Frozen
<1>3. Spec => [][Frozen]_vars
  BY <1>2, Invariance, PTL DEF Spec
<1> QED
  BY <1>3 DEF Frozen, DisputeFreezesEscrow

-----------------------------------------------------------------------------
(* The escrow implements the custodian.                                    *)

\* The empty database is the empty custodian.
LEMMA InitCustody == Init => Abstract!CustodyInit
<1> SUFFICES ASSUME Init PROVE Abstract!CustodyInit
  OBVIOUS
<1>1. \A u \in Users : credits[u] = 0 /\ debits[u] = 0
  BY Zenon DEF Init
<1>2. \A m \in Milestones : funded[m] = 0 /\ released[m] = 0 /\ refunded[m] = 0
  BY Zenon DEF Init
<1>3. walletOf = [u \in Users |-> 0]
  BY <1>1 DEF walletOf, walletBalanceCents
<1>4. heldBy = [m \in Milestones |-> 0]
  BY <1>2 DEF heldBy, milestoneEscrowCents
<1>5. neverFunded = Milestones
  BY <1>2 DEF neverFunded
<1> QED
  BY <1>3, <1>4, <1>5 DEF Abstract!CustodyInit

\* A payout of the whole escrow is the custodian's Settle.
LEMMA PayoutSettles ==
  ASSUME Inv, NEW m \in Milestones, NEW share \in 0 .. Amount[m], NEW key,
         milestoneEscrowCents(m) = Amount[m],
         insertPayout(m, share, Amount[m] - share, key)
  PROVE  Abstract!Settle(m)
<1>1. LedgerTypeOK /\ Amount[m] \in Nat \ {0}
  BY AmountAssumption DEF Inv, TypeOK
<1>2. /\ Client(m) \in Users /\ Freelancer(m) \in Users /\ Client(m) # Freelancer(m)
      /\ Payer[m] = Client(m) /\ Payee[m] = Freelancer(m)
  BY Parties DEF Payer, Payee
<1>3. walletOf' = [walletOf EXCEPT ![Payee[m]] = @ + share,
                                   ![Payer[m]] = @ + (Amount[m] - share)]
  <2>1. ASSUME NEW u \in Users
        PROVE  walletBalanceCents(u)' =
                 IF u = Payee[m] THEN walletBalanceCents(u) + share
                 ELSE IF u = Payer[m] THEN walletBalanceCents(u) + (Amount[m] - share)
                 ELSE walletBalanceCents(u)
    <3>1. /\ debits'[u] = debits[u] /\ debits[u] \in Nat /\ credits[u] \in Nat
          /\ credits'[u] = IF u = Freelancer(m) THEN credits[u] + share
                           ELSE IF u = Client(m) THEN credits[u] + (Amount[m] - share)
                           ELSE credits[u]
      BY <1>1, <1>2 DEF insertPayout, LedgerTypeOK
    <3> QED
      BY <1>1, <1>2, <3>1 DEF walletBalanceCents
  <2> QED
    BY <1>2, <2>1 DEF walletOf
<1>4. heldBy' = [heldBy EXCEPT ![m] = 0]
  <2>1. milestoneEscrowCents(m)' = 0
    <3>1. /\ funded'[m] = funded[m] /\ released'[m] = released[m] + share
          /\ refunded'[m] = refunded[m] + (Amount[m] - share)
      BY <1>1, PayoutSums
    <3>2. funded[m] \in Nat /\ released[m] \in Nat /\ refunded[m] \in Nat
      BY <1>1 DEF LedgerTypeOK
    <3>3. funded[m] - (released[m] + refunded[m]) = Amount[m]
      BY DEF milestoneEscrowCents
    <3> QED
      BY <1>1, <3>1, <3>2, <3>3 DEF milestoneEscrowCents
  <2>2. \A n \in Milestones \ {m} : milestoneEscrowCents(n)' = milestoneEscrowCents(n)
    BY <1>1, PayoutSums DEF milestoneEscrowCents
  <2> QED
    BY <2>1, <2>2 DEF heldBy
<1>5. neverFunded' = neverFunded /\ heldBy[m] = Amount[m]
  BY <1>1, PayoutSums DEF neverFunded, heldBy
<1> QED
  BY <1>3, <1>4, <1>5 DEF Abstract!Settle

\* The commit of fundMilestone is the step in which the custodian takes the amount.
LEMMA FundLocks ==
  ASSUME Inv, NEW m \in Milestones, FundCommit(m)
  PROVE  Abstract!Lock(m)
<1>1. /\ LedgerTypeOK /\ Amount[m] \in Nat \ {0}
      /\ Client(m) \in Users /\ Payer[m] = Client(m)
  BY AmountAssumption, Parties DEF Inv, TypeOK, Payer
<1>2. funded[m] = 0 /\ released[m] + refunded[m] = 0
  <2>1. state[m] = "CREATED"
    BY MoveSources
  <2> QED
    BY <2>1 DEF Inv, LedgerAgreesWithState, TerminalStates
<1>3. /\ funded' = [funded EXCEPT ![m] = @ + Amount[m]]
      /\ UNCHANGED <<released, refunded>>
  BY DEF FundCommit, insertFund
<1>4. m \in neverFunded /\ neverFunded' = neverFunded \ {m}
  BY <1>1, <1>2, <1>3 DEF neverFunded, LedgerTypeOK
<1>5. heldBy' = [heldBy EXCEPT ![m] = Amount[m]]
  <2>1. milestoneEscrowCents(m)' = Amount[m]
    BY <1>1, <1>2, <1>3 DEF milestoneEscrowCents, LedgerTypeOK
  <2>2. \A n \in Milestones \ {m} : milestoneEscrowCents(n)' = milestoneEscrowCents(n)
    BY <1>1, <1>3 DEF milestoneEscrowCents, LedgerTypeOK
  <2> QED
    BY <2>1, <2>2 DEF heldBy
<1>6. /\ walletOf[Payer[m]] >= Amount[m]
      /\ walletOf' = [walletOf EXCEPT ![Payer[m]] = @ - Amount[m]]
  <2>1. \A u \in Users : credits[u] \in Nat /\ debits[u] \in Nat
    BY <1>1 DEF LedgerTypeOK
  <2>2. ASSUME NEW u \in Users
        PROVE  walletBalanceCents(u)' = IF u = Client(m) THEN walletBalanceCents(u) - Amount[m]
                                                         ELSE walletBalanceCents(u)
    BY <1>1, <2>1, FundDebits DEF walletBalanceCents
  <2>3. walletBalanceCents(Client(m)) >= Amount[m]
    BY <1>1, <2>1, FundDebits DEF walletBalanceCents
  <2> QED
    BY <1>1, <2>2, <2>3 DEF walletOf
<1> QED
  BY <1>4, <1>5, <1>6 DEF Abstract!Lock

\* What a step does to the money: nothing, a top-up, or what one step of the custodian
\* does.
LEMMA MoneySteps ==
  ASSUME Inv, [Next]_vars
  PROVE  \/ UNCHANGED <<walletOf, heldBy, neverFunded, deposited>>
         \/ \E u \in Users, cents \in DepositSizes :
              /\ walletOf' = [walletOf EXCEPT ![u] = @ + cents]
              /\ deposited' = [deposited EXCEPT ![u] = @ + cents]
              /\ UNCHANGED <<heldBy, neverFunded>>
         \/ /\ \E m \in Milestones : Abstract!Lock(m) \/ Abstract!Settle(m)
            /\ deposited' = deposited
<1> DEFINE Goal ==
      \/ UNCHANGED <<walletOf, heldBy, neverFunded, deposited>>
      \/ \E u \in Users, cents \in DepositSizes :
           /\ walletOf' = [walletOf EXCEPT ![u] = @ + cents]
           /\ deposited' = [deposited EXCEPT ![u] = @ + cents]
           /\ UNCHANGED <<heldBy, neverFunded>>
      \/ /\ \E m \in Milestones : Abstract!Lock(m) \/ Abstract!Settle(m)
         /\ deposited' = deposited
<1>1. LedgerTypeOK /\ TypeOK
  BY DEF Inv, TypeOK
<1>2. ASSUME UNCHANGED <<funded, released, refunded, credits, debits, deposited>> PROVE Goal
  <2>1. walletOf' = walletOf
    BY <1>2 DEF walletOf, walletBalanceCents
  <2>2. heldBy' = heldBy
    BY <1>2 DEF heldBy, milestoneEscrowCents
  <2>3. neverFunded' = neverFunded
    BY <1>2 DEF neverFunded
  <2> QED
    BY <1>2, <2>1, <2>2, <2>3
<1>3. ASSUME NEW m \in Milestones, Abstract!Lock(m) \/ Abstract!Settle(m), deposited' = deposited
      PROVE  Goal
  BY <1>3
<1>4. ASSUME UNCHANGED ledgerVars PROVE Goal
  BY <1>2, <1>4 DEF ledgerVars
<1>5. ASSUME NEW u \in Users, NEW cents \in DepositSizes, deposit(u, cents) PROVE Goal
  <2>1. /\ credits' = [credits EXCEPT ![u] = @ + cents]
        /\ deposited' = [deposited EXCEPT ![u] = @ + cents]
        /\ UNCHANGED <<funded, released, refunded, debits>>
    BY <1>5 DEF deposit, insertDeposit
  <2>2. /\ \A v \in Users : credits[v] \in Nat /\ debits[v] \in Nat
        /\ cents \in Nat
    BY <1>1, RequestAssumption DEF LedgerTypeOK
  <2>3. \A v \in Users : walletBalanceCents(v)' =
           IF v = u THEN walletBalanceCents(v) + cents ELSE walletBalanceCents(v)
    BY <1>1, <2>1, <2>2 DEF walletBalanceCents, LedgerTypeOK
  <2>4. walletOf' = [walletOf EXCEPT ![u] = @ + cents]
    BY <2>3 DEF walletOf
  <2>5. heldBy' = heldBy /\ neverFunded' = neverFunded
    BY <2>1 DEF heldBy, milestoneEscrowCents, neverFunded
  <2> QED
    BY <2>1, <2>4, <2>5
<1>6. ASSUME NEW m \in Milestones, FundCommit(m) PROVE Goal
  BY <1>3, <1>6, FundLocks DEF FundCommit, insertFund
<1>7. \A m \in Milestones :
        /\ Amount[m] \in Nat \ {0}
        /\ state[m] \in {"FUNDED", "SUBMITTED", "DISPUTED"} => milestoneEscrowCents(m) = Amount[m]
  <2>1. SUFFICES ASSUME NEW m \in Milestones,
                        state[m] \in {"FUNDED", "SUBMITTED", "DISPUTED"}
                 PROVE  milestoneEscrowCents(m) = Amount[m]
    BY AmountAssumption
  <2>2. funded[m] = Amount[m] /\ released[m] + refunded[m] = 0
    BY <2>1 DEF Inv, LedgerAgreesWithState, TerminalStates
  <2>3. funded[m] \in Nat /\ released[m] \in Nat /\ refunded[m] \in Nat
    BY <1>1 DEF LedgerTypeOK
  <2> QED
    BY <2>2, <2>3 DEF milestoneEscrowCents
<1>8. ASSUME NEW u \in Users, NEW m \in Milestones, cancelMilestone(u, m) PROVE Goal
  <2>1. CASE state[m] = "FUNDED"
    <3>1. insertPayout(m, 0, Amount[m] - 0, NoKey)
      BY <1>7, <1>8, <2>1 DEF cancelMilestone
    <3>2. Abstract!Settle(m)
      BY <1>7, <2>1, <3>1, PayoutSettles
    <3> QED
      BY <1>3, <3>1, <3>2 DEF insertPayout
  <2>2. CASE state[m] # "FUNDED"
    <3>1. insertPayout(m, 0, 0, NoKey)
      BY <1>8, <2>2 DEF cancelMilestone
    <3>2. /\ released' = [released EXCEPT ![m] = @ + 0]
          /\ refunded' = [refunded EXCEPT ![m] = @ + 0]
          /\ credits' = [credits EXCEPT ![Freelancer(m)] = @ + 0, ![Client(m)] = @ + 0]
          /\ UNCHANGED <<funded, debits, deposited>>
      BY <3>1 DEF insertPayout
    <3>3. released' = released /\ refunded' = refunded
      BY <1>1, <3>2 DEF LedgerTypeOK
    <3>4. credits' = credits
      BY <1>1, <3>2, Parties DEF LedgerTypeOK
    <3> QED
      BY <1>2, <3>2, <3>3, <3>4
  <2> QED
    BY <2>1, <2>2
<1>9. ASSUME NEW m \in Milestones, ApproveCommit(m)
      PROVE  Goal
  <2>1. insertPayout(m, Amount[m], Amount[m] - Amount[m], txn[m].key)
    BY <1>7, <1>9 DEF ApproveCommit
  <2>2. Abstract!Settle(m)
    BY <1>7, <1>9, <2>1, MoveSources, PayoutSettles
  <2> QED
    BY <1>3, <2>1, <2>2 DEF insertPayout
<1>10. ASSUME NEW m \in Milestones, ResolveCommit(m) PROVE Goal
  <2> DEFINE share == Share(Amount[m], txn[m].pct)
  <2>1. milestoneEscrowCents(m) = Amount[m]
    BY <1>7, <1>10, MoveSources
  <2>2. txn[m].pct \in 0 .. 100
    BY DEF Inv, TypeOK, ProcessTypeOK, Txn
  <2>3. share \in 0 .. Amount[m]
    BY <1>7, <2>2, ShareSplits
  <2>4. insertPayout(m, share, Amount[m] - share, NoKey)
    BY <1>10, <2>1 DEF ResolveCommit
  <2> HIDE DEF share
  <2>5. Abstract!Settle(m)
    BY <2>1, <2>3, <2>4, PayoutSettles
  <2> QED
    BY <1>3, <2>4, <2>5 DEF insertPayout
<1> QED
  BY <1>4, <1>5, <1>6, <1>8, <1>9, <1>10
     DEF Next, Requests, Proceed, SweepVisit, vars,
         FundBegin, FundReplay, ApproveBegin, ApproveReplay, startMilestone, submitMilestone,
         requestChanges, openDispute, ResolveBegin, WalletLock, ReadCredits, BalanceOk,
         InsufficientFunds, CountOpen, KeyTaken, Lapse, Rollback, SweepList, SweepApprove,
         SweepSkip, Crash

\* Every step of the escrow is one of the custodian or changes nothing it sees.
LEMMA StepCustody ==
  ASSUME Inv, [Next]_vars
  PROVE  [Abstract!CustodyNext]_(Abstract!custodyVars)
BY MoneySteps DEF Abstract!TopUp, Abstract!CustodyNext, Abstract!custodyVars

\* Split reads, locks, retries, rulings and sweeps, of any number of milestones,
\* amount to a custodian that looks and takes in one step.
THEOREM EscrowImplementsCustody == Spec => ImplementsCustody
<1>1. Inv /\ [Next]_vars => [Abstract!CustodyNext]_(Abstract!custodyVars)
  BY StepCustody
<1> QED
  BY InitCustody, Invariance, <1>1, PTL DEF Spec, ImplementsCustody, Abstract!CustodySpec

-----------------------------------------------------------------------------
(* Sums.  SumFunctionOnSet adds in some order; these are the facts that do *)
(* not depend on it.                                                       *)

\* Among finite sets there is one with no smaller one.
LEMMA LeastSet ==
  ASSUME NEW S, IsFiniteSet(S), NEW Bad, Bad \subseteq SUBSET S, Bad # {}
  PROVE  \E T \in Bad : IsFiniteSet(T) /\ \A U \in Bad : U \subseteq T => U = T
<1>1. \A T \in SUBSET S : IsFiniteSet(T)
  BY FS_Subset
<1>2. Bad \subseteq FiniteSubsetsOf(S)
  BY <1>1 DEF FiniteSubsetsOf
<1>3. PICK T \in Bad : \A U \in Bad : <<U, T>> \notin StrictSubsetOrdering(S)
  BY <1>2, FS_StrictSubsetOrderingWellFounded, WFMin
<1>4. ASSUME NEW U \in Bad, U \subseteq T PROVE U = T
  BY <1>3, <1>4 DEF StrictSubsetOrdering
<1> QED
  BY <1>1, <1>3, <1>4

Chosen(s) == CHOOSE x \in s : TRUE

\* The function that the fold computes its answer with.
Adds(it, f, S) ==
  it = [s \in SUBSET S |-> IF s = {} THEN 0 ELSE f[Chosen(s)] + it[s \ {Chosen(s)}]]

\* A set that is not empty has the element chosen from it.
LEMMA ChosenIsIn == \A s : s # {} => Chosen(s) \in s
BY DEF Chosen

\* What it means that a function gives the sum over every subset of S.
LEMMA AddsStep ==
  ASSUME NEW S, NEW f, NEW it, Adds(it, f, S)
  PROVE  /\ it[{}] = 0
         /\ \A s \in SUBSET S : s # {} => it[s] = f[Chosen(s)] + it[s \ {Chosen(s)}]
BY DEF Adds

\* Two such functions agree on the subsets both know of: by a least set they differ on.
LEMMA AddsAgree ==
  ASSUME NEW S, NEW T, NEW f, NEW it, NEW jt, IsFiniteSet(S), Adds(it, f, S), Adds(jt, f, T)
  PROVE  \A R \in SUBSET (S \intersect T) : it[R] = jt[R]
<1>0. PICK Bad : Bad = {R \in SUBSET (S \intersect T) : it[R] # jt[R]}
  OBVIOUS
<1> SUFFICES ASSUME Bad # {} PROVE FALSE
  BY <1>0
<1>1. IsFiniteSet(S \intersect T)
  BY FS_Intersection
<1>2. PICK R \in Bad : \A U \in Bad : U \subseteq R => U = R
  <2>1. Bad \subseteq SUBSET (S \intersect T)
    BY <1>0
  <2> QED
    BY <1>1, <2>1, LeastSet
<1> USE <1>0
<1>3. R # {}
  BY <1>2, AddsStep
<1>4. PICK c \in R : c = Chosen(R)
  BY <1>3, ChosenIsIn
<1>5. it[R \ {c}] = jt[R \ {c}]
  BY <1>2, <1>4
<1>6. R \in SUBSET S /\ R \in SUBSET T
  BY <1>2
<1>7. it[R] = f[c] + it[R \ {c}]
  BY <1>3, <1>4, <1>6, AddsStep
<1>8. jt[R] = f[c] + jt[R \ {c}]
  BY <1>3, <1>4, <1>6, AddsStep
<1> QED
  BY <1>2, <1>5, <1>7, <1>8

\* There is such a function for every finite set: for a least one that had none, the function
\* for the set without its chosen element is extended.
LEMMA AddsExists ==
  ASSUME NEW S, NEW f, IsFiniteSet(S)
  PROVE  \E it : Adds(it, f, S)
<1>0. PICK Bad : Bad = {T \in SUBSET S : ~\E it : Adds(it, f, T)}
  OBVIOUS
<1> SUFFICES ASSUME Bad # {} PROVE FALSE
  BY <1>0
<1>1. PICK T \in Bad : IsFiniteSet(T) /\ \A U \in Bad : U \subseteq T => U = T
  <2>1. Bad \subseteq SUBSET S
    BY <1>0
  <2> QED
    BY <2>1, LeastSet
<1> USE <1>0
<1>2. ASSUME NEW it, Adds(it, f, T) PROVE FALSE
  BY <1>1, <1>2
<1>3. T # {}
  <2>1. SUFFICES ASSUME T = {} PROVE FALSE
    OBVIOUS
  <2>2. Adds([s \in SUBSET {} |-> 0], f, {})
    BY DEF Adds
  <2> QED
    BY <1>2, <2>1, <2>2
<1>4. PICK c \in T : c = Chosen(T)
  BY <1>3, ChosenIsIn
<1>5. PICK G : G = [s \in SUBSET T |-> CHOOSE it : Adds(it, f, s)]
  OBVIOUS
<1>6. ASSUME NEW s \in SUBSET T, s # T PROVE Adds(G[s], f, s)
  <2>1. \E it : Adds(it, f, s)
    BY <1>1, <1>6
  <2> QED
    BY <1>5, <2>1
<1>7. PICK it : it = [s \in SUBSET T |-> IF s # T THEN G[s][s] ELSE f[c] + G[T \ {c}][T \ {c}]]
  OBVIOUS
<1>8. ASSUME NEW s \in SUBSET T
      PROVE  it[s] = IF s = {} THEN 0 ELSE f[Chosen(s)] + it[s \ {Chosen(s)}]
  <2>1. CASE s = T
    BY <1>3, <1>4, <1>7, <2>1
  <2>2. CASE s = {}
    BY <1>3, <1>6, <1>7, <2>2, AddsStep
  <2>3. CASE s # T /\ s # {}
    <3>1. PICK d \in s : d = Chosen(s)
      BY <2>3, ChosenIsIn
    <3>2. s \ {d} \in SUBSET T /\ s \ {d} # T
      BY <3>1
    <3>3. G[s][s] = f[d] + G[s][s \ {d}]
      BY <1>6, <2>3, <3>1, AddsStep
    <3>4. IsFiniteSet(s)
      BY <1>1, FS_Subset
    <3>5. Adds(G[s], f, s) /\ Adds(G[s \ {d}], f, s \ {d})
      BY <1>6, <2>3, <3>2
    <3>6. G[s][s \ {d}] = G[s \ {d}][s \ {d}]
      BY <3>4, <3>5, AddsAgree
    <3> QED
      BY <1>7, <2>3, <3>1, <3>2, <3>3, <3>6
  <2> QED
    BY <2>1, <2>2, <2>3
<1>9. Adds(it, f, T)
  BY <1>7, <1>8 DEF Adds
<1> QED
  BY <1>2, <1>9

\* A sum is its chosen element and the sum of the others.
LEMMA SumStep ==
  ASSUME NEW S, NEW f, IsFiniteSet(S)
  PROVE  /\ SumFunctionOnSet(f, {}) = 0
         /\ S # {} => SumFunctionOnSet(f, S) =
                        f[Chosen(S)] + SumFunctionOnSet(f, S \ {Chosen(S)})
<1>1. ASSUME NEW T PROVE SumFunctionOnSet(f, T) = (CHOOSE it : Adds(it, f, T))[T]
  BY DEF SumFunctionOnSet, FoldFunctionOnSet, MapThenFoldSet, Adds, Chosen
<1>2. ASSUME NEW T, IsFiniteSet(T)
      PROVE  \E it : Adds(it, f, T) /\ SumFunctionOnSet(f, T) = it[T]
  BY <1>1, <1>2, AddsExists
<1>3. SumFunctionOnSet(f, {}) = 0
  BY <1>2, AddsStep, FS_EmptySet
<1>4. ASSUME S # {}
      PROVE  SumFunctionOnSet(f, S) = f[Chosen(S)] + SumFunctionOnSet(f, S \ {Chosen(S)})
  <2>1. PICK it : Adds(it, f, S) /\ SumFunctionOnSet(f, S) = it[S]
    BY <1>2
  <2>2. PICK c \in S : c = Chosen(S)
    BY <1>4, ChosenIsIn
  <2>3. IsFiniteSet(S \ {c})
    BY FS_RemoveElement
  <2>4. PICK jt : Adds(jt, f, S \ {c}) /\ SumFunctionOnSet(f, S \ {c}) = jt[S \ {c}]
    BY <1>2, <2>3
  <2>5. it[S \ {c}] = jt[S \ {c}]
    BY <2>1, <2>4, AddsAgree
  <2>6. it[S] = f[c] + it[S \ {c}]
    BY <1>4, <2>1, <2>2, AddsStep
  <2> QED
    BY <2>1, <2>2, <2>4, <2>5, <2>6
<1> QED
  BY <1>3, <1>4

\* A sum of integers over a finite set is an integer.
LEMMA SumInt ==
  ASSUME NEW S, NEW f, IsFiniteSet(S), \A x \in S : f[x] \in Int
  PROVE  SumFunctionOnSet(f, S) \in Int
<1>0. PICK Bad : Bad = {T \in SUBSET S : SumFunctionOnSet(f, T) \notin Int}
  OBVIOUS
<1> SUFFICES ASSUME Bad # {} PROVE FALSE
  BY <1>0
<1>1. PICK T \in Bad : IsFiniteSet(T) /\ \A U \in Bad : U \subseteq T => U = T
  <2>1. Bad \subseteq SUBSET S
    BY <1>0
  <2> QED
    BY <2>1, LeastSet
<1> USE <1>0
<1>2. {} \notin Bad
  <2>1. PICK none : none = SumFunctionOnSet(f, {})
    OBVIOUS
  <2>2. none = 0
    BY <2>1, SumStep
  <2> QED
    BY <2>1, <2>2
<1>3. PICK c \in T : c = Chosen(T)
  BY <1>1, <1>2, ChosenIsIn
<1>4. SumFunctionOnSet(f, T \ {c}) \in Int
  BY <1>1
<1>5. SumFunctionOnSet(f, T) = f[c] + SumFunctionOnSet(f, T \ {c})
  BY <1>1, <1>2, <1>3, SumStep
<1> QED
  BY <1>1, <1>4, <1>5

\* A sum depends only on the values it adds.
LEMMA SumSame ==
  ASSUME NEW S, NEW f, NEW g, IsFiniteSet(S), \A x \in S : f[x] = g[x]
  PROVE  SumFunctionOnSet(f, S) = SumFunctionOnSet(g, S)
<1>0. PICK Bad : Bad = {T \in SUBSET S : SumFunctionOnSet(f, T) # SumFunctionOnSet(g, T)}
  OBVIOUS
<1> SUFFICES ASSUME Bad # {} PROVE FALSE
  BY <1>0
<1>1. PICK T \in Bad : IsFiniteSet(T) /\ \A U \in Bad : U \subseteq T => U = T
  <2>1. Bad \subseteq SUBSET S
    BY <1>0
  <2> QED
    BY <2>1, LeastSet
<1> USE <1>0
<1>2. T # {}
  BY <1>1, SumStep
<1>3. PICK c \in T : c = Chosen(T)
  BY <1>2, ChosenIsIn
<1>4. SumFunctionOnSet(f, T \ {c}) = SumFunctionOnSet(g, T \ {c})
  BY <1>1
<1>5. /\ SumFunctionOnSet(f, T) = f[c] + SumFunctionOnSet(f, T \ {c})
      /\ SumFunctionOnSet(g, T) = g[c] + SumFunctionOnSet(g, T \ {c})
  BY <1>1, <1>2, <1>3, SumStep
<1> QED
  BY <1>1, <1>4, <1>5

\* Any element may be taken out first.
LEMMA SumTakes ==
  ASSUME NEW S, NEW f, IsFiniteSet(S), \A x \in S : f[x] \in Int, NEW a \in S
  PROVE  SumFunctionOnSet(f, S) = f[a] + SumFunctionOnSet(f, S \ {a})
<1>0. PICK Bad : Bad = {T \in SUBSET S : \E x \in T :
                     SumFunctionOnSet(f, T) # f[x] + SumFunctionOnSet(f, T \ {x})}
  OBVIOUS
<1> SUFFICES ASSUME Bad # {} PROVE FALSE
  BY <1>0
<1>1. PICK T \in Bad : IsFiniteSet(T) /\ \A U \in Bad : U \subseteq T => U = T
  <2>1. Bad \subseteq SUBSET S
    BY <1>0
  <2> QED
    BY <2>1, LeastSet
<1> USE <1>0
<1>2. PICK x \in T : SumFunctionOnSet(f, T) # f[x] + SumFunctionOnSet(f, T \ {x})
  BY <1>1
<1>3. PICK c \in T : c = Chosen(T)
  BY ChosenIsIn
<1>4. SumFunctionOnSet(f, T) = f[c] + SumFunctionOnSet(f, T \ {c})
  BY <1>1, <1>3, SumStep
<1>5. x # c
  BY <1>2, <1>4
<1>6. T \ {c} \notin Bad /\ T \ {x} \notin Bad
  BY <1>1
<1>7. /\ x \in T \ {c} /\ c \in T \ {x}
      /\ T \ {c} \in SUBSET S /\ T \ {x} \in SUBSET S
  BY <1>5
<1>8. /\ SumFunctionOnSet(f, T \ {c}) = f[x] + SumFunctionOnSet(f, (T \ {c}) \ {x})
      /\ SumFunctionOnSet(f, T \ {x}) = f[c] + SumFunctionOnSet(f, (T \ {x}) \ {c})
  BY <1>6, <1>7
<1>9. (T \ {c}) \ {x} = (T \ {x}) \ {c}
  OBVIOUS
<1>10. PICK r : r = SumFunctionOnSet(f, (T \ {c}) \ {x})
  OBVIOUS
<1>11. r \in Int /\ f[x] \in Int /\ f[c] \in Int
  <2>1. IsFiniteSet((T \ {c}) \ {x})
    BY <1>1, FS_Subset
  <2>2. \A y \in (T \ {c}) \ {x} : f[y] \in Int
    BY <1>1
  <2> QED
    BY <1>1, <1>10, <2>1, <2>2, SumInt
<1>12. SumFunctionOnSet(f, T) = f[c] + (f[x] + r) /\ SumFunctionOnSet(f, T \ {x}) = f[c] + r
  BY <1>4, <1>8, <1>9, <1>10
<1>13. SumFunctionOnSet(f, T) = f[x] + SumFunctionOnSet(f, T \ {x})
  BY <1>11, <1>12
<1> QED
  BY <1>2, <1>13

\* One value changes by d.
LEMMA SumMoves ==
  ASSUME NEW S, IsFiniteSet(S), NEW f, NEW g, NEW a \in S, NEW d \in Int,
         \A x \in S : f[x] \in Int, \A x \in S \ {a} : g[x] = f[x], g[a] = f[a] + d
  PROVE  SumFunctionOnSet(g, S) = SumFunctionOnSet(f, S) + d
<1>1. PICK T : T = S \ {a}
  OBVIOUS
<1>2. IsFiniteSet(T) /\ \A x \in S : g[x] \in Int
  BY <1>1, FS_RemoveElement
<1>3. PICK r : r = SumFunctionOnSet(f, T)
  OBVIOUS
<1>4. r \in Int
  BY <1>1, <1>2, <1>3, SumInt
<1>5. SumFunctionOnSet(g, T) = r
  BY <1>1, <1>2, <1>3, SumSame
<1>6. SumFunctionOnSet(g, S) = g[a] + r
  BY <1>1, <1>2, <1>5, SumTakes
<1>7. SumFunctionOnSet(f, S) = f[a] + r
  BY <1>1, <1>3, SumTakes
<1> QED
  BY <1>4, <1>6, <1>7

\* An element that is new adds its value.
LEMMA SumGains ==
  ASSUME NEW S, IsFiniteSet(S), NEW f, NEW g, NEW a, a \notin S, NEW U, U = S \union {a},
         \A x \in S : f[x] \in Int, \A x \in S : g[x] = f[x], g[a] \in Int
  PROVE  SumFunctionOnSet(g, U) = SumFunctionOnSet(f, S) + g[a]
<1>1. IsFiniteSet(U) /\ U \ {a} = S /\ a \in U
  BY FS_AddElement
<1>2. \A x \in U : g[x] \in Int
  OBVIOUS
<1>3. PICK r : r = SumFunctionOnSet(f, S)
  OBVIOUS
<1>4. r \in Int
  BY <1>3, SumInt
<1>5. SumFunctionOnSet(g, S) = r
  BY <1>3, SumSame
<1>6. SumFunctionOnSet(g, U) = g[a] + r
  BY <1>1, <1>2, <1>5, SumTakes
<1> QED
  BY <1>2, <1>1, <1>3, <1>4, <1>6

\* Elements that add nothing may be left out.
LEMMA SumOfSome ==
  ASSUME NEW S, IsFiniteSet(S), NEW P \in SUBSET S, NEW f, NEW g,
         \A x \in P : g[x] \in Int /\ f[x] = g[x], \A x \in S \ P : f[x] = 0
  PROVE  SumFunctionOnSet(f, S) = SumFunctionOnSet(g, P)
<1>0. PICK Bad : Bad = {T \in SUBSET S :
                          SumFunctionOnSet(f, T) # SumFunctionOnSet(g, T \intersect P)}
  OBVIOUS
<1>1. S \intersect P = P
  OBVIOUS
<1> SUFFICES ASSUME Bad # {} PROVE FALSE
  BY <1>0, <1>1
<1>2. PICK T \in Bad : IsFiniteSet(T) /\ \A U \in Bad : U \subseteq T => U = T
  <2>1. Bad \subseteq SUBSET S
    BY <1>0
  <2> QED
    BY <2>1, LeastSet
<1>3. T \in SUBSET S /\ SumFunctionOnSet(f, T) # SumFunctionOnSet(g, T \intersect P)
  BY <1>0
<1>4. T # {}
  <2>1. ASSUME T = {} PROVE FALSE
    <3>1. T \intersect P = T
      BY <2>1
    <3>2. SumFunctionOnSet(f, T) = 0 /\ SumFunctionOnSet(g, T) = 0
      BY <1>2, <2>1, SumStep
    <3> QED
      BY <1>3, <3>1, <3>2
  <2> QED
    BY <2>1
<1>5. PICK c \in T : c = Chosen(T)
  BY <1>4, ChosenIsIn
<1>6. PICK R, U, V : R = T \ {c} /\ U = T \intersect P /\ V = R \intersect P
  OBVIOUS
<1>7. SumFunctionOnSet(f, T) # SumFunctionOnSet(g, U)
  BY <1>3, <1>6
<1>8. SumFunctionOnSet(f, R) = SumFunctionOnSet(g, V)
  <2>1. R \notin Bad /\ R \in SUBSET S
    BY <1>2, <1>3, <1>5, <1>6
  <2> QED
    BY <1>0, <1>6, <2>1
<1>9. SumFunctionOnSet(f, T) = f[c] + SumFunctionOnSet(f, R)
  BY <1>2, <1>4, <1>5, <1>6, SumStep
<1>10. IsFiniteSet(U) /\ IsFiniteSet(V) /\ \A x \in U : g[x] \in Int
  BY <1>2, <1>6, FS_Subset
<1>11. CASE c \in P
  <2>1. c \in U /\ U \ {c} = V
    BY <1>5, <1>6, <1>11
  <2>2. SumFunctionOnSet(g, U) = g[c] + SumFunctionOnSet(g, V)
    BY <1>10, <2>1, SumTakes
  <2> QED
    BY <1>8, <1>9, <1>11, <1>7, <2>2
<1>12. CASE c \notin P
  <2>1. U = V
    BY <1>6, <1>12
  <2>2. f[c] = 0
    BY <1>3, <1>5, <1>12
  <2>3. PICK v \in Int : v = SumFunctionOnSet(g, V)
    BY <1>10, <2>1, SumInt
  <2>4. SumFunctionOnSet(f, T) = v
    BY <1>8, <1>9, <2>2, <2>3
  <2> QED
    BY <1>7, <2>1, <2>3, <2>4
<1> QED
  BY <1>11, <1>12

\* A sum of nothing but zeros.
LEMMA SumZero ==
  ASSUME NEW S, IsFiniteSet(S), NEW f, \A x \in S : f[x] = 0
  PROVE  SumFunctionOnSet(f, S) = 0
<1>1. PICK P : P = {}
  OBVIOUS
<1>2. SumFunctionOnSet(f, S) = SumFunctionOnSet(f, P)
  BY <1>1, SumOfSome
<1> QED
  BY <1>1, <1>2, SumStep

\* The account a of f was paid d cents.
PaidInto(S, f, g, a, d) ==
  /\ a \in S /\ d \in Int /\ \A x \in S : f[x] \in Int
  /\ \A x \in S : g[x] = IF x = a THEN f[a] + d ELSE f[x]

\* Paid to a user or into an escrow, d cents add d to the total.
LEMMA PaidAdds ==
  ASSUME NEW S, IsFiniteSet(S), NEW f, NEW g, NEW a, NEW d, PaidInto(S, f, g, a, d)
  PROVE  SumFunctionOnSet(g, S) = SumFunctionOnSet(f, S) + d
<1>1. /\ a \in S /\ d \in Int /\ \A x \in S : f[x] \in Int
      /\ \A x \in S \ {a} : g[x] = f[x]
      /\ g[a] = f[a] + d
  BY DEF PaidInto
<1> QED
  BY <1>1, SumMoves

-----------------------------------------------------------------------------
(* Conservation of money.                                                  *)

\* Wallets and escrows are whole cents.
LEMMA MoneyTyping ==
  ASSUME Inv
  PROVE  /\ walletOf \in [Users -> Int] /\ heldBy \in [Milestones -> Int]
         /\ deposited \in [Users -> Int]
<1>1. LedgerTypeOK
  BY DEF Inv, TypeOK
<1>2. \A u \in Users : credits[u] \in Nat /\ debits[u] \in Nat
  BY <1>1 DEF LedgerTypeOK
<1>3. \A m \in Milestones : funded[m] \in Nat /\ released[m] \in Nat /\ refunded[m] \in Nat
  BY <1>1 DEF LedgerTypeOK
<1>4. \A u \in Users : walletBalanceCents(u) \in Int
  BY <1>2 DEF walletBalanceCents
<1>5. \A m \in Milestones : milestoneEscrowCents(m) \in Int
  BY <1>3 DEF milestoneEscrowCents
<1> QED
  BY <1>1, <1>4, <1>5 DEF walletOf, heldBy, LedgerTypeOK

\* A milestone that was never funded holds nothing.
LEMMA NeverFundedIsEmpty ==
  ASSUME Inv, NEW m \in neverFunded
  PROVE  heldBy[m] = 0
<1>1. m \in Milestones /\ funded[m] = 0
  BY DEF neverFunded
<1>2. released[m] + refunded[m] = 0
  BY <1>1 DEF Inv, LedgerAgreesWithState
<1> QED
  BY <1>1, <1>2 DEF heldBy, milestoneEscrowCents

\* Every step keeps the total: a top-up adds as much to the wallets as to the deposits,
\* a fund moves its amount into an escrow, and a payout moves all of it out.
LEMMA Conserves ==
  ASSUME Inv, [Next]_vars, MoneyConserved
  PROVE  MoneyConserved'
<1>1. PICK w \in [Users -> Int] : w = walletOf
  BY MoneyTyping
<1>2. PICK h \in [Milestones -> Int] : h = heldBy
  BY MoneyTyping
<1>3. PICK p \in [Users -> Int] : p = deposited
  BY MoneyTyping
<1>4. PICK W \in Int, H \in Int, P \in Int :
        /\ W = SumFunctionOnSet(w, Users)
        /\ H = SumFunctionOnSet(h, Milestones)
        /\ P = SumFunctionOnSet(p, Users)
  BY SumInt, FinitenessAssumption
<1>5. W + H = P
  BY <1>1, <1>2, <1>3, <1>4 DEF MoneyConserved
<1>6. PICK w1, h1, p1 : w1 = walletOf' /\ h1 = heldBy' /\ p1 = deposited'
  OBVIOUS
<1>7. SUFFICES SumFunctionOnSet(w1, Users) + SumFunctionOnSet(h1, Milestones)
                 = SumFunctionOnSet(p1, Users)
  BY <1>6 DEF MoneyConserved
<1>8. CASE UNCHANGED <<walletOf, heldBy, neverFunded, deposited>>
  BY <1>1, <1>2, <1>3, <1>4, <1>5, <1>6, <1>8
<1>9. ASSUME NEW u \in Users, NEW cents \in DepositSizes,
             walletOf' = [walletOf EXCEPT ![u] = @ + cents],
             deposited' = [deposited EXCEPT ![u] = @ + cents],
             UNCHANGED <<heldBy, neverFunded>>
      PROVE  SumFunctionOnSet(w1, Users) + SumFunctionOnSet(h1, Milestones)
               = SumFunctionOnSet(p1, Users)
  <2>1. /\ w1 = [w EXCEPT ![u] = @ + cents] /\ p1 = [p EXCEPT ![u] = @ + cents]
        /\ h1 = h /\ cents \in Int
    BY <1>1, <1>2, <1>3, <1>6, <1>9, RequestAssumption
  <2>2. PaidInto(Users, w, w1, u, cents)
    BY <2>1 DEF PaidInto
  <2>3. PaidInto(Users, p, p1, u, cents)
    BY <2>1 DEF PaidInto
  <2>4. SumFunctionOnSet(w1, Users) = W + cents
    BY <1>4, <2>2, PaidAdds, FinitenessAssumption
  <2>5. SumFunctionOnSet(p1, Users) = P + cents
    BY <1>4, <2>3, PaidAdds, FinitenessAssumption
  <2> QED
    BY <1>2, <1>4, <1>5, <2>1, <2>4, <2>5
<1>10. ASSUME NEW m \in Milestones, Abstract!Lock(m), deposited' = deposited
       PROVE  SumFunctionOnSet(w1, Users) + SumFunctionOnSet(h1, Milestones)
                = SumFunctionOnSet(p1, Users)
  <2>1. PICK a \in Int, u \in Users : a = Amount[m] /\ u = Payer[m]
    BY AmountAssumption, Parties DEF Payer
  <2>2. /\ w1 = [w EXCEPT ![u] = @ - a] /\ p1 = p
        /\ h1 = [h EXCEPT ![m] = a] /\ h[m] = 0
    BY <1>1, <1>2, <1>3, <1>6, <1>10, <2>1, NeverFundedIsEmpty DEF Abstract!Lock
  <2>3. PICK d \in Int : d = -a
    BY <2>1
  <2>4. PaidInto(Users, w, w1, u, d)
    BY <2>2, <2>3 DEF PaidInto
  <2>5. PaidInto(Milestones, h, h1, m, a)
    BY <2>2 DEF PaidInto
  <2>6. SumFunctionOnSet(w1, Users) = W + d
    BY <1>4, <2>4, PaidAdds, FinitenessAssumption
  <2>7. SumFunctionOnSet(h1, Milestones) = H + a
    BY <1>4, <2>5, PaidAdds, FinitenessAssumption
  <2> QED
    BY <1>4, <1>5, <2>2, <2>3, <2>6, <2>7
<1>11. ASSUME NEW m \in Milestones, Abstract!Settle(m), deposited' = deposited
       PROVE  SumFunctionOnSet(w1, Users) + SumFunctionOnSet(h1, Milestones)
                = SumFunctionOnSet(p1, Users)
  <2>1. PICK a \in Nat, u \in Users, v \in Users : a = Amount[m] /\ u = Payer[m] /\ v = Payee[m]
    BY AmountAssumption, Parties DEF Payer, Payee
  <2>2. PICK share \in 0 .. a :
          /\ h[m] = a /\ h1 = [h EXCEPT ![m] = 0] /\ p1 = p
          /\ w1 = [w EXCEPT ![v] = @ + share, ![u] = @ + (a - share)]
    BY <1>1, <1>2, <1>3, <1>6, <1>11, <2>1 DEF Abstract!Settle
  <2>3. PICK rest \in Int, d \in Int : rest = a - share /\ d = -a
    BY <2>1
  <2>4. PICK w2 : w2 = [w EXCEPT ![v] = @ + share]
    OBVIOUS
  <2>5. PaidInto(Users, w, w2, v, share)
    BY <2>4 DEF PaidInto
  <2>6. PaidInto(Users, w2, w1, u, rest)
    <3>1. \A x \in Users : w2[x] = IF x = v THEN w[v] + share ELSE w[x]
      BY <2>5 DEF PaidInto
    <3>2. u # v
      BY <2>1, Parties DEF Payer, Payee
    <3>3. \A x \in Users : w1[x] = IF x = v THEN w[v] + share ELSE IF x = u THEN w[u] + rest ELSE w[x]
      BY <2>2, <2>3, <3>2
    <3> QED
      BY <2>1, <2>2, <3>1, <3>2, <3>3 DEF PaidInto
  <2>7. PaidInto(Milestones, h, h1, m, d)
    BY <2>2, <2>3 DEF PaidInto
  <2>8. SumFunctionOnSet(w2, Users) = W + share
    BY <1>4, <2>5, PaidAdds, FinitenessAssumption
  <2>9. SumFunctionOnSet(w1, Users) = (W + share) + rest
    BY <2>6, <2>8, PaidAdds, FinitenessAssumption
  <2>10. SumFunctionOnSet(h1, Milestones) = H + d
    BY <1>4, <2>7, PaidAdds, FinitenessAssumption
  <2> QED
    BY <1>4, <1>5, <2>2, <2>3, <2>9, <2>10
<1> QED
  BY <1>8, <1>9, <1>10, <1>11, MoneySteps

\* Nothing is printed and nothing is lost, among any number of users and milestones.
THEOREM MoneyIsConserved == Spec => []MoneyConserved
<1>1. Init => MoneyConserved
  <2> SUFFICES ASSUME Init PROVE MoneyConserved
    OBVIOUS
  <2>1. /\ \A u \in Users : credits[u] = 0 /\ debits[u] = 0 /\ deposited[u] = 0
        /\ \A m \in Milestones : funded[m] = 0 /\ released[m] = 0 /\ refunded[m] = 0
    BY Zenon DEF Init
  <2>2. /\ \A u \in Users : walletOf[u] = 0 /\ deposited[u] = 0
        /\ \A m \in Milestones : heldBy[m] = 0
    BY <2>1 DEF walletOf, heldBy, walletBalanceCents, milestoneEscrowCents
  <2>3. /\ SumFunctionOnSet(walletOf, Users) = 0
        /\ SumFunctionOnSet(heldBy, Milestones) = 0
        /\ SumFunctionOnSet(deposited, Users) = 0
    BY <2>2, SumZero, FinitenessAssumption
  <2> QED
    BY <2>3 DEF MoneyConserved
<1>2. Inv /\ [Next]_vars /\ MoneyConserved => MoneyConserved'
  BY Conserves
<1> QED
  BY <1>1, <1>2, Invariance, PTL DEF Spec

-----------------------------------------------------------------------------
(* The table and the sums.                                                 *)

Rows == [type : {"DEPOSIT", "FUND", "RELEASE", "REFUND"},
         from : Users \union {NoUser}, to : Users \union {NoUser},
         milestone : Milestones \union {NoMilestone}, cents : Nat]

\* A table of finitely many different rows.
Table(b) == IsFiniteSet(DOMAIN b) /\ DOMAIN b \subseteq Rows /\ \A r \in DOMAIN b : b[r] \in Nat

Cents(b) == [r \in DOMAIN b |-> b[r] * r.cents]

\* The cents of the rows of b that are in W.
Total(b, W) == SumFunctionOnSet(Cents(b), {r \in DOMAIN b : r \in W})

CentsIn(r, W) == IF r \in W THEN r.cents ELSE 0

\* The rows of a kind are finitely many, and what they say together is an integer.
LEMMA TotalInt ==
  ASSUME NEW b, Table(b), NEW W
  PROVE  /\ IsFiniteSet({r \in DOMAIN b : r \in W})
         /\ \A r \in DOMAIN b : Cents(b)[r] \in Int
         /\ Total(b, W) \in Int
<1>1. IsFiniteSet({r \in DOMAIN b : r \in W})
  BY FS_Subset DEF Table
<1>2. ASSUME NEW r \in DOMAIN b PROVE Cents(b)[r] \in Int
  <2>1. b[r] \in Nat /\ r.cents \in Nat
    BY DEF Table, Rows
  <2> QED
    BY <2>1 DEF Cents
<1>3. PICK f, S : f = Cents(b) /\ S = {r \in DOMAIN b : r \in W}
  OBVIOUS
<1>4. IsFiniteSet(S) /\ \A r \in S : f[r] \in Int
  BY <1>1, <1>2, <1>3
<1>5. SumFunctionOnSet(f, S) \in Int
  BY <1>4, SumInt
<1> QED
  BY <1>1, <1>2, <1>3, <1>5 DEF Total

\* What one more row does to the total of any rows; a row of 0 is not written.
LEMMA AppendOne ==
  ASSUME NEW b, Table(b), NEW r \in Rows, NEW c,
         c = b (+) SetToBag({x \in {r} : x.cents # 0}), NEW W
  PROVE  Table(c) /\ Total(c, W) = Total(b, W) + CentsIn(r, W)
<1>1. PICK n \in Nat : n = r.cents
  BY DEF Rows
<1>2. CASE n = 0
  <2>1. {x \in {r} : x.cents # 0} = {}
    BY <1>1, <1>2
  <2>2. DOMAIN c = DOMAIN b
    BY <2>1 DEF (+), SetToBag
  <2>3. \A x \in DOMAIN b : c[x] = b[x]
    BY <2>1 DEF (+), SetToBag, Table
  <2>4. Cents(c) = Cents(b)
    BY <2>2, <2>3 DEF Cents
  <2>5. Table(c) /\ Total(c, W) = Total(b, W)
    BY <2>2, <2>3, <2>4 DEF Table, Total
  <2>6. PICK t \in Int : t = Total(b, W)
    BY TotalInt
  <2>7. CentsIn(r, W) = 0
    BY <1>1, <1>2 DEF CentsIn
  <2> QED
    BY <2>5, <2>6, <2>7
<1>3. CASE n # 0
  <2>1. {x \in {r} : x.cents # 0} = {r}
    BY <1>1, <1>3
  <2>2. DOMAIN c = DOMAIN b \union {r}
    BY <2>1 DEF (+), SetToBag
  <2>3. /\ \A x \in DOMAIN b \ {r} : c[x] = b[x]
        /\ c[r] = IF r \in DOMAIN b THEN b[r] + 1 ELSE 1
    BY <2>1 DEF (+), SetToBag, Table
  <2>4. Table(c)
    <3>1. IsFiniteSet(DOMAIN c)
      BY <2>2, FS_AddElement DEF Table
    <3>2. \A x \in DOMAIN c : c[x] \in Nat
      BY <2>2, <2>3 DEF Table
    <3> QED
      BY <2>2, <3>1, <3>2 DEF Table
  <2>5. PICK f, g, S, U : /\ f = Cents(b) /\ S = {x \in DOMAIN b : x \in W}
                          /\ g = Cents(c) /\ U = {x \in DOMAIN c : x \in W}
    OBVIOUS
  <2>6. IsFiniteSet(S) /\ \A x \in S : f[x] \in Int
    BY <2>5, TotalInt
  <2>7. \A x \in S \ {r} : g[x] = f[x]
    BY <2>2, <2>3, <2>5 DEF Cents
  <2>8. CASE r \notin W
    <3>1. U = S /\ \A x \in S : g[x] = f[x]
      BY <2>2, <2>5, <2>7, <2>8
    <3>2. SumFunctionOnSet(g, U) = SumFunctionOnSet(f, S)
      BY <2>6, <3>1, SumSame
    <3>3. SumFunctionOnSet(f, S) \in Int
      BY <2>6, SumInt
    <3> QED
      BY <2>4, <2>5, <2>8, <3>2, <3>3 DEF Total, CentsIn
  <2>9. CASE r \in W /\ r \in DOMAIN b
    <3>1. U = S /\ r \in S
      BY <2>2, <2>5, <2>9
    <3>2. g[r] = f[r] + n
      <4>1. PICK k \in Nat : k = b[r]
        BY <2>9 DEF Table
      <4>2. f[r] = k * n /\ g[r] = (k + 1) * n
        BY <1>1, <2>2, <2>3, <2>5, <2>9, <4>1 DEF Cents
      <4> QED
        BY <4>2
    <3>3. SumFunctionOnSet(g, S) = SumFunctionOnSet(f, S) + n
      BY <2>6, <2>7, <3>1, <3>2, SumMoves
    <3> QED
      BY <1>1, <2>4, <2>5, <2>9, <3>1, <3>3 DEF Total, CentsIn
  <2>10. CASE r \in W /\ r \notin DOMAIN b
    <3>1. U = S \union {r} /\ r \notin S /\ \A x \in S : g[x] = f[x]
      BY <2>2, <2>5, <2>7, <2>10
    <3>2. g[r] = n
      BY <1>1, <2>2, <2>3, <2>5, <2>10 DEF Cents
    <3>3. SumFunctionOnSet(g, U) = SumFunctionOnSet(f, S) + g[r]
      BY <2>6, <3>1, <3>2, SumGains
    <3> QED
      BY <1>1, <2>4, <2>5, <2>10, <3>2, <3>3 DEF Total, CentsIn
  <2> QED
    BY <2>8, <2>9, <2>10
<1> QED
  BY <1>2, <1>3

\* The same of two different rows.
LEMMA AppendTwo ==
  ASSUME NEW b, Table(b), NEW r \in Rows, NEW s \in Rows, r # s, NEW c,
         c = b (+) SetToBag({x \in {r, s} : x.cents # 0})
  PROVE  /\ Table(c)
         /\ \A W : Total(c, W) = Total(b, W) + CentsIn(r, W) + CentsIn(s, W)
<1>1. PICK R, S, D : /\ R = {x \in {r} : x.cents # 0}
                     /\ S = {x \in {s} : x.cents # 0}
                     /\ D = {x \in {r, s} : x.cents # 0}
  OBVIOUS
<1>2. PICK b1 : b1 = b (+) SetToBag(R)
  OBVIOUS
<1>3. D = R \union S /\ R \intersect S = {}
  BY <1>1
<1>4. c = b1 (+) SetToBag(S)
  <2>1. PICK c1 : c1 = b1 (+) SetToBag(S)
    OBVIOUS
  <2>2. DOMAIN b1 = DOMAIN b \union R
    BY <1>2 DEF (+), SetToBag
  <2>3. DOMAIN c1 = DOMAIN b \union D /\ DOMAIN c = DOMAIN b \union D
    BY <1>1, <1>3, <2>1, <2>2 DEF (+), SetToBag
  <2>4. ASSUME NEW x \in DOMAIN b \union D PROVE c[x] = c1[x]
    <3>1. c[x] = (IF x \in DOMAIN b THEN b[x] ELSE 0) + (IF x \in D THEN 1 ELSE 0)
      BY <1>1, <2>4 DEF (+), SetToBag
    <3>2. c1[x] = (IF x \in DOMAIN b1 THEN b1[x] ELSE 0) + (IF x \in S THEN 1 ELSE 0)
      BY <1>3, <2>1, <2>2, <2>4 DEF (+), SetToBag
    <3>3. x \in DOMAIN b1 =>
            b1[x] = (IF x \in DOMAIN b THEN b[x] ELSE 0) + (IF x \in R THEN 1 ELSE 0)
      BY <1>2, <2>2 DEF (+), SetToBag
    <3>4. x \in DOMAIN b => b[x] \in Nat
      BY DEF Table
    <3> QED
      BY <1>3, <2>2, <2>4, <3>1, <3>2, <3>3, <3>4
  <2>5. c = c1
    <3>1. c = [x \in DOMAIN c |-> c[x]] /\ c1 = [x \in DOMAIN c1 |-> c1[x]]
      BY <2>1 DEF (+)
    <3> QED
      BY <2>3, <2>4, <3>1
  <2> QED
    BY <2>1, <2>5
<1>5. Table(b1)
  BY <1>1, <1>2, AppendOne
<1>6. Table(c)
  BY <1>1, <1>4, <1>5, AppendOne
<1>7. ASSUME NEW W PROVE Total(c, W) = Total(b, W) + CentsIn(r, W) + CentsIn(s, W)
  <2>1. Total(b1, W) = Total(b, W) + CentsIn(r, W)
    BY <1>1, <1>2, AppendOne
  <2>2. Total(c, W) = Total(b1, W) + CentsIn(s, W)
    BY <1>1, <1>4, <1>5, AppendOne
  <2> QED
    BY <2>1, <2>2
<1> QED
  BY <1>6, <1>7

-----------------------------------------------------------------------------
(* The rows and the sums.                                                  *)

RowsTo(u) == {r \in Rows : r.to = u}
RowsFrom(u) == {r \in Rows : r.from = u}
RowsOf(m, type) == {r \in Rows : r.milestone = m /\ r.type = type}
FundsBy(u) == {r \in Rows : r.from = u /\ r.type = "FUND"}
PayoutsFor(u) == {r \in Rows : r.type \in {"RELEASE", "REFUND"} /\ Client(r.milestone) = u}
MilestonesOf(u) == {m \in Milestones : Client(m) = u}

\* The sums that Escrow keeps are those of the table b.
Booked(b, to, from, in, out, back) ==
  /\ \A u \in Users : Total(b, RowsTo(u)) = to[u] /\ Total(b, RowsFrom(u)) = from[u]
  /\ \A m \in Milestones :
       /\ Total(b, RowsOf(m, "FUND")) = in[m]
       /\ Total(b, RowsOf(m, "RELEASE")) = out[m]
       /\ Total(b, RowsOf(m, "REFUND")) = back[m]

\* What a client's rows put into escrows and did not get out is what these hold.
LockedUp(b, held) ==
  \A u \in Users :
    Total(b, FundsBy(u)) - Total(b, PayoutsFor(u)) = SumFunctionOnSet(held, MilestonesOf(u))

RowsInv ==
  /\ Table(rows)
  /\ Booked(rows, credits, debits, funded, released, refunded)
  /\ LockedUp(rows, heldBy)

\* A top-up counts in the credits of its user.
LEMMA DepositCents ==
  ASSUME NEW v \in Users, NEW k \in Nat, NEW r, r = Row("DEPOSIT", NoUser, v, NoMilestone, k)
  PROVE  /\ \A u \in Users :
              /\ CentsIn(r, RowsTo(u)) = IF u = v THEN k ELSE 0
              /\ CentsIn(r, RowsFrom(u)) = 0
              /\ CentsIn(r, FundsBy(u)) = 0 /\ CentsIn(r, PayoutsFor(u)) = 0
         /\ \A m \in Milestones, type \in {"FUND", "RELEASE", "REFUND"} :
              CentsIn(r, RowsOf(m, type)) = 0
BY NoUserAssumption, SentinelAssumption
   DEF Row, Rows, CentsIn, RowsTo, RowsFrom, RowsOf, FundsBy, PayoutsFor

\* A fund counts in the debits of its user and in the inflow of its milestone.
LEMMA FundCents ==
  ASSUME NEW v \in Users, NEW n \in Milestones, NEW k \in Nat, NEW r,
         r = Row("FUND", v, NoUser, n, k)
  PROVE  /\ \A u \in Users :
              /\ CentsIn(r, RowsTo(u)) = 0
              /\ CentsIn(r, RowsFrom(u)) = IF u = v THEN k ELSE 0
              /\ CentsIn(r, FundsBy(u)) = IF u = v THEN k ELSE 0
              /\ CentsIn(r, PayoutsFor(u)) = 0
         /\ \A m \in Milestones :
              /\ CentsIn(r, RowsOf(m, "FUND")) = IF m = n THEN k ELSE 0
              /\ CentsIn(r, RowsOf(m, "RELEASE")) = 0 /\ CentsIn(r, RowsOf(m, "REFUND")) = 0
BY NoUserAssumption, SentinelAssumption
   DEF Row, Rows, CentsIn, RowsTo, RowsFrom, RowsOf, FundsBy, PayoutsFor

\* A release or a refund counts in the credits of its user, in the outflow of its
\* milestone and in what left the escrows of the milestone's client.
LEMMA PayoutCents ==
  ASSUME NEW type \in {"RELEASE", "REFUND"}, NEW v \in Users, NEW n \in Milestones,
         NEW k \in Nat, NEW r, r = Row(type, NoUser, v, n, k)
  PROVE  /\ \A u \in Users :
              /\ CentsIn(r, RowsTo(u)) = IF u = v THEN k ELSE 0
              /\ CentsIn(r, RowsFrom(u)) = 0
              /\ CentsIn(r, FundsBy(u)) = 0
              /\ CentsIn(r, PayoutsFor(u)) = IF u = Client(n) THEN k ELSE 0
         /\ \A m \in Milestones, t \in {"FUND", "RELEASE", "REFUND"} :
              CentsIn(r, RowsOf(m, t)) = IF m = n /\ t = type THEN k ELSE 0
BY NoUserAssumption, SentinelAssumption
   DEF Row, Rows, CentsIn, RowsTo, RowsFrom, RowsOf, FundsBy, PayoutsFor

\* The escrows of a user hold d more when one of them does.
LEMMA HeldMoves ==
  ASSUME NEW h, NEW h1, NEW m, NEW d, PaidInto(Milestones, h, h1, m, d), NEW u
  PROVE  /\ SumFunctionOnSet(h, MilestonesOf(u)) \in Int
         /\ SumFunctionOnSet(h1, MilestonesOf(u))
              = SumFunctionOnSet(h, MilestonesOf(u)) + (IF u = Client(m) THEN d ELSE 0)
<1>1. PICK S : S = MilestonesOf(u)
  OBVIOUS
<1>2. S \subseteq Milestones /\ (m \in S <=> u = Client(m)) /\ IsFiniteSet(S)
  <2>1. S \subseteq Milestones /\ (m \in S <=> u = Client(m))
    BY <1>1 DEF MilestonesOf, PaidInto
  <2> QED
    BY <2>1, FS_Subset, FinitenessAssumption
<1>3. /\ \A n \in S : h[n] \in Int
      /\ \A n \in S : h1[n] = IF n = m THEN h[m] + d ELSE h[n]
      /\ d \in Int
  BY <1>2 DEF PaidInto
<1>4. SumFunctionOnSet(h, S) \in Int
  BY <1>2, <1>3, SumInt
<1>5. CASE u = Client(m)
  <2>1. PaidInto(S, h, h1, m, d)
    BY <1>2, <1>3, <1>5 DEF PaidInto
  <2> QED
    BY <1>1, <1>2, <1>4, <1>5, <2>1, PaidAdds
<1>6. CASE u # Client(m)
  <2>1. \A n \in S : h1[n] = h[n]
    BY <1>2, <1>3, <1>6
  <2>2. SumFunctionOnSet(h1, S) = SumFunctionOnSet(h, S)
    BY <1>2, <2>1, SumSame
  <2> QED
    BY <1>1, <1>4, <1>6, <2>2
<1> QED
  BY <1>5, <1>6

\* The table of a top-up.
LEMMA DepositBooks ==
  ASSUME Inv, RowsInv, NEW v \in Users, NEW k \in DepositSizes, depositRow(v, k)
  PROVE  RowsInv'
<1>1. k \in Nat
  BY RequestAssumption
<1>2. PICK r : r = Row("DEPOSIT", NoUser, v, NoMilestone, k)
  OBVIOUS
<1>3. r \in Rows
  BY <1>1, <1>2 DEF Row, Rows
<1>4. PICK b, c : b = rows /\ c = rows'
  OBVIOUS
<1>5. Table(b) /\ c = b (+) SetToBag({x \in {r} : x.cents # 0})
  BY <1>2, <1>4 DEF RowsInv, depositRow, append
<1>6. Table(c) /\ \A W : Total(c, W) = Total(b, W) + CentsIn(r, W)
  BY <1>3, <1>5, AppendOne
<1>7. /\ LedgerTypeOK
      /\ credits' = [credits EXCEPT ![v] = @ + k]
      /\ UNCHANGED <<funded, released, refunded, debits>>
  BY DEF Inv, TypeOK, depositRow, deposit, insertDeposit
<1>8. heldBy' = heldBy
  BY <1>7 DEF heldBy, milestoneEscrowCents
<1>9. ASSUME NEW u \in Users
      PROVE  /\ Total(c, RowsTo(u)) = credits'[u] /\ Total(c, RowsFrom(u)) = debits[u]
             /\ Total(c, FundsBy(u)) = Total(b, FundsBy(u))
             /\ Total(c, PayoutsFor(u)) = Total(b, PayoutsFor(u))
  <2>1. /\ Total(b, RowsTo(u)) = credits[u] /\ Total(b, RowsFrom(u)) = debits[u]
        /\ credits[u] \in Nat /\ debits[u] \in Nat
        /\ credits'[u] = credits[u] + (IF u = v THEN k ELSE 0)
    BY <1>4, <1>7 DEF RowsInv, Booked, LedgerTypeOK
  <2>2. Total(b, FundsBy(u)) \in Int /\ Total(b, PayoutsFor(u)) \in Int
    BY <1>5, TotalInt
  <2>3. /\ CentsIn(r, RowsTo(u)) = (IF u = v THEN k ELSE 0)
        /\ CentsIn(r, RowsFrom(u)) = 0
        /\ CentsIn(r, FundsBy(u)) = 0 /\ CentsIn(r, PayoutsFor(u)) = 0
    BY <1>1, <1>2, DepositCents
  <2> QED
    BY <1>6, <1>7, <2>1, <2>2, <2>3
<1>10. ASSUME NEW m \in Milestones, NEW type \in {"FUND", "RELEASE", "REFUND"}
       PROVE  Total(c, RowsOf(m, type)) = Total(b, RowsOf(m, type))
  <2>1. Total(b, RowsOf(m, type)) \in Int
    BY <1>5, TotalInt
  <2>2. CentsIn(r, RowsOf(m, type)) = 0
    BY <1>1, <1>2, DepositCents
  <2> QED
    BY <1>6, <2>1, <2>2
<1>11. /\ Booked(b, credits, debits, funded, released, refunded)
       /\ LockedUp(b, heldBy)
  BY <1>4 DEF RowsInv
<1>12. Booked(c, credits', debits', funded', released', refunded')
  BY <1>7, <1>9, <1>10, <1>11 DEF Booked
<1>13. LockedUp(c, heldBy')
  BY <1>8, <1>9, <1>11 DEF LockedUp
<1> QED
  BY <1>4, <1>6, <1>12, <1>13 DEF RowsInv

\* The table of a fund.
LEMMA FundBooks ==
  ASSUME Inv, RowsInv, NEW n \in Milestones, fundRow(n)
  PROVE  RowsInv'
<1>1. PICK k \in Nat, v \in Users : k = Amount[n] /\ v = Client(n)
  BY AmountAssumption, Parties
<1>2. PICK r : r = Row("FUND", v, NoUser, n, k)
  OBVIOUS
<1>3. r \in Rows
  BY <1>1, <1>2 DEF Row, Rows
<1>4. PICK b, c : b = rows /\ c = rows'
  OBVIOUS
<1>5. Table(b) /\ c = b (+) SetToBag({x \in {r} : x.cents # 0})
  BY <1>1, <1>2, <1>4 DEF RowsInv, fundRow, append
<1>6. Table(c) /\ \A W : Total(c, W) = Total(b, W) + CentsIn(r, W)
  BY <1>3, <1>5, AppendOne
<1>7. /\ LedgerTypeOK
      /\ funded' = [funded EXCEPT ![n] = @ + k]
      /\ debits' = [debits EXCEPT ![v] = @ + k]
      /\ UNCHANGED <<released, refunded, credits>>
  BY <1>1 DEF Inv, TypeOK, fundRow, FundCommit, insertFund
<1>8. PICK h, h1 : h = heldBy /\ h1 = heldBy'
  OBVIOUS
<1>9. PaidInto(Milestones, h, h1, n, k)
  <2>1. ASSUME NEW m \in Milestones
        PROVE  h[m] \in Int /\ h1[m] = IF m = n THEN h[n] + k ELSE h[m]
    <3>1. /\ funded[m] \in Nat /\ released[m] \in Nat /\ refunded[m] \in Nat
          /\ funded'[m] = (IF m = n THEN funded[n] + k ELSE funded[m])
          /\ released'[m] = released[m] /\ refunded'[m] = refunded[m]
      BY <1>7 DEF LedgerTypeOK
    <3>2. /\ h[m] = funded[m] - (released[m] + refunded[m])
          /\ h1[m] = funded'[m] - (released'[m] + refunded'[m])
      BY <1>8 DEF heldBy, milestoneEscrowCents
    <3> QED
      BY <3>1, <3>2
  <2> QED
    BY <2>1 DEF PaidInto
<1>10. /\ Booked(b, credits, debits, funded, released, refunded)
       /\ LockedUp(b, h)
  BY <1>4, <1>8 DEF RowsInv
<1>11. ASSUME NEW u \in Users
       PROVE  /\ Total(c, RowsTo(u)) = credits[u] /\ Total(c, RowsFrom(u)) = debits'[u]
              /\ Total(c, FundsBy(u)) - Total(c, PayoutsFor(u))
                   = SumFunctionOnSet(h1, MilestonesOf(u))
  <2>1. /\ Total(b, RowsTo(u)) = credits[u] /\ Total(b, RowsFrom(u)) = debits[u]
        /\ credits[u] \in Nat /\ debits[u] \in Nat
        /\ debits'[u] = debits[u] + (IF u = v THEN k ELSE 0)
    BY <1>7, <1>10 DEF Booked, LedgerTypeOK
  <2>2. Total(b, FundsBy(u)) \in Int /\ Total(b, PayoutsFor(u)) \in Int
    BY <1>5, TotalInt
  <2>3. /\ CentsIn(r, RowsTo(u)) = 0
        /\ CentsIn(r, RowsFrom(u)) = (IF u = v THEN k ELSE 0)
        /\ CentsIn(r, FundsBy(u)) = (IF u = v THEN k ELSE 0)
        /\ CentsIn(r, PayoutsFor(u)) = 0
    BY <1>1, <1>2, FundCents
  <2>4. /\ SumFunctionOnSet(h, MilestonesOf(u)) \in Int
        /\ SumFunctionOnSet(h1, MilestonesOf(u))
             = SumFunctionOnSet(h, MilestonesOf(u)) + (IF u = v THEN k ELSE 0)
    BY <1>1, <1>9, HeldMoves
  <2>5. Total(b, FundsBy(u)) - Total(b, PayoutsFor(u)) = SumFunctionOnSet(h, MilestonesOf(u))
    BY <1>10 DEF LockedUp
  <2> QED
    BY <1>6, <2>1, <2>2, <2>3, <2>4, <2>5
<1>12. ASSUME NEW m \in Milestones
       PROVE  /\ Total(c, RowsOf(m, "FUND")) = funded'[m]
              /\ Total(c, RowsOf(m, "RELEASE")) = released[m]
              /\ Total(c, RowsOf(m, "REFUND")) = refunded[m]
  <2>1. /\ Total(b, RowsOf(m, "FUND")) = funded[m]
        /\ Total(b, RowsOf(m, "RELEASE")) = released[m]
        /\ Total(b, RowsOf(m, "REFUND")) = refunded[m]
        /\ funded[m] \in Nat /\ released[m] \in Nat /\ refunded[m] \in Nat
        /\ funded'[m] = funded[m] + (IF m = n THEN k ELSE 0)
    BY <1>7, <1>10 DEF Booked, LedgerTypeOK
  <2>2. /\ CentsIn(r, RowsOf(m, "FUND")) = (IF m = n THEN k ELSE 0)
        /\ CentsIn(r, RowsOf(m, "RELEASE")) = 0 /\ CentsIn(r, RowsOf(m, "REFUND")) = 0
    BY <1>1, <1>2, FundCents
  <2> QED
    BY <1>6, <2>1, <2>2
<1>13. Booked(c, credits', debits', funded', released', refunded')
  BY <1>7, <1>11, <1>12 DEF Booked
<1>14. LockedUp(c, h1)
  BY <1>11 DEF LockedUp
<1> QED
  BY <1>4, <1>6, <1>8, <1>13, <1>14 DEF RowsInv

\* The table of a payout.
LEMMA PayoutBooks ==
  ASSUME Inv, RowsInv, NEW n \in Milestones, NEW x \in Nat, NEW y \in Nat, NEW key,
         insertPayout(n, x, y, key),
         append({Row("RELEASE", NoUser, Freelancer(n), n, x),
                 Row("REFUND", NoUser, Client(n), n, y)})
  PROVE  RowsInv'
<1>1. PICK v \in Users, w \in Users : v = Freelancer(n) /\ w = Client(n) /\ v # w
  BY Parties
<1>2. PICK r, s : r = Row("RELEASE", NoUser, v, n, x) /\ s = Row("REFUND", NoUser, w, n, y)
  OBVIOUS
<1>3. r \in Rows /\ s \in Rows /\ r # s
  BY <1>1, <1>2 DEF Row, Rows
<1>4. PICK b, c : b = rows /\ c = rows'
  OBVIOUS
<1>5. Table(b) /\ c = b (+) SetToBag({z \in {r, s} : z.cents # 0})
  BY <1>1, <1>2, <1>4 DEF RowsInv, append
<1>6. Table(c) /\ \A W : Total(c, W) = Total(b, W) + CentsIn(r, W) + CentsIn(s, W)
  BY <1>3, <1>5, AppendTwo
<1>7. /\ LedgerTypeOK
      /\ released' = [released EXCEPT ![n] = @ + x]
      /\ refunded' = [refunded EXCEPT ![n] = @ + y]
      /\ credits' = [credits EXCEPT ![v] = @ + x, ![w] = @ + y]
      /\ UNCHANGED <<funded, debits>>
  BY <1>1 DEF Inv, TypeOK, insertPayout
<1>8. PICK h, h1, d : h = heldBy /\ h1 = heldBy' /\ d = -(x + y)
  OBVIOUS
<1>9. PaidInto(Milestones, h, h1, n, d)
  <2>1. ASSUME NEW m \in Milestones
        PROVE  h[m] \in Int /\ h1[m] = IF m = n THEN h[n] + d ELSE h[m]
    <3>1. /\ funded[m] \in Nat /\ released[m] \in Nat /\ refunded[m] \in Nat
          /\ released'[m] = (IF m = n THEN released[n] + x ELSE released[m])
          /\ refunded'[m] = (IF m = n THEN refunded[n] + y ELSE refunded[m])
          /\ funded'[m] = funded[m]
      BY <1>7 DEF LedgerTypeOK
    <3>2. /\ h[m] = funded[m] - (released[m] + refunded[m])
          /\ h1[m] = funded'[m] - (released'[m] + refunded'[m])
      BY <1>8 DEF heldBy, milestoneEscrowCents
    <3> QED
      BY <1>8, <3>1, <3>2
  <2> QED
    BY <1>8, <2>1 DEF PaidInto
<1>10. /\ Booked(b, credits, debits, funded, released, refunded)
       /\ LockedUp(b, h)
  BY <1>4, <1>8 DEF RowsInv
<1>11. ASSUME NEW u \in Users
       PROVE  /\ Total(c, RowsTo(u)) = credits'[u] /\ Total(c, RowsFrom(u)) = debits[u]
              /\ Total(c, FundsBy(u)) - Total(c, PayoutsFor(u))
                   = SumFunctionOnSet(h1, MilestonesOf(u))
  <2>1. /\ Total(b, RowsTo(u)) = credits[u] /\ Total(b, RowsFrom(u)) = debits[u]
        /\ credits[u] \in Nat /\ debits[u] \in Nat
        /\ credits'[u] = credits[u] + (IF u = v THEN x ELSE 0) + (IF u = w THEN y ELSE 0)
    BY <1>1, <1>7, <1>10 DEF Booked, LedgerTypeOK
  <2>2. Total(b, FundsBy(u)) \in Int /\ Total(b, PayoutsFor(u)) \in Int
    BY <1>5, TotalInt
  <2>3. /\ CentsIn(r, RowsTo(u)) = (IF u = v THEN x ELSE 0)
        /\ CentsIn(r, RowsFrom(u)) = 0
        /\ CentsIn(r, FundsBy(u)) = 0
        /\ CentsIn(r, PayoutsFor(u)) = (IF u = w THEN x ELSE 0)
    BY <1>1, <1>2, PayoutCents
  <2>4. /\ CentsIn(s, RowsTo(u)) = (IF u = w THEN y ELSE 0)
        /\ CentsIn(s, RowsFrom(u)) = 0
        /\ CentsIn(s, FundsBy(u)) = 0
        /\ CentsIn(s, PayoutsFor(u)) = (IF u = w THEN y ELSE 0)
    BY <1>1, <1>2, PayoutCents
  <2>5. /\ SumFunctionOnSet(h, MilestonesOf(u)) \in Int
        /\ SumFunctionOnSet(h1, MilestonesOf(u))
             = SumFunctionOnSet(h, MilestonesOf(u)) + (IF u = w THEN d ELSE 0)
    BY <1>1, <1>9, HeldMoves
  <2>6. Total(b, FundsBy(u)) - Total(b, PayoutsFor(u)) = SumFunctionOnSet(h, MilestonesOf(u))
    BY <1>10 DEF LockedUp
  <2>7. Total(c, RowsTo(u)) = credits'[u] /\ Total(c, RowsFrom(u)) = debits[u]
    BY <1>6, <2>1, <2>3, <2>4
  <2>8. /\ Total(c, FundsBy(u)) = Total(b, FundsBy(u))
        /\ Total(c, PayoutsFor(u)) = Total(b, PayoutsFor(u)) + (IF u = w THEN x + y ELSE 0)
    BY <1>6, <2>2, <2>3, <2>4
  <2> QED
    BY <1>8, <2>2, <2>5, <2>6, <2>7, <2>8
<1>12. ASSUME NEW m \in Milestones
       PROVE  /\ Total(c, RowsOf(m, "FUND")) = funded[m]
              /\ Total(c, RowsOf(m, "RELEASE")) = released'[m]
              /\ Total(c, RowsOf(m, "REFUND")) = refunded'[m]
  <2>1. /\ Total(b, RowsOf(m, "FUND")) = funded[m]
        /\ Total(b, RowsOf(m, "RELEASE")) = released[m]
        /\ Total(b, RowsOf(m, "REFUND")) = refunded[m]
        /\ funded[m] \in Nat /\ released[m] \in Nat /\ refunded[m] \in Nat
        /\ released'[m] = released[m] + (IF m = n THEN x ELSE 0)
        /\ refunded'[m] = refunded[m] + (IF m = n THEN y ELSE 0)
    BY <1>7, <1>10 DEF Booked, LedgerTypeOK
  <2>2. /\ CentsIn(r, RowsOf(m, "FUND")) = 0 /\ CentsIn(s, RowsOf(m, "FUND")) = 0
        /\ CentsIn(r, RowsOf(m, "RELEASE")) = (IF m = n THEN x ELSE 0)
        /\ CentsIn(s, RowsOf(m, "RELEASE")) = 0
        /\ CentsIn(r, RowsOf(m, "REFUND")) = 0
        /\ CentsIn(s, RowsOf(m, "REFUND")) = (IF m = n THEN y ELSE 0)
    BY <1>1, <1>2, PayoutCents
  <2> QED
    BY <1>6, <2>1, <2>2
<1>13. Booked(c, credits', debits', funded', released', refunded')
  BY <1>7, <1>11, <1>12 DEF Booked
<1>14. LockedUp(c, h1)
  BY <1>11 DEF LockedUp
<1> QED
  BY <1>4, <1>6, <1>8, <1>13, <1>14 DEF RowsInv

\* The table of a commit that pays out of a milestone, be it nothing.
LEMMA CommitBooks ==
  ASSUME Inv, RowsInv, NEW n \in Milestones
  PROVE  /\ \A u \in Users : cancelRow(u, n) => RowsInv'
         /\ releaseRow(n) => RowsInv'
         /\ splitRows(n) => RowsInv'
<1>1. PICK v, w : v = Freelancer(n) /\ w = Client(n)
  OBVIOUS
<1>2. \A x, y : Row("RELEASE", NoUser, v, n, x).cents = x /\ Row("REFUND", NoUser, w, n, y).cents = y
  BY DEF Row
<1>3. ASSUME NEW u \in Users, cancelRow(u, n) PROVE RowsInv'
  <2>1. PICK y \in Nat : y = IF state[n] = "FUNDED" THEN milestoneEscrowCents(n) ELSE 0
    BY EscrowTyping
  <2>2. insertPayout(n, 0, y, NoKey)
    BY <1>3, <2>1 DEF cancelRow, cancelMilestone
  <2>3. u = w
    BY <1>1, <1>3 DEF cancelRow, cancelMilestone
  <2>4. append({Row("RELEASE", NoUser, v, n, 0), Row("REFUND", NoUser, w, n, y)})
    <3>1. PICK D : /\ D = IF state[n] = "FUNDED" THEN {Row("REFUND", NoUser, w, n, y)} ELSE {}
                   /\ append(D)
      BY <1>3, <2>1, <2>3 DEF cancelRow
    <3>2. {r \in D : r.cents # 0}
            = {r \in {Row("RELEASE", NoUser, v, n, 0), Row("REFUND", NoUser, w, n, y)} : r.cents # 0}
      BY <1>2, <2>1, <3>1
    <3> QED
      BY <3>1, <3>2 DEF append
  <2> QED
    BY <1>1, <2>2, <2>4, PayoutBooks
<1>4. ASSUME releaseRow(n) PROVE RowsInv'
  <2>1. PICK x \in Nat : x = Amount[n]
    BY AmountAssumption
  <2>2. PICK key : insertPayout(n, x, 0, key)
    BY <1>4, <2>1 DEF releaseRow, ApproveCommit
  <2>3. append({Row("RELEASE", NoUser, v, n, x), Row("REFUND", NoUser, w, n, 0)})
    <3>1. append({Row("RELEASE", NoUser, v, n, x)})
      BY <1>1, <1>4, <2>1 DEF releaseRow
    <3>2. {r \in {Row("RELEASE", NoUser, v, n, x)} : r.cents # 0}
            = {r \in {Row("RELEASE", NoUser, v, n, x), Row("REFUND", NoUser, w, n, 0)} : r.cents # 0}
      BY <1>2
    <3> QED
      BY <3>1, <3>2 DEF append
  <2> QED
    BY <1>1, <2>2, <2>3, PayoutBooks
<1>5. ASSUME splitRows(n) PROVE RowsInv'
  <2>1. PICK escrow \in Nat, pct \in 0 .. 100 : escrow = milestoneEscrowCents(n) /\ pct = txn[n].pct
    BY EscrowTyping DEF Inv, TypeOK, ProcessTypeOK, Txn
  <2>2. PICK x \in Nat, y \in Nat : x = Share(escrow, pct) /\ y = escrow - x
    <3>1. Share(escrow, pct) \in 0 .. escrow
      BY ShareSplits
    <3> QED
      BY <3>1
  <2>3. insertPayout(n, x, y, NoKey)
    BY <1>5, <2>1, <2>2 DEF splitRows, ResolveCommit
  <2>4. append({Row("RELEASE", NoUser, v, n, x), Row("REFUND", NoUser, w, n, y)})
    BY <1>1, <1>5, <2>1, <2>2 DEF splitRows
  <2> QED
    BY <1>1, <2>3, <2>4, PayoutBooks
<1> QED
  BY <1>3, <1>4, <1>5

\* A step of the table is a step of the escrow.
LEMMA RowsAreSteps == RowsNext => Next
BY DEF RowsNext, depositRow, fundRow, cancelRow, releaseRow, splitRows, Next, Requests, Proceed

\* Every step keeps the table and the sums together.
LEMMA RowsStep ==
  ASSUME Inv, RowsInv, [RowsNext]_<<vars, rows>>
  PROVE  RowsInv'
<1>1. CASE UNCHANGED <<ledgerVars, rows>>
  <2>1. heldBy' = heldBy
    BY <1>1 DEF ledgerVars, heldBy, milestoneEscrowCents
  <2> QED
    BY <1>1, <2>1 DEF RowsInv, ledgerVars, Booked, LockedUp
<1>2. CASE RowsNext
  BY <1>1, <1>2, DepositBooks, FundBooks, CommitBooks DEF RowsNext
<1> QED
  BY <1>1, <1>2 DEF vars

\* The empty table.
LEMMA RowsStart == RowsInit => RowsInv
<1> SUFFICES ASSUME RowsInit PROVE RowsInv
  OBVIOUS
<1>1. DOMAIN rows = {}
  BY DEF RowsInit, EmptyBag, SetToBag
<1>2. Table(rows)
  BY <1>1, FS_EmptySet DEF Table
<1>3. ASSUME NEW W PROVE Total(rows, W) = 0
  <2>1. {r \in DOMAIN rows : r \in W} = {}
    BY <1>1
  <2> QED
    BY <2>1, SumStep, FS_EmptySet DEF Total
<1>4. /\ \A u \in Users : credits[u] = 0 /\ debits[u] = 0
      /\ \A m \in Milestones : funded[m] = 0 /\ released[m] = 0 /\ refunded[m] = 0
  BY Zenon DEF RowsInit, Init
<1>5. Booked(rows, credits, debits, funded, released, refunded)
  BY <1>3, <1>4 DEF Booked
<1>6. LockedUp(rows, heldBy)
  <2> SUFFICES ASSUME NEW u \in Users
               PROVE  Total(rows, FundsBy(u)) - Total(rows, PayoutsFor(u))
                        = SumFunctionOnSet(heldBy, MilestonesOf(u))
    BY DEF LockedUp
  <2>1. PICK h, S : h = heldBy /\ S = MilestonesOf(u)
    OBVIOUS
  <2>2. \A m \in S : h[m] = 0
    BY <1>4, <2>1 DEF heldBy, milestoneEscrowCents, MilestonesOf
  <2>3. IsFiniteSet(S)
    BY <2>1, FS_Subset, FinitenessAssumption DEF MilestonesOf
  <2>4. SumFunctionOnSet(h, S) = 0
    BY <2>2, <2>3, SumZero
  <2> QED
    BY <1>3, <2>1, <2>4
<1> QED
  BY <1>2, <1>5, <1>6 DEF RowsInv

\* What the queries of ledger.service.ts select is what the totals add up.
LEMMA Queries ==
  ASSUME Table(rows)
  PROVE  /\ \A u \in Users :
              /\ creditsOf(u) = Total(rows, RowsTo(u))
              /\ debitsOf(u) = Total(rows, RowsFrom(u))
              /\ userInEscrowCents(u) = Total(rows, FundsBy(u)) - Total(rows, PayoutsFor(u))
         /\ \A m \in Milestones :
              /\ inflow(m) = Total(rows, RowsOf(m, "FUND"))
              /\ outflow(m, {"RELEASE"}) = Total(rows, RowsOf(m, "RELEASE"))
              /\ outflow(m, {"REFUND"}) = Total(rows, RowsOf(m, "REFUND"))
<1> USE DEF Table
<1>1. ASSUME NEW u \in Users
      PROVE  /\ {r \in DOMAIN rows : r \in RowsTo(u)} = {r \in DOMAIN rows : r.to = u}
             /\ {r \in DOMAIN rows : r \in RowsFrom(u)} = {r \in DOMAIN rows : r.from = u}
             /\ {r \in DOMAIN rows : r \in FundsBy(u)}
                  = {r \in DOMAIN rows : r.from = u /\ r.type = "FUND"}
             /\ {r \in DOMAIN rows : r \in PayoutsFor(u)}
                  = {r \in DOMAIN rows : r.type \in {"RELEASE", "REFUND"}
                                           /\ Client(r.milestone) = u}
  BY DEF RowsTo, RowsFrom, FundsBy, PayoutsFor
<1>2. ASSUME NEW m \in Milestones
      PROVE  /\ {r \in DOMAIN rows : r \in RowsOf(m, "FUND")}
                  = {r \in DOMAIN rows : r.milestone = m /\ r.type = "FUND"}
             /\ \A type \in {"RELEASE", "REFUND"} :
                  {r \in DOMAIN rows : r \in RowsOf(m, type)}
                    = {r \in DOMAIN rows : r.milestone = m /\ r.type \in {type}}
  BY DEF RowsOf
<1>3. [r \in BagToSet(rows) |-> rows[r] * r.cents] = Cents(rows) /\ BagToSet(rows) = DOMAIN rows
  BY DEF BagToSet, Cents
<1> QED
  BY <1>1, <1>2, <1>3
     DEF Total, SumWhere, creditsOf, debitsOf, userInEscrowCents, inflow, outflow

\* An escrow holds its amount while the milestone is live, and nothing otherwise.
LEMMA LiveHolds ==
  ASSUME Inv, NEW m \in Milestones
  PROVE  heldBy[m] = IF state[m] \in TerminalStates \union {"CREATED"} THEN 0 ELSE Amount[m]
<1>1. /\ Agrees(m) /\ state[m] \in MilestoneStates /\ Amount[m] \in Nat
      /\ funded[m] \in Nat /\ released[m] \in Nat /\ refunded[m] \in Nat
  BY AmountAssumption
     DEF Inv, TypeOK, RowTypeOK, LedgerTypeOK, LedgerAgreesWithState, Agrees
<1>2. heldBy[m] = funded[m] - (released[m] + refunded[m])
  BY DEF heldBy, milestoneEscrowCents
<1> QED
  BY <1>1, <1>2 DEF Agrees, TerminalStates, MilestoneStates

\* The rows are what the table starts from and every handler keeps.
LEMMA RowsInvariance == RowsSpec => [](Inv /\ RowsInv)
<1>1. RowsInit => Inv /\ RowsInv
  BY InitInv, RowsStart DEF RowsInit
<1>2. Inv /\ RowsInv /\ [RowsNext]_<<vars, rows>> => Inv' /\ RowsInv'
  <2>1. [RowsNext]_<<vars, rows>> => [Next]_vars
    BY RowsAreSteps
  <2> QED
    BY <2>1, Inductive, RowsStep
<1> QED
  BY <1>1, <1>2, PTL DEF RowsSpec

\* Every balance, inflow and outflow the code selects from the rows is the sum the
\* model keeps, whatever was appended and in which order.
THEOREM RowsMatch == RowsSpec => []RowsMatchSums
<1>1. Inv /\ RowsInv => RowsMatchSums
  BY Queries DEF RowsInv, Booked, RowsMatchSums
<1> QED
  BY <1>1, RowsInvariance, PTL

\* The wallet's figure of money in escrow is the total of the client's live milestones.
THEOREM InEscrow == RowsSpec => []InEscrowIsLive
<1>1. ASSUME Inv, RowsInv PROVE InEscrowIsLive
  <2> SUFFICES ASSUME NEW u \in Users
               PROVE  userInEscrowCents(u) =
                        SumFunctionOnSet(Amount, {m \in Milestones : Client(m) = u
                          /\ state[m] \notin TerminalStates \union {"CREATED"}})
    BY DEF InEscrowIsLive
  <2>1. userInEscrowCents(u) = SumFunctionOnSet(heldBy, MilestonesOf(u))
    BY <1>1, Queries DEF RowsInv, LockedUp
  <2>2. PICK h, S, P :
          /\ h = heldBy /\ S = MilestonesOf(u)
          /\ P = {m \in Milestones : Client(m) = u
                                       /\ state[m] \notin TerminalStates \union {"CREATED"}}
    OBVIOUS
  <2>3. S \subseteq Milestones /\ P \in SUBSET S
    BY <2>2 DEF MilestonesOf
  <2>4. \A m \in P : Amount[m] \in Int /\ h[m] = Amount[m]
    BY <1>1, <2>2, LiveHolds, AmountAssumption
  <2>5. \A m \in S \ P : h[m] = 0
    BY <1>1, <2>2, LiveHolds DEF MilestonesOf
  <2>6. IsFiniteSet(S)
    BY <2>3, FS_Subset, FinitenessAssumption
  <2>7. SumFunctionOnSet(h, S) = SumFunctionOnSet(Amount, P)
    BY <2>3, <2>4, <2>5, <2>6, SumOfSome
  <2> QED
    BY <2>1, <2>2, <2>7
<1> QED
  BY <1>1, RowsInvariance, PTL

-----------------------------------------------------------------------------
(* Keys and answers.                                                       *)

\* What a request asked for has happened.
Done(op, m) ==
  /\ op = "fund" => funded[m] = Amount[m]
  /\ op = "approve" => state[m] = "RELEASED"

\* A transaction t of milestone m inserts the key of the request that opened it.
Carries(t, m) ==
  /\ t.step \in FundSteps => <<t.key, "fund", m>> \in KeyUse
  /\ t.step \in ApproveSteps => IF t.auto THEN t.key = NoKey
                                          ELSE <<t.key, "approve", m>> \in KeyUse

\* A key in the table proves its request: a replay may answer 200 without a look at
\* the milestone.
KeysInv ==
  /\ AckedMeansDone
  /\ \A m \in Milestones : Carries(txn[m], m)
  /\ \A k \in usedKeys, op \in {"fund", "approve"}, m \in Milestones :
       <<k, op, m>> \in KeyUse => Done(op, m)

\* What was funded stays funded, and a released milestone stays released.
LEMMA DoneStays ==
  ASSUME Inv, [Next]_vars, NEW op, NEW m \in Milestones, Done(op, m)
  PROVE  Done(op, m)'
<1>1. /\ LedgerTypeOK /\ Amount[m] \in Nat \ {0}
  BY AmountAssumption DEF Inv, TypeOK
<1>2. ASSUME state[m] = "RELEASED" PROVE state'[m] = "RELEASED"
  BY <1>2, TerminalStays DEF TerminalStates
<1>3. ASSUME funded[m] = Amount[m] PROVE funded'[m] = Amount[m]
  <2>1. CASE Quiet
    BY <1>3, <2>1 DEF Quiet
  <2>2. ASSUME NEW n \in Milestones, Moves(n), n # m PROVE funded'[m] = Amount[m]
    BY <1>3, <2>2, MovesOwnSums
  <2>3. CASE Moves(m)
    <3>1. ~FundCommit(m)
      <4>1. state[m] # "CREATED"
        BY <1>1, <1>3 DEF Inv, LedgerAgreesWithState
      <4> QED
        BY <4>1, MoveSources
    <3>2. funded' = funded
      BY <2>3, <3>1
         DEF Moves, startMilestone, submitMilestone, requestChanges, cancelMilestone, openDispute,
             ApproveCommit, ResolveCommit, insertPayout, ledgerVars
    <3> QED
      BY <1>3, <3>2
  <2> QED
    BY <2>1, <2>2, <2>3, RowSteps
<1> QED
  BY <1>2, <1>3 DEF Done

\* The two commits that insert a key do what its request asked for.
LEMMA CommitsDo ==
  ASSUME Inv, NEW m \in Milestones
  PROVE  /\ FundCommit(m) => Done("fund", m)'
         /\ ApproveCommit(m) => Done("approve", m)'
<1>1. /\ funded \in [Milestones -> Nat] /\ state \in [Milestones -> MilestoneStates]
      /\ Amount[m] \in Nat
  BY AmountAssumption DEF Inv, TypeOK, RowTypeOK, LedgerTypeOK
<1>2. ASSUME FundCommit(m) PROVE funded'[m] = Amount[m]
  <2>1. funded[m] = 0
    BY <1>2, MoveSources DEF Inv, LedgerAgreesWithState
  <2> QED
    BY <1>1, <1>2, <2>1 DEF FundCommit, insertFund
<1>3. ASSUME ApproveCommit(m) PROVE state'[m] = "RELEASED"
  BY <1>1, <1>3 DEF ApproveCommit
<1> QED
  BY <1>2, <1>3 DEF Done

\* Which steps insert a key.
LEMMA KeySteps ==
  ASSUME Inv, [Next]_vars, NEW k \in usedKeys' \ usedKeys
  PROVE  \E m \in Milestones : k = txn[m].key /\ k # NoKey /\ (FundCommit(m) \/ ApproveCommit(m))
<1>1. CASE UNCHANGED ledgerVars
  BY <1>1 DEF ledgerVars
<1>2. ASSUME NEW u \in Users, NEW cents \in DepositSizes, deposit(u, cents) PROVE FALSE
  BY <1>2 DEF deposit, insertDeposit
<1>3. ASSUME NEW m \in Milestones, FundCommit(m) PROVE k = txn[m].key /\ k # NoKey
  BY <1>3 DEF FundCommit, insertFund
<1>4. ASSUME NEW u \in Users, NEW m \in Milestones, cancelMilestone(u, m) PROVE FALSE
  BY <1>4 DEF cancelMilestone, insertPayout
<1>5. ASSUME NEW m \in Milestones, ApproveCommit(m) PROVE k = txn[m].key /\ k # NoKey
  BY <1>5 DEF ApproveCommit, insertPayout
<1>6. ASSUME NEW m \in Milestones, ResolveCommit(m) PROVE FALSE
  BY <1>6 DEF ResolveCommit, insertPayout
<1> QED
  BY <1>1, <1>2, <1>3, <1>4, <1>5, <1>6
     DEF Next, Requests, Proceed, SweepVisit, vars,
         FundBegin, FundReplay, ApproveBegin, ApproveReplay, startMilestone, submitMilestone,
         requestChanges, openDispute, ResolveBegin, WalletLock, ReadCredits, BalanceOk,
         InsufficientFunds, CountOpen, KeyTaken, Lapse, Rollback, SweepList, SweepApprove,
         SweepSkip, Crash

\* Which steps answer 200.
LEMMA AnswerSteps ==
  ASSUME [Next]_vars, NEW op, NEW n, <<op, n>> \in acked' \ acked
  PROVE  \E m \in Milestones :
           /\ n = m
           /\ \/ op = "fund" /\ FundCommit(m)
              \/ op = "approve" /\ ApproveCommit(m)
              \/ \E k \in usedKeys : op \in {"fund", "approve"} /\ <<k, op, m>> \in KeyUse
<1>1. CASE acked' = acked
  BY <1>1
<1>2. ASSUME NEW u \in Users, NEW m \in Milestones, NEW k \in Keys \union {NoKey},
             FundReplay(u, m, k) \/ ApproveReplay(u, m, k)
      PROVE  /\ n = m /\ op \in {"fund", "approve"}
             /\ k \in usedKeys /\ <<k, op, m>> \in KeyUse
  BY <1>2 DEF FundReplay, ApproveReplay, alreadyProcessed
<1>3. ASSUME NEW m \in Milestones, FundCommit(m) PROVE op = "fund" /\ n = m
  BY <1>3 DEF FundCommit
<1>4. ASSUME NEW m \in Milestones, ApproveCommit(m) PROVE op = "approve" /\ n = m
  BY <1>4 DEF ApproveCommit
<1> QED
  BY <1>1, <1>2, <1>3, <1>4
     DEF Next, Requests, Proceed, SweepVisit, vars, processVars, deposit,
         FundBegin, ApproveBegin, startMilestone, submitMilestone, cancelMilestone, ResolveCommit,
         requestChanges, openDispute, ResolveBegin, WalletLock, ReadCredits, BalanceOk,
         InsufficientFunds, CountOpen, KeyTaken, Lapse, Rollback, SweepList, SweepApprove,
         SweepSkip, Crash

\* A transaction keeps the key it was opened with.
LEMMA KeysCarried ==
  ASSUME Inv, [Next]_vars, \A m \in Milestones : Carries(txn[m], m), NEW n \in Milestones
  PROVE  Carries(txn'[n], n)
<1>1. txn \in [Milestones -> Txn]
  BY DEF Inv, TypeOK, ProcessTypeOK
<1>2. Carries(Idle, n)
  BY DEF Carries, Idle, TxnOf, FundSteps, ApproveSteps
<1>3. CASE Shrinks
  BY <1>2, <1>3 DEF Shrinks
<1>4. ASSUME NEW m \in Milestones, Opens(m) PROVE Carries(txn'[n], n)
  <2>1. CASE n # m
    BY <1>4, <2>1, OpensOne
  <2>2. CASE n = m
    <3>1. ASSUME NEW u \in Users, NEW key \in Keys \union {NoKey},
                 FundBegin(u, m, key) \/ ApproveBegin(u, m, key)
          PROVE  Carries(txn'[n], n)
      BY <1>1, <2>2, <3>1
         DEF FundBegin, ApproveBegin, Carries, TxnOf, FundSteps, ApproveSteps
    <3>2. ASSUME NEW d \in Disputes, NEW pct \in Percentages,
                 ResolveBegin(d, pct), dispute[d].on = m
          PROVE  Carries(txn'[n], n)
      BY <1>1, <2>2, <3>2 DEF ResolveBegin, Carries, TxnOf, FundSteps, ApproveSteps
    <3>3. ASSUME SweepApprove(m) PROVE Carries(txn'[n], n)
      BY <1>1, <2>2, <3>3 DEF SweepApprove, Carries, TxnOf, FundSteps, ApproveSteps
    <3> QED
      BY <1>4, <3>1, <3>2, <3>3 DEF Opens
  <2> QED
    BY <2>1, <2>2
<1>5. ASSUME NEW m \in Milestones, Advances(m) PROVE Carries(txn'[n], n)
  <2>1. CASE n # m
    BY <1>5, <2>1, AdvancesOne
  <2>2. CASE n = m
    <3>1. txn[n] \in Txn
      BY <1>1
    <3>2. CASE WalletLock(m)
      BY <1>1, <2>2, <3>1, <3>2 DEF WalletLock, Advance, Carries, Txn, FundSteps, ApproveSteps
    <3>3. CASE ReadCredits(m)
      BY <1>1, <2>2, <3>1, <3>3 DEF ReadCredits, Carries, Txn, FundSteps, ApproveSteps
    <3>4. CASE BalanceOk(m)
      BY <1>1, <2>2, <3>1, <3>4 DEF BalanceOk, Advance, Carries, Txn, FundSteps, ApproveSteps
    <3>5. CASE CountOpen(m)
      BY <1>1, <2>2, <3>1, <3>5 DEF CountOpen, Carries, Txn, FundSteps, ApproveSteps
    <3> QED
      BY <1>5, <3>2, <3>3, <3>4, <3>5 DEF Advances
  <2> QED
    BY <2>1, <2>2
<1> QED
  BY <1>3, <1>4, <1>5, TxnSteps

\* Every step keeps what the keys prove, when a key is one request's.
LEMMA KeysStep ==
  ASSUME KeysNameRequests, Inv, KeysInv, [Next]_vars
  PROVE  KeysInv'
<1>1. \A m \in Milestones : Carries(txn'[m], m)
  BY KeysCarried DEF KeysInv
<1>2. ASSUME NEW k \in usedKeys', NEW op \in {"fund", "approve"}, NEW m \in Milestones,
             <<k, op, m>> \in KeyUse
      PROVE  Done(op, m)'
  <2>1. CASE k \in usedKeys
    BY <1>2, <2>1, DoneStays DEF KeysInv
  <2>2. CASE k \notin usedKeys
    <3>1. PICK n \in Milestones :
            k = txn[n].key /\ k # NoKey /\ (FundCommit(n) \/ ApproveCommit(n))
      BY <2>2, KeySteps
    <3>2. Carries(txn[n], n)
      BY DEF KeysInv
    <3>3. ASSUME FundCommit(n) PROVE op = "fund" /\ m = n
      <4>1. <<k, "fund", n>> \in KeyUse
        BY <3>1, <3>2, <3>3 DEF FundCommit, Carries, FundSteps
      <4>2. <<k, "fund", n>> = <<k, op, m>>
        BY <1>2, <3>1, <4>1 DEF KeysNameRequests
      <4> QED
        BY <4>2
    <3>4. ASSUME ApproveCommit(n) PROVE op = "approve" /\ m = n
      <4>1. <<k, "approve", n>> \in KeyUse
        BY <3>1, <3>2, <3>4 DEF ApproveCommit, Carries, ApproveSteps
      <4>2. <<k, "approve", n>> = <<k, op, m>>
        BY <1>2, <3>1, <4>1 DEF KeysNameRequests
      <4> QED
        BY <4>2
    <3> QED
      BY <3>1, <3>3, <3>4, CommitsDo
  <2> QED
    BY <2>1, <2>2
<1>3. ASSUME NEW op \in {"fund", "approve"}, NEW m \in Milestones, <<op, m>> \in acked'
      PROVE  Done(op, m)'
  <2>1. CASE <<op, m>> \in acked
    <3>1. Done(op, m)
      BY <2>1 DEF KeysInv, AckedMeansDone, Done
    <3> QED
      BY <3>1, DoneStays
  <2>2. CASE <<op, m>> \notin acked
    <3>1. \/ op = "fund" /\ FundCommit(m)
          \/ op = "approve" /\ ApproveCommit(m)
          \/ \E k \in usedKeys : <<k, op, m>> \in KeyUse
      BY <1>3, <2>2, AnswerSteps
    <3>2. ASSUME NEW k \in usedKeys, <<k, op, m>> \in KeyUse PROVE Done(op, m)'
      BY <3>2, DoneStays DEF KeysInv
    <3> QED
      BY <3>1, <3>2, CommitsDo
  <2> QED
    BY <2>1, <2>2
<1>4. AckedMeansDone'
  BY <1>3 DEF AckedMeansDone, Done
<1> QED
  BY <1>1, <1>2, <1>4 DEF KeysInv

\* A client that was answered 200 has what it asked for, retries, sweeps, crashes and
\* disputes notwithstanding, as long as it draws a new key for each request.
THEOREM AnswersStand == KeysNameRequests => (Spec => []AckedMeansDone)
<1> SUFFICES ASSUME KeysNameRequests PROVE Spec => []AckedMeansDone
  OBVIOUS
<1>1. Init => KeysInv
  <2> SUFFICES ASSUME Init PROVE KeysInv
    OBVIOUS
  <2>1. acked = {} /\ usedKeys = {} /\ \A m \in Milestones : txn[m] = Idle
    BY DEF Init
  <2>2. \A m \in Milestones : Carries(txn[m], m)
    BY <2>1 DEF Carries, Idle, TxnOf, FundSteps, ApproveSteps
  <2> QED
    BY <2>1, <2>2 DEF KeysInv, AckedMeansDone
<1>2. Inv /\ KeysInv /\ [Next]_vars => KeysInv'
  BY KeysStep
<1>3. KeysInv => AckedMeansDone
  BY DEF KeysInv
<1> QED
  BY <1>1, <1>2, <1>3, Invariance, PTL DEF Spec


-----------------------------------------------------------------------------
(* Which contracts are completed: all that end, but for the two ways.      *)

\* A count that saw a sibling open is still right, unless the contract was raced.
OpenCountsStay ==
  \A m \in Milestones :
    counted(m) /\ ~txn[m].last /\ ContractOf[m] \notin raced => ~noOpenSibling(m)

\* What the sweep listed and nobody submitted again is lapsed, while it is submitted.
ListIsFresh ==
  \A m \in due \ overtaken : m \in Milestones /\ (state[m] = "SUBMITTED" => clock[m] = "lapsed")

\* A step remembers the races it is part of.
RacesAreSeen ==
  /\ raced \subseteq raced'
  /\ \A m \in Milestones, s \in Milestones :
       ends(m) /\ s \in Siblings(m) /\ counted(s) => ContractOf[m] \in raced'

SettlementsInv == Inv /\ OpenCountsStay /\ CompletionIsExact /\ ListIsFresh /\ WindowIsHonoured

\* Each step of the model does.
LEMMA RacesSeen == SettlementsNext => RacesAreSeen
BY PartiesAssumption DEF SettlementsNext, Remembers, RacesAreSeen

\* A sibling that was open stays open while the count stands, or the contract is raced.
LEMMA OpenCountsStep ==
  ASSUME Inv, [Next]_vars, RacesAreSeen, OpenCountsStay
  PROVE  OpenCountsStay'
<1> SUFFICES ASSUME NEW m \in Milestones, counted(m)', ~txn'[m].last, ContractOf[m] \notin raced'
             PROVE  ~noOpenSibling(m)'
  BY DEF OpenCountsStay
<1> USE DEF counted
<1>1. CASE Shrinks
  <2>1. txn'[m] = txn[m]
    BY <1>1 DEF Shrinks, Idle, TxnOf
  <2>2. counted(m) /\ ~noOpenSibling(m)
    BY <2>1 DEF OpenCountsStay, RacesAreSeen
  <2>3. PICK s \in Siblings(m) : state[s] \notin TerminalStates
    BY <2>2 DEF noOpenSibling
  <2>4. s \in Milestones /\ m \in Siblings(s) /\ ContractOf[s] = ContractOf[m]
    BY <2>3 DEF Siblings
  <2>5. ~ends(s)
    BY <2>2, <2>4 DEF RacesAreSeen
  <2> QED
    BY <2>3, <2>5 DEF ends, noOpenSibling, Siblings
<1>2. ASSUME NEW n \in Milestones, Opens(n) \/ Advances(n) PROVE ~noOpenSibling(m)'
  <2>1. UNCHANGED state
    BY <1>2, OpensOne, AdvancesOne
  <2>2. noOpenSibling(m)' = noOpenSibling(m)
    BY <2>1 DEF noOpenSibling, Siblings
  <2>3. CASE m = n
    BY <1>2, <2>2, <2>3, OpensOne, AdvancesOne
  <2>4. CASE m # n
    <3>1. txn'[m] = txn[m]
      BY <1>2, <2>4, OpensOne, AdvancesOne
    <3> QED
      BY <3>1, <2>2 DEF OpenCountsStay, RacesAreSeen
  <2> QED
    BY <2>3, <2>4
<1> QED
  BY <1>1, <1>2, TxnSteps

\* A milestone ends by a cancellation or by a commit that has counted its siblings.
LEMMA EndsByCommit ==
  ASSUME Inv, [Next]_vars, NEW m \in Milestones, ends(m)
  PROVE  /\ Moves(m)
         /\ \/ state'[m] = "CANCELLED"
            \/ counted(m) /\ completeContract(m)
<1>1. Moves(m)
  BY RowSteps, MovesOne DEF Quiet, ends
<1>2. state \in [Milestones -> MilestoneStates]
  BY DEF Inv, TypeOK, RowTypeOK
<1>3. ~FundCommit(m)
  BY <1>2 DEF FundCommit, ends, TerminalStates
<1>4. ASSUME NEW u \in Users,
             \/ startMilestone(u, m) \/ submitMilestone(u, m)
             \/ requestChanges(u, m) \/ cancelMilestone(u, m)
      PROVE  state'[m] = "CANCELLED"
  BY <1>2, <1>4
     DEF startMilestone, submitMilestone, requestChanges, cancelMilestone, ends, TerminalStates
<1>5. \A u \in Users, d \in Disputes : ~openDispute(u, m, d)
  BY <1>2 DEF openDispute, ends, TerminalStates
<1>6. ApproveCommit(m) \/ ResolveCommit(m) => counted(m) /\ completeContract(m)
  BY DEF ApproveCommit, ResolveCommit, counted
<1> QED
  BY <1>1, <1>3, <1>4, <1>5, <1>6 DEF Moves

\* A contract that is completed stays so.
LEMMA StaysCompleted ==
  ASSUME Inv, [Next]_vars, NEW c \in Contracts, contractStatus[c] = "COMPLETED"
  PROVE  contractStatus'[c] = "COMPLETED"
<1>1. contractStatus \in [Contracts -> {"ACTIVE", "COMPLETED"}]
  BY DEF Inv, TypeOK, RowTypeOK
<1>2. ASSUME NEW m \in Milestones, Moves(m)
      PROVE  contractStatus' = contractStatus \/ completeContract(m)
  BY <1>2 DEF Moves, otherRows, FundCommit, startMilestone, submitMilestone, requestChanges,
              cancelMilestone, openDispute, ApproveCommit, ResolveCommit
<1> QED
  BY <1>1, <1>2, RowSteps DEF Quiet, completeContract

\* The commit that ends the last open milestone completes the contract, unless its count
\* was overtaken; a cancellation that does is remembered.
LEMMA CompletesStep ==
  ASSUME SettlementsInv, [SettlementsNext]_settlementVars
  PROVE  CompletionIsExact'
<1> USE DEF SettlementsInv
<1>1. [Next]_vars /\ raced \subseteq raced' /\ cancelledLast \subseteq cancelledLast'
  BY DEF SettlementsNext, Remembers, settlementVars
<1>2. CompletedMeansSettled'
  BY <1>1, Completed
<1>3. ASSUME NEW c \in Contracts, c \notin raced', c \notin cancelledLast', over(c)'
      PROVE  contractStatus'[c] = "COMPLETED"
  <2>1. CASE over(c)
    <3>1. contractStatus[c] = "COMPLETED"
      BY <1>1, <1>3, <2>1 DEF CompletionIsExact
    <3> QED
      BY <1>1, <3>1, StaysCompleted
  <2>2. CASE ~over(c)
    <3>1. PICK m \in Milestones : ContractOf[m] = c /\ ends(m)
      BY <1>3, <2>2 DEF over, ends
    <3>2. SettlementsNext
      BY <3>1 DEF ends, settlementVars, vars, milestoneVars
    <3>3. state'[m] # "CANCELLED"
      BY <1>3, <3>1, <3>2 DEF SettlementsNext, Remembers
    <3>4. Moves(m) /\ counted(m) /\ completeContract(m)
      BY <1>1, <3>1, <3>3, EndsByCommit
    <3>5. noOpenSibling(m)
      <4>1. \A s \in Siblings(m) : s \in Milestones \ {m} /\ ContractOf[s] = c
        BY <3>1 DEF Siblings
      <4>2. \A s \in Siblings(m) : state'[s] = state[s]
        BY <4>1, <3>4, MovesOne
      <4> QED
        BY <1>3, <4>1, <4>2 DEF noOpenSibling, over
    <3>6. txn[m].last
      BY <1>1, <1>3, <3>1, <3>4, <3>5 DEF OpenCountsStay
    <3>7. contractStatus \in [Contracts -> {"ACTIVE", "COMPLETED"}]
      BY DEF Inv, TypeOK, RowTypeOK
    <3> QED
      BY <3>1, <3>4, <3>6, <3>7 DEF completeContract
  <2> QED
    BY <2>1, <2>2
<1> QED
  BY <1>2, <1>3 DEF CompletionIsExact

\* A lapsed deadline stays lapsed until its milestone leaves the client's hands, free
\* of any transaction, or is submitted again.
LEMMA LapsedStays ==
  ASSUME Inv, [Next]_vars, NEW m \in Milestones, clock[m] = "lapsed"
  PROVE  \/ clock'[m] = "lapsed"
         \/ state'[m] # "SUBMITTED" /\ ~txn'[m].auto
         \/ resubmitted(m)
<1>1. /\ clock \in [Milestones -> ClockStates] /\ state \in [Milestones -> MilestoneStates]
      /\ txn \in [Milestones -> Txn]
  BY DEF Inv, TypeOK, RowTypeOK, ProcessTypeOK
<1> DEFINE Fine == \/ clock'[m] = "lapsed"
                   \/ state'[m] # "SUBMITTED" /\ ~txn'[m].auto
                   \/ resubmitted(m)
<1>2. CASE UNCHANGED clock
  BY <1>2
<1>3. ASSUME NEW u \in Users, NEW n \in Milestones, submitMilestone(u, n) PROVE Fine
  <2>1. state[n] = "IN_PROGRESS"
    BY <1>3, MoveSources
  <2> QED
    BY <1>1, <1>3, <2>1 DEF submitMilestone, resubmitted
<1>4. ASSUME NEW u \in Users, NEW n \in Milestones, requestChanges(u, n) PROVE Fine
  BY <1>1, <1>4 DEF requestChanges, withMilestoneLock, Idle, TxnOf
<1>5. ASSUME NEW u \in Users, NEW n \in Milestones, NEW d \in Disputes, openDispute(u, n, d)
      PROVE  Fine
  BY <1>1, <1>5 DEF openDispute, withMilestoneLock, Idle, TxnOf
<1>6. ASSUME NEW n \in Milestones, ApproveCommit(n) PROVE Fine
  BY <1>1, <1>6 DEF ApproveCommit, EndTxn, Idle, TxnOf
<1>7. ASSUME NEW n \in Milestones, Lapse(n) PROVE Fine
  BY <1>1, <1>7 DEF Lapse
<1>8. \/ UNCHANGED clock
      \/ \E u \in Users, n \in Milestones : submitMilestone(u, n) \/ requestChanges(u, n)
      \/ \E u \in Users, n \in Milestones, d \in Disputes : openDispute(u, n, d)
      \/ \E n \in Milestones : ApproveCommit(n) \/ Lapse(n)
  BY DEF Next, Requests, Proceed, SweepVisit, vars, milestoneVars, deposit, FundBegin, FundReplay,
         FundCommit, ApproveBegin, ApproveReplay, startMilestone, cancelMilestone, ResolveBegin,
         ResolveCommit, WalletLock, ReadCredits, BalanceOk, InsufficientFunds, CountOpen,
         KeyTaken, Rollback, SweepList, SweepApprove, SweepSkip, Crash
<1> QED
  BY <1>2, <1>3, <1>4, <1>5, <1>6, <1>7, <1>8

\* A milestone comes on the sweep's list lapsed, and into its approval from the list.
LEMMA SweepSteps ==
  ASSUME Inv, [Next]_vars, NEW m \in Milestones
  PROVE  /\ m \in due' \ due => state[m] = "SUBMITTED" /\ clock[m] = "lapsed" /\ UNCHANGED clock
         /\ txn'[m].auto /\ ~txn[m].auto =>
              m \in due /\ state[m] = "SUBMITTED" /\ UNCHANGED clock
<1>1. \/ due' \subseteq due
      \/ SweepList
  BY DEF Next, Requests, Proceed, SweepVisit, vars, processVars, deposit, FundBegin, FundReplay,
         FundCommit, ApproveBegin, ApproveReplay, startMilestone, submitMilestone,
         requestChanges, cancelMilestone, openDispute, ResolveBegin, ApproveCommit, Lapse,
         ResolveCommit, WalletLock, ReadCredits, BalanceOk, InsufficientFunds, CountOpen,
         KeyTaken, Rollback, SweepApprove, SweepSkip, Crash
<1>2. m \in due' \ due => state[m] = "SUBMITTED" /\ clock[m] = "lapsed" /\ UNCHANGED clock
  BY <1>1 DEF SweepList, milestoneVars
<1>3. ASSUME txn'[m].auto, ~txn[m].auto
      PROVE  m \in due /\ state[m] = "SUBMITTED" /\ UNCHANGED clock
  <2>1. txn \in [Milestones -> Txn]
    BY DEF Inv, TypeOK, ProcessTypeOK
  <2>2. ~Shrinks
    BY <1>3 DEF Shrinks, Idle, TxnOf
  <2>3. PICK n \in Milestones : Opens(n) \/ Advances(n)
    BY <2>2, TxnSteps
  <2>4. n = m
    BY <1>3, <2>3, OpensOne, AdvancesOne
  <2>5. ~Advances(m)
    <3>1. WalletLock(m) \/ BalanceOk(m) => txn'[m].auto = txn[m].auto
      BY <2>1 DEF WalletLock, BalanceOk, Advance, Txn
    <3>2. ReadCredits(m) => txn'[m].auto = txn[m].auto
      BY <2>1 DEF ReadCredits, Txn
    <3>3. CountOpen(m) => txn'[m].auto = txn[m].auto
      BY <2>1 DEF CountOpen, Txn
    <3> QED
      BY <1>3, <3>1, <3>2, <3>3 DEF Advances
  <2>6. SweepApprove(m)
    <3>1. ASSUME NEW u \in Users, NEW key \in Keys \union {NoKey},
                 FundBegin(u, m, key) \/ ApproveBegin(u, m, key)
          PROVE  FALSE
      <4>1. txn'[m] \in {TxnOf("funding", key, FALSE, 0, NoDispute),
                         TxnOf("approving", key, FALSE, 0, NoDispute)}
        BY <2>1, <3>1 DEF FundBegin, ApproveBegin
      <4> QED
        BY <1>3, <4>1 DEF TxnOf
    <3>2. ASSUME NEW d \in Disputes, NEW pct \in Percentages,
                 ResolveBegin(d, pct), dispute[d].on = m
          PROVE  FALSE
      <4>1. txn'[m] = TxnOf("resolving", NoKey, FALSE, pct, d)
        BY <2>1, <3>2 DEF ResolveBegin
      <4> QED
        BY <1>3, <4>1 DEF TxnOf
    <3> QED
      BY <2>3, <2>4, <2>5, <3>1, <3>2 DEF Opens
  <2>7. state[m] = "SUBMITTED"
    BY <2>6, Sources DEF SweepApprove, approvable, Inv
  <2> QED
    BY <2>6, <2>7 DEF SweepApprove, milestoneVars
<1> QED
  BY <1>2, <1>3

\* The list and the sweep's approvals stay fresh: what is submitted again is remembered.
LEMMA SweepIsFresh ==
  ASSUME Inv, Inv', ListIsFresh, WindowIsHonoured, SettlementsNext
  PROVE  ListIsFresh' /\ WindowIsHonoured'
<1>1. [Next]_vars
  BY DEF SettlementsNext
<1>2. due' \subseteq Milestones
  BY DEF Inv, TypeOK, ProcessTypeOK
<1>3. \A m \in Milestones : m \in due' \/ txn'[m].auto =>
        (m \in overtaken' <=> m \in overtaken \/ resubmitted(m))
  BY DEF SettlementsNext, Remembers, swept
<1>4. ASSUME NEW m \in due' \ overtaken', state'[m] = "SUBMITTED" PROVE clock'[m] = "lapsed"
  <2>1. m \in Milestones /\ m \notin overtaken /\ ~resubmitted(m)
    BY <1>2, <1>3, <1>4
  <2>2. CASE m \in due
    <3>1. clock[m] = "lapsed"
      BY <1>4, <2>1, <2>2 DEF ListIsFresh, resubmitted
    <3> QED
      BY <1>1, <1>4, <2>1, <3>1, LapsedStays
  <2>3. CASE m \notin due
    BY <1>1, <1>4, <2>1, <2>3, SweepSteps
  <2> QED
    BY <2>2, <2>3
<1>5. ASSUME NEW m \in Milestones \ overtaken', txn'[m].auto PROVE clock'[m] = "lapsed"
  <2>1. m \notin overtaken /\ ~resubmitted(m)
    BY <1>3, <1>5
  <2>2. CASE txn[m].auto
    <3>1. clock[m] = "lapsed"
      BY <2>1, <2>2 DEF WindowIsHonoured
    <3> QED
      BY <1>1, <1>5, <2>1, <3>1, LapsedStays
  <2>3. CASE ~txn[m].auto
    BY <1>1, <1>5, <2>1, <2>3, SweepSteps DEF ListIsFresh
  <2> QED
    BY <2>2, <2>3
<1> QED
  BY <1>2, <1>4, <1>5 DEF ListIsFresh, WindowIsHonoured

\* What holds of contracts that end and of sweeps, in every reachable state.
LEMMA SettlementsInvariance == SettlementsSpec => []SettlementsInv
<1>1. SettlementsInit => SettlementsInv
  <2> SUFFICES ASSUME SettlementsInit PROVE SettlementsInv
    OBVIOUS
  <2>1. Init /\ Inv
    BY InitInv DEF SettlementsInit, NothingYet
  <2>2. OpenCountsStay
    BY <2>1 DEF Init, Idle, TxnOf, OpenCountsStay, counted
  <2>3. \A c \in Contracts : ~over(c)
    BY <2>1 DEF Init, over, TerminalStates
  <2>4. CompletionIsExact
    BY <2>1, <2>3 DEF Inv, CompletionIsExact
  <2>5. ListIsFresh /\ WindowIsHonoured
    BY <2>1 DEF Init, Idle, TxnOf, ListIsFresh, WindowIsHonoured
  <2> QED
    BY <2>1, <2>2, <2>4, <2>5 DEF SettlementsInv
<1>2. SettlementsInv /\ [SettlementsNext]_settlementVars => SettlementsInv'
  <2> SUFFICES ASSUME SettlementsInv, [SettlementsNext]_settlementVars PROVE SettlementsInv'
    OBVIOUS
  <2>1. [Next]_vars
    BY DEF SettlementsNext, settlementVars
  <2>2. Inv' /\ CompletionIsExact'
    BY <2>1, Inductive, CompletesStep DEF SettlementsInv
  <2>3. OpenCountsStay' /\ ListIsFresh' /\ WindowIsHonoured'
    <3>1. CASE SettlementsNext
      BY <2>1, <2>2, <3>1, RacesSeen, OpenCountsStep, SweepIsFresh DEF SettlementsInv
    <3>2. CASE UNCHANGED settlementVars
      <4>1. UNCHANGED <<state, clock, txn, due, raced, overtaken>>
        BY <3>2 DEF settlementVars, vars, milestoneVars, processVars
      <4> QED
        BY <4>1 DEF SettlementsInv, OpenCountsStay, counted, noOpenSibling, Siblings,
                    ListIsFresh, WindowIsHonoured
    <3> QED
      BY <3>1, <3>2
  <2> QED
    BY <2>2, <2>3 DEF SettlementsInv
<1> QED
  BY <1>1, <1>2, PTL DEF SettlementsSpec

\* Every contract that ends is completed when its last milestone does, for any number of
\* milestones and any overlap of approvals, rulings, sweeps, retries and failures, unless
\* a milestone ended under a sibling's count or the last of them was cancelled.
THEOREM ContractsComplete == SettlementsSpec => []CompletionIsExact
<1>1. SettlementsInv => CompletionIsExact
  BY DEF SettlementsInv
<1> QED
  BY <1>1, SettlementsInvariance, PTL

\* The sweep pays only what lapsed, whatever happened to a milestone since it was listed,
\* unless the freelancer submitted it again.
THEOREM SweepsAreFair == SettlementsSpec => []WindowIsHonoured
<1>1. SettlementsInv => WindowIsHonoured
  BY DEF SettlementsInv
<1> QED
  BY <1>1, SettlementsInvariance, PTL

=============================================================================
