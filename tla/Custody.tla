------------------------------ MODULE Custody ------------------------------
(***************************************************************************)
(* What the escrow promises, without transactions, locks or disputes: a    *)
(* custodian that takes the amount of a milestone out of its client's      *)
(* wallet in one step, when the wallet holds it, keeps it, and later hands *)
(* it out in one step, all of it, to the two parties of the milestone.     *)
(***************************************************************************)
EXTENDS Integers

CONSTANTS Users, Milestones,
          Payer, Payee,    \* milestone -> user
          Amount,          \* milestone -> cents
          DepositSizes     \* the top-ups users make

VARIABLES wallet,   \* user -> cents it can spend
          held,     \* milestone -> cents in custody
          open      \* milestones that never held money

custodyVars == <<wallet, held, open>>

CustodyInit ==
  /\ wallet = [u \in Users |-> 0]
  /\ held = [m \in Milestones |-> 0]
  /\ open = Milestones

TopUp(u) ==
  \E cents \in DepositSizes :
    /\ wallet' = [wallet EXCEPT ![u] = @ + cents]
    /\ UNCHANGED <<held, open>>

Lock(m) ==
  /\ m \in open
  /\ wallet[Payer[m]] >= Amount[m]
  /\ wallet' = [wallet EXCEPT ![Payer[m]] = @ - Amount[m]]
  /\ held' = [held EXCEPT ![m] = Amount[m]]
  /\ open' = open \ {m}

Settle(m) ==
  \E share \in 0 .. Amount[m] :
    /\ held[m] = Amount[m]
    /\ wallet' = [wallet EXCEPT ![Payee[m]] = @ + share,
                                ![Payer[m]] = @ + (Amount[m] - share)]
    /\ held' = [held EXCEPT ![m] = 0]
    /\ UNCHANGED open

CustodyNext ==
  \/ \E u \in Users : TopUp(u)
  \/ \E m \in Milestones : Lock(m) \/ Settle(m)

CustodySpec == CustodyInit /\ [][CustodyNext]_custodyVars

=============================================================================
