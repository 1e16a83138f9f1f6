---------------------------- MODULE Settlements ----------------------------
(***************************************************************************)
(* Escrow with the memory of what overlapped, to say what its handlers     *)
(* promise outside the overlaps the code leaves open.  Approvals and       *)
(* rulings count the open siblings without a lock on them                  *)
(* (escrow.service.ts:281, :430), so a sibling may end between a count and *)
(* the commit it decides; cancelMilestone does not count at all; and the   *)
(* sweep's approval reads the state of a milestone again, not its          *)
(* deadline (:459).                                                        *)
(***************************************************************************)
EXTENDS Escrow

VARIABLES
  raced,           \* contracts of which a milestone ended under a sibling's count
  cancelledLast,   \* contracts whose last open milestone was cancelled
  overtaken        \* milestones submitted again after the sweep listed them

ends(m) == state[m] \notin TerminalStates /\ state'[m] \in TerminalStates
resubmitted(m) == state[m] # "SUBMITTED" /\ state'[m] = "SUBMITTED"

counted(m) == txn[m].step \in {"approveCounted", "resolveCounted"}

\* What the sweep has read of and not yet answered.
swept == due \union {m \in Milestones : txn[m].auto}

\* The contract has milestones, and all of them are over.
over(c) ==
  /\ \E m \in Milestones : ContractOf[m] = c
  /\ \A m \in Milestones : ContractOf[m] = c => state[m] \in TerminalStates

NothingYet == raced = {} /\ cancelledLast = {} /\ overtaken = {}

SettlementsInit == Init /\ NothingYet

\* Races and late cancellations are remembered for good, a resubmission as long as the
\* sweep has the milestone in hand.
Remembers ==
  /\ raced' = raced \union
       {c \in Contracts : \E m \in Milestones :
          ContractOf[m] = c /\ ends(m) /\ \E s \in Siblings(m) : counted(s)}
  /\ cancelledLast' = cancelledLast \union
       {c \in Contracts : over(c)' /\ \E m \in Milestones :
          ContractOf[m] = c /\ ends(m) /\ state'[m] = "CANCELLED"}
  /\ overtaken' = {m \in swept' : m \in overtaken \/ resubmitted(m)}

SettlementsNext == Next /\ Remembers

settlementVars == <<vars, raced, cancelledLast, overtaken>>

SettlementsSpec == SettlementsInit /\ [][SettlementsNext]_settlementVars

-----------------------------------------------------------------------------

\* "Contract completes when its last milestone reaches a terminal state"
\* (escrow.service.ts:280): a contract is COMPLETED only when its milestones are over, and
\* as soon as they are, in whatever order they ended and however requests, retries, sweeps
\* and failures overlapped, but for the race of two counts and a cancellation that is last.
CompletionIsExact ==
  /\ CompletedMeansSettled
  /\ \A c \in Contracts \ (raced \union cancelledLast) :
       over(c) => contractStatus[c] = "COMPLETED"

\* "approve every SUBMITTED milestone whose review window lapsed" (escrow.service.ts:453):
\* the sweep takes no approval from a client who still had time, however old its list is,
\* unless the milestone was submitted again in the meantime.
WindowIsHonoured ==
  \A m \in Milestones \ overtaken : txn[m].auto => clock[m] = "lapsed"

=============================================================================
