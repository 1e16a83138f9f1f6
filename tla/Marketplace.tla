---------------------------- MODULE Marketplace ----------------------------
(***************************************************************************)
(* From a job to a contract: jobs.routes.ts and proposals.routes.ts.       *)
(*                                                                         *)
(* Every handler first reads, outside any transaction, what it bases its   *)
(* decision on, and writes later.  Accepting writes in one transaction     *)
(* under READ COMMITTED: each statement takes the row locks of what it     *)
(* updates and keeps them to the end, and PostgreSQL aborts one of two     *)
(* transactions that wait for each other.                                  *)
(***************************************************************************)
EXTENDS Naturals

CONSTANTS
  Jobs, Freelancers,
  Handlers,       \* bound: requests under way at a time
  MaxFailures,    \* bound: transactions lost to the database or a restart
  NoJob, NoFreelancer

ASSUME MarketplaceAssumption ==
  NoJob \notin Jobs /\ NoFreelancer \notin Freelancers /\ MaxFailures \in Nat

VARIABLES
  jobStatus,   \* job -> OPEN or CLOSED
  proposal,    \* job, freelancer -> status; none: no row (jobId, freelancerId are unique)
  contracts,   \* the proposals a contract points to (proposalId is unique)
  handler,     \* what each request under way has read and done
  failures

rowVars == <<jobStatus, proposal, contracts>>
vars == <<rowVars, handler, failures>>

-----------------------------------------------------------------------------

Bids == Jobs \X Freelancers
BidsOn(j) == {j} \X Freelancers

\* A transaction that accepts passes through these; it holds more at each.
AcceptSteps == {"accepting", "contractInserted", "proposalUpdated", "jobUpdated"}

Handler(step, bid) == [step |-> step, bid |-> bid]
Idle == Handler("idle", <<NoJob, NoFreelancer>>)

To(r, step) == handler' = [handler EXCEPT ![r] = Handler(step, handler[r].bid)]
done(r) == handler' = [handler EXCEPT ![r] = Idle]

JobOf(b) == b[1]
\* Names that start with Faulty are deliberately wrong variants of the definition
\* after them; they show that a property would notice such a fault.
FaultyOthers(b) == {}

others(b) == {o \in BidsOn(JobOf(b)) \ {b} : proposal[o] = "PENDING"}

\* Row locks of transactions other than r's.
proposalLocked(b, r) ==
  \E s \in Handlers \ {r} :
    handler[s].step \in {"proposalUpdated", "jobUpdated"} /\ handler[s].bid = b

jobLocked(j, r) ==
  \E s \in Handlers \ {r} : handler[s].step = "jobUpdated" /\ JobOf(handler[s].bid) = j

Init ==
  /\ jobStatus = [j \in Jobs |-> "OPEN"]
  /\ proposal = [b \in Bids |-> "none"]
  /\ contracts = {}
  /\ handler = [r \in Handlers |-> Idle]
  /\ failures = 0

-----------------------------------------------------------------------------
(* POST /jobs/:jobId/proposals                                             *)

BidRead(r, b) ==
  /\ handler[r] = Idle
  /\ jobStatus[JobOf(b)] = "OPEN"
  /\ handler' = [handler EXCEPT ![r] = Handler("bidding", b)]
  /\ UNCHANGED <<rowVars, failures>>

\* A second row of the same freelancer violates the unique index: 409.
BidInsert(r) ==
  /\ handler[r].step = "bidding"
  /\ LET b == handler[r].bid IN
       proposal' = [proposal EXCEPT ![b] = IF @ = "none" THEN "PENDING" ELSE @]
  /\ done(r)
  /\ UNCHANGED <<jobStatus, contracts, failures>>

-----------------------------------------------------------------------------
(* POST /jobs/:jobId/close and POST /proposals/:id/reject                  *)

close(j) ==
  /\ \A r \in Handlers : ~jobLocked(j, r)
  /\ jobStatus' = [jobStatus EXCEPT ![j] = "CLOSED"]
  /\ UNCHANGED <<proposal, contracts, handler, failures>>

FaultyIsPending(b) == proposal[b] # "none"

\* Any other status answers 409.
isPending(b) == proposal[b] = "PENDING"

RejectRead(r, b) ==
  /\ handler[r] = Idle
  /\ isPending(b)
  /\ handler' = [handler EXCEPT ![r] = Handler("rejecting", b)]
  /\ UNCHANGED <<rowVars, failures>>

FaultyRejectUpdate(r) ==
  /\ handler[r].step = "rejecting"
  /\ ~proposalLocked(handler[r].bid, r)
  /\ proposal' = [proposal EXCEPT ![handler[r].bid] = "CLOSED"]
  /\ done(r)
  /\ UNCHANGED <<jobStatus, contracts, failures>>

RejectUpdate(r) ==
  /\ handler[r].step = "rejecting"
  /\ ~proposalLocked(handler[r].bid, r)
  /\ proposal' = [proposal EXCEPT ![handler[r].bid] = "REJECTED"]
  /\ done(r)
  /\ UNCHANGED <<jobStatus, contracts, failures>>

-----------------------------------------------------------------------------
(* POST /proposals/:id/accept                                              *)

AcceptRead(r, b) ==
  /\ handler[r] = Idle
  /\ isPending(b)
  /\ handler' = [handler EXCEPT ![r] = Handler("accepting", b)]
  /\ UNCHANGED <<rowVars, failures>>

\* The unique index makes a second insert wait for the first one's transaction.
InsertContract(r) ==
  /\ handler[r].step = "accepting"
  /\ handler[r].bid \notin contracts
  /\ \A s \in Handlers :
       handler[s].step \in AcceptSteps \ {"accepting"} => handler[s].bid # handler[r].bid
  /\ To(r, "contractInserted")
  /\ UNCHANGED <<rowVars, failures>>

ContractExists(r) ==
  /\ handler[r].step = "accepting"
  /\ handler[r].bid \in contracts
  /\ done(r)
  /\ UNCHANGED <<rowVars, failures>>

UpdateProposal(r) ==
  /\ handler[r].step = "contractInserted"
  /\ ~proposalLocked(handler[r].bid, r)
  /\ To(r, "proposalUpdated")
  /\ UNCHANGED <<rowVars, failures>>

UpdateJob(r) ==
  /\ handler[r].step = "proposalUpdated"
  /\ ~jobLocked(JobOf(handler[r].bid), r)
  /\ To(r, "jobUpdated")
  /\ UNCHANGED <<rowVars, failures>>

FaultyCommitAccept(r) ==
  /\ handler[r].step = "jobUpdated"
  /\ LET b == handler[r].bid IN
       /\ \A o \in others(b) : ~proposalLocked(o, r)
       /\ proposal' = [o \in Bids |->
            IF o = b THEN "ACCEPTED" ELSE IF o \in others(b) THEN "REJECTED" ELSE proposal[o]]
       /\ contracts' = contracts \union {b}
  /\ done(r)
  /\ UNCHANGED <<jobStatus, failures>>

\* The updateMany waits for the rows it found pending, then everything commits.
CommitAccept(r) ==
  /\ handler[r].step = "jobUpdated"
  /\ LET b == handler[r].bid IN
       /\ \A o \in others(b) : ~proposalLocked(o, r)
       /\ proposal' = [o \in Bids |->
            IF o = b THEN "ACCEPTED" ELSE IF o \in others(b) THEN "REJECTED" ELSE proposal[o]]
       /\ jobStatus' = [jobStatus EXCEPT ![JobOf(b)] = "CLOSED"]
       /\ contracts' = contracts \union {b}
  /\ done(r)
  /\ UNCHANGED failures

\* r holds the job and waits for a proposal; s holds that proposal and waits for
\* the job.  PostgreSQL aborts either; nothing retries it.
deadlocked(r, s) ==
  /\ handler[r].step = "jobUpdated" /\ handler[s].step = "proposalUpdated"
  /\ handler[s].bid \in others(handler[r].bid)

DeadlockVictim(r) ==
  /\ \E s \in Handlers : deadlocked(r, s) \/ deadlocked(s, r)
  /\ done(r)
  /\ UNCHANGED <<rowVars, failures>>

Abort(r) ==
  /\ handler[r] # Idle
  /\ failures < MaxFailures
  /\ failures' = failures + 1
  /\ done(r)
  /\ UNCHANGED rowVars

-----------------------------------------------------------------------------

Next ==
  \/ \E r \in Handlers, b \in Bids : BidRead(r, b) \/ RejectRead(r, b) \/ AcceptRead(r, b)
  \/ \E r \in Handlers :
       \/ BidInsert(r)
       \/ RejectUpdate(r)
       \/ InsertContract(r)
       \/ ContractExists(r)
       \/ UpdateProposal(r)
       \/ UpdateJob(r)
       \/ CommitAccept(r)
       \/ DeadlockVictim(r)
       \/ Abort(r)
  \/ \E j \in Jobs : close(j)

Spec == Init /\ [][Next]_vars

-----------------------------------------------------------------------------
(* Properties.                                                             *)

\* Rows and handlers are what the schema and the routes make them.
TypeOK ==
  /\ jobStatus \in [Jobs -> {"OPEN", "CLOSED"}]
  /\ proposal \in [Bids -> {"none", "PENDING", "ACCEPTED", "REJECTED"}]
  /\ contracts \subseteq Bids
  /\ handler \in [Handlers -> [step : {"idle", "bidding", "rejecting"} \union AcceptSteps,
                               bid : Bids \union {<<NoJob, NoFreelancer>>}]]
  /\ failures \in Nat

\* An accepted proposal has its contract and its job is closed, in every state
\* another request can see: the accepting transaction is not seen in part.
AcceptedIsWhole ==
  /\ \A b \in Bids : proposal[b] = "ACCEPTED" => b \in contracts
  /\ \A b \in contracts : jobStatus[JobOf(b)] = "CLOSED"

\* A job becomes one contract: accepting a proposal rejects its rivals.  Does not hold
\* when two acceptances overlap: see the known gaps in the README.
OneContractPerJob == \A b, o \in contracts : JobOf(b) = JobOf(o) => b = o

=============================================================================
