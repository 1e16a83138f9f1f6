------------------------- MODULE MarketplaceProofs -------------------------
(***************************************************************************)
(* What holds of the marketplace for any number of jobs, bids and          *)
(* requests: of every job, that an acceptance is never seen in part; of a  *)
(* job whose requests never overlapped, everything its routes promise.     *)
(* Then what holds of the pages it is used from, for any number of forms,  *)
(* navigations and failures: whoever does something sees it done.          *)
(***************************************************************************)
EXTENDS BidRaces, Pages, TLAPS

\* What a request under way has decided on is a bid.
BidsChosen == \A r \in Handlers : handler[r] # Idle => handler[r].bid \in Bids

Inv == TypeOK /\ BidsChosen /\ AcceptedIsWhole

\* Every step keeps the invariant.
LEMMA Inductive == Inv /\ [Next]_vars => Inv'
<1> SUFFICES ASSUME Inv, [Next]_vars PROVE Inv'
  OBVIOUS
<1> USE MarketplaceAssumption DEF Inv, TypeOK, BidsChosen, AcceptedIsWhole, AcceptSteps, Handler,
        Idle, rowVars, done, To
<1>1. CASE UNCHANGED vars
  BY <1>1 DEF vars
<1>2. ASSUME NEW r \in Handlers, NEW b \in Bids,
             BidRead(r, b) \/ RejectRead(r, b) \/ AcceptRead(r, b)
      PROVE  Inv'
  BY <1>2 DEF BidRead, RejectRead, AcceptRead
<1>3. ASSUME NEW r \in Handlers, BidInsert(r) PROVE Inv'
  BY <1>3 DEF BidInsert
<1>4. ASSUME NEW r \in Handlers, RejectUpdate(r) PROVE Inv'
  BY <1>4 DEF RejectUpdate
<1>5. ASSUME NEW r \in Handlers, InsertContract(r) \/ UpdateProposal(r) \/ UpdateJob(r)
      PROVE  Inv'
  <2>1. CASE InsertContract(r)
    BY <2>1 DEF InsertContract
  <2>2. CASE UpdateProposal(r)
    BY <2>2 DEF UpdateProposal
  <2>3. CASE UpdateJob(r)
    BY <2>3 DEF UpdateJob
  <2> QED
    BY <1>5, <2>1, <2>2, <2>3
<1>6. ASSUME NEW r \in Handlers, ContractExists(r) \/ DeadlockVictim(r) \/ Abort(r)
      PROVE  Inv'
  BY <1>6 DEF ContractExists, DeadlockVictim, Abort
<1>7. ASSUME NEW r \in Handlers, CommitAccept(r) PROVE Inv'
  <2> DEFINE b == handler[r].bid
  <2>1. b \in Bids /\ JobOf(b) \in Jobs
    BY <1>7 DEF CommitAccept, Bids, JobOf
  <2>2. /\ \A o \in Bids : proposal'[o] \in {proposal[o], "ACCEPTED", "REJECTED"}
        /\ \A o \in Bids : proposal'[o] = "ACCEPTED" => o = b \/ proposal[o] = "ACCEPTED"
        /\ proposal' \in [Bids -> {"none", "PENDING", "ACCEPTED", "REJECTED"}]
    BY <1>7 DEF CommitAccept
  <2>3. /\ jobStatus' = [jobStatus EXCEPT ![JobOf(b)] = "CLOSED"]
        /\ contracts' = contracts \union {b}
        /\ UNCHANGED failures
    BY <1>7 DEF CommitAccept
  <2>4. TypeOK' /\ BidsChosen'
    BY <1>7, <2>1, <2>2, <2>3 DEF CommitAccept
  <2>5. AcceptedIsWhole'
    BY <2>1, <2>2, <2>3
  <2> QED
    BY <2>4, <2>5
<1>8. ASSUME NEW j \in Jobs, close(j) PROVE Inv'
  BY <1>8 DEF close
<1> QED
  BY <1>1, <1>2, <1>3, <1>4, <1>5, <1>6, <1>7, <1>8 DEF Next

\* There are no rows and no requests at first.
LEMMA InitInv == Init => Inv
  BY MarketplaceAssumption DEF Init, Inv, TypeOK, BidsChosen, AcceptedIsWhole, AcceptSteps, Idle,
     Handler

\* Whatever requests overlap or are lost, an accepted proposal has its contract and
\* a contract's job is closed: no screen meets half an acceptance.
THEOREM AcceptanceIsWhole == Spec => []AcceptedIsWhole
<1>1. Inv => AcceptedIsWhole
  BY DEF Inv
<1> QED
  BY <1>1, InitInv, Inductive, PTL DEF Spec

-----------------------------------------------------------------------------
(* Jobs without a race. *)

\* The only request on a job still finds what it read: a bid a job without a contract, a
\* decision a proposal that is pending.
ReadsStillHold ==
  \A r \in Handlers : handler[r] # Idle /\ JobOf(handler[r].bid) \notin raced =>
    /\ handler[r].step = "bidding" =>
         \A o \in contracts : JobOf(o) # JobOf(handler[r].bid)
    /\ handler[r].step \in {"rejecting"} \union AcceptSteps =>
         proposal[handler[r].bid] = "PENDING"

\* The proposal a contract was made of stays accepted.
ContractsAccepted ==
  \A b \in contracts : JobOf(b) \notin raced => proposal[b] = "ACCEPTED"

RacesInv ==
  /\ JobsRacing \subseteq raced
  /\ ReadsStillHold /\ ContractsAccepted /\ OneContractUnlessRaced /\ NoBidLeftPending

\* A request that decides about a bid is alone on its job, if the job has met no race.
LEMMA AloneOnJob ==
  ASSUME Inv, JobsRacing \subseteq raced,
         NEW r \in Handlers, NEW s \in Handlers, handler[r] # Idle,
         JobOf(handler[s].bid) = JobOf(handler[r].bid), JobOf(handler[r].bid) \notin raced
  PROVE  s = r
<1>1. JobOf(handler[r].bid) \in Jobs
  BY DEF Inv, BidsChosen, Bids, JobOf
<1> QED
  BY <1>1 DEF JobsRacing

\* A request that starts, stops or goes on without writing keeps what is known.
LEMMA NoRowChanges ==
  ASSUME Inv, Inv', RacesInv, UNCHANGED rowVars, raced \subseteq raced', JobsRacing' \subseteq raced',
         \A r \in Handlers : handler'[r] # handler[r] =>
           \/ handler'[r] = Idle
           \/ /\ handler[r] # Idle /\ handler'[r].bid = handler[r].bid
              /\ handler[r].step \in AcceptSteps /\ handler'[r].step \in AcceptSteps
           \/ \E b \in Bids :
                \/ handler'[r] = Handler("bidding", b) /\ jobStatus[JobOf(b)] = "OPEN"
                \/ handler'[r] \in {Handler("rejecting", b), Handler("accepting", b)}
                   /\ proposal[b] = "PENDING"
  PROVE  RacesInv'
<1> USE DEF RacesInv, rowVars
<1>1. ContractsAccepted' /\ OneContractUnlessRaced' /\ NoBidLeftPending'
  BY DEF ContractsAccepted, OneContractUnlessRaced, NoBidLeftPending
<1>2. ReadsStillHold'
  <2> SUFFICES ASSUME NEW r \in Handlers, handler'[r] # Idle, JobOf(handler'[r].bid) \notin raced'
               PROVE  /\ handler'[r].step = "bidding" =>
                           \A o \in contracts : JobOf(o) # JobOf(handler'[r].bid)
                      /\ handler'[r].step \in {"rejecting"} \union AcceptSteps =>
                           proposal[handler'[r].bid] = "PENDING"
    BY DEF ReadsStillHold
  <2>1. CASE handler'[r] = handler[r]
    BY <2>1 DEF ReadsStillHold
  <2>2. CASE /\ handler[r] # Idle /\ handler'[r].bid = handler[r].bid
             /\ handler[r].step \in AcceptSteps /\ handler'[r].step \in AcceptSteps
    BY <2>2 DEF ReadsStillHold, AcceptSteps
  <2>3. ASSUME NEW b \in Bids, handler'[r] = Handler("bidding", b), jobStatus[JobOf(b)] = "OPEN"
        PROVE  \A o \in contracts : JobOf(o) # JobOf(b)
    BY <2>3 DEF Inv, AcceptedIsWhole
  <2>4. ASSUME NEW b \in Bids, proposal[b] = "PENDING",
               handler'[r] \in {Handler("rejecting", b), Handler("accepting", b)}
        PROVE  handler'[r].bid = b /\ handler'[r].step # "bidding"
    BY <2>4 DEF Handler
  <2>5. ASSUME NEW b \in Bids, handler'[r] = Handler("bidding", b), jobStatus[JobOf(b)] = "OPEN"
        PROVE  handler'[r].bid = b /\ handler'[r].step = "bidding"
    BY <2>5 DEF Handler
  <2> QED
    BY <2>1, <2>2, <2>3, <2>4, <2>5 DEF AcceptSteps
<1> QED
  BY <1>1, <1>2

\* A bid that is inserted joins others on a job without a contract.
LEMMA BidInserted ==
  ASSUME Inv, Inv', RacesInv, raced \subseteq raced', JobsRacing' \subseteq raced',
         NEW r \in Handlers, BidInsert(r)
  PROVE  RacesInv'
<1> DEFINE b == handler[r].bid
<1> USE DEF RacesInv
<1>1. /\ handler[r] # Idle /\ b \in Bids
      /\ handler'[r] = Idle /\ \A s \in Handlers \ {r} : handler'[s] = handler[s]
      /\ \A o \in Bids \ {b} : proposal'[o] = proposal[o]
      /\ proposal[b] # "none" => proposal'[b] = proposal[b]
      /\ UNCHANGED <<jobStatus, contracts>>
  BY DEF BidInsert, done, Inv, TypeOK, BidsChosen, Idle, Handler
<1>2. ReadsStillHold'
  BY <1>1 DEF ReadsStillHold, Inv, BidsChosen
<1>3. ContractsAccepted'
  BY <1>1 DEF ContractsAccepted, Inv, TypeOK
<1>4. NoBidLeftPending'
  <2>1. JobOf(b) \notin raced => \A o \in contracts : JobOf(o) # JobOf(b)
    BY <1>1 DEF ReadsStillHold, BidInsert
  <2>2. \A j : b \in BidsOn(j) => j = JobOf(b)
    BY DEF BidsOn, JobOf
  <2>3. \A o \in contracts : BidsOn(JobOf(o)) \subseteq Bids
    BY DEF BidsOn, Bids, Inv, TypeOK, JobOf
  <2> QED
    BY <1>1, <2>1, <2>2, <2>3 DEF NoBidLeftPending
<1>5. OneContractUnlessRaced'
  BY <1>1 DEF OneContractUnlessRaced
<1> QED
  BY <1>2, <1>3, <1>4, <1>5

\* A rejection alone on its job overwrites a pending proposal, which is nobody's contract.
LEMMA ProposalRejected ==
  ASSUME Inv, Inv', RacesInv, raced \subseteq raced', JobsRacing' \subseteq raced',
         NEW r \in Handlers, RejectUpdate(r)
  PROVE  RacesInv'
<1> DEFINE b == handler[r].bid
<1> USE DEF RacesInv
<1>1. /\ handler[r] # Idle /\ b \in Bids
      /\ handler'[r] = Idle /\ \A s \in Handlers \ {r} : handler'[s] = handler[s]
      /\ \A o \in Bids \ {b} : proposal'[o] = proposal[o]
      /\ proposal'[b] = "REJECTED"
      /\ UNCHANGED <<jobStatus, contracts>>
  BY DEF RejectUpdate, done, Inv, TypeOK, BidsChosen, Idle, Handler
<1>2. JobOf(b) \notin raced => proposal[b] = "PENDING"
  BY <1>1 DEF ReadsStillHold, RejectUpdate
<1>3. ReadsStillHold'
  BY <1>1, AloneOnJob DEF ReadsStillHold, Inv, BidsChosen
<1>4. ContractsAccepted'
  BY <1>1, <1>2 DEF ContractsAccepted, Inv, TypeOK
<1>5. NoBidLeftPending'
  <2>1. \A o \in contracts : BidsOn(JobOf(o)) \subseteq Bids
    BY DEF BidsOn, Bids, Inv, TypeOK, JobOf
  <2> QED
    BY <1>1, <2>1 DEF NoBidLeftPending
<1>6. OneContractUnlessRaced'
  BY <1>1 DEF OneContractUnlessRaced
<1> QED
  BY <1>3, <1>4, <1>5, <1>6

\* An acceptance alone on its job makes the job's first contract and answers the others.
LEMMA ProposalAccepted ==
  ASSUME Inv, Inv', RacesInv, raced \subseteq raced', JobsRacing' \subseteq raced',
         NEW r \in Handlers, CommitAccept(r)
  PROVE  RacesInv'
<1> DEFINE b == handler[r].bid
<1> USE DEF RacesInv
<1>1. /\ handler[r] # Idle /\ b \in Bids /\ JobOf(b) \in Jobs
      /\ handler'[r] = Idle /\ \A s \in Handlers \ {r} : handler'[s] = handler[s]
      /\ contracts' = contracts \union {b}
  BY DEF CommitAccept, done, Inv, TypeOK, BidsChosen, Idle, Handler, Bids, JobOf
<1>2. /\ proposal'[b] = "ACCEPTED"
      /\ \A o \in Bids \ {b} : proposal'[o] = IF o \in others(b) THEN "REJECTED" ELSE proposal[o]
  BY <1>1 DEF CommitAccept
<1>3. \A o \in Bids : JobOf(o) = JobOf(b) <=> o \in BidsOn(JobOf(b))
  BY <1>1 DEF JobOf, BidsOn, Bids
<1>4. \A o \in Bids : JobOf(o) # JobOf(b) => proposal'[o] = proposal[o]
  BY <1>2, <1>3 DEF others
<1>5. \A o \in Bids : JobOf(o) = JobOf(b) => proposal'[o] # "PENDING"
  BY <1>2, <1>3 DEF others
<1>6. JobOf(b) \notin raced => \A o \in contracts : JobOf(o) # JobOf(b)
  <2> SUFFICES ASSUME JobOf(b) \notin raced, NEW o \in contracts, JobOf(o) = JobOf(b)
               PROVE  FALSE
    OBVIOUS
  <2>1. proposal[b] = "PENDING"
    BY <1>1 DEF ReadsStillHold, CommitAccept, AcceptSteps
  <2>2. b \in BidsOn(JobOf(o))
    BY <1>1, <1>3
  <2> QED
    BY <2>1, <2>2 DEF NoBidLeftPending
<1>7. contracts \subseteq Bids
  BY DEF Inv, TypeOK
<1>8. ReadsStillHold'
  <2> SUFFICES ASSUME NEW s \in Handlers, handler'[s] # Idle, JobOf(handler'[s].bid) \notin raced'
               PROVE  /\ handler'[s].step = "bidding" =>
                           \A o \in contracts' : JobOf(o) # JobOf(handler'[s].bid)
                      /\ handler'[s].step \in {"rejecting"} \union AcceptSteps =>
                           proposal'[handler'[s].bid] = "PENDING"
    BY DEF ReadsStillHold
  <2>1. s # r /\ handler'[s] = handler[s] /\ handler[s].bid \in Bids
    BY <1>1 DEF Inv, BidsChosen
  <2>2. JobOf(handler[s].bid) # JobOf(b)
    BY <2>1, <1>1, AloneOnJob
  <2> QED
    BY <2>1, <2>2, <1>1, <1>4 DEF ReadsStillHold
<1>9. ContractsAccepted'
  BY <1>1, <1>2, <1>4, <1>6, <1>7 DEF ContractsAccepted
<1>10. OneContractUnlessRaced'
  BY <1>1, <1>6 DEF OneContractUnlessRaced
<1>11. NoBidLeftPending'
  <2>1. \A o \in Bids : \A p \in BidsOn(JobOf(o)) : p \in Bids /\ JobOf(p) = JobOf(o)
    BY DEF BidsOn, Bids, JobOf
  <2> QED
    BY <1>1, <1>4, <1>5, <1>7, <2>1 DEF NoBidLeftPending
<1> QED
  BY <1>8, <1>9, <1>10, <1>11

\* Every step keeps what holds of jobs without a race, also with the steps on other jobs.
LEMMA RacesInductive ==
  ASSUME Inv, RacesInv, [RacesNext]_<<vars, raced>>
  PROVE  RacesInv'
<1>1. CASE UNCHANGED <<vars, raced>>
  BY <1>1 DEF vars, rowVars, RacesInv, JobsRacing, ReadsStillHold, ContractsAccepted,
     OneContractUnlessRaced, NoBidLeftPending
<1>2. CASE RacesNext
  <2>1. raced \subseteq raced' /\ JobsRacing' \subseteq raced' /\ Next
    BY <1>2 DEF RacesNext
  <2>2. Inv'
    BY <2>1, Inductive
  <2> USE <2>1, <2>2
  <2>3. ASSUME NEW r \in Handlers, NEW b \in Bids,
               BidRead(r, b) \/ RejectRead(r, b) \/ AcceptRead(r, b)
        PROVE  RacesInv'
    <3>1. UNCHANGED rowVars /\ \A s \in Handlers \ {r} : handler'[s] = handler[s]
      BY <2>3 DEF BidRead, RejectRead, AcceptRead, Inv, TypeOK
    <3>2. \/ handler'[r] = Handler("bidding", b) /\ jobStatus[JobOf(b)] = "OPEN"
          \/ /\ handler'[r] \in {Handler("rejecting", b), Handler("accepting", b)}
             /\ proposal[b] = "PENDING"
      BY <2>3 DEF BidRead, RejectRead, AcceptRead, isPending, Inv, TypeOK
    <3> QED
      BY <3>1, <3>2, NoRowChanges
  <2>4. ASSUME NEW r \in Handlers, InsertContract(r) \/ UpdateProposal(r) \/ UpdateJob(r)
        PROVE  RacesInv'
    <3>1. UNCHANGED rowVars /\ \A s \in Handlers \ {r} : handler'[s] = handler[s]
      BY <2>4 DEF InsertContract, UpdateProposal, UpdateJob, To, Inv, TypeOK
    <3>2. /\ handler[r] # Idle /\ handler'[r].bid = handler[r].bid
          /\ handler[r].step \in AcceptSteps /\ handler'[r].step \in AcceptSteps
      BY <2>4 DEF InsertContract, UpdateProposal, UpdateJob, To, Inv, TypeOK, AcceptSteps, Idle,
         Handler
    <3> QED
      BY <3>1, <3>2, NoRowChanges
  <2>5. ASSUME NEW r \in Handlers, ContractExists(r) \/ DeadlockVictim(r) \/ Abort(r)
        PROVE  RacesInv'
    <3>1. /\ UNCHANGED rowVars
          /\ handler'[r] = Idle /\ \A s \in Handlers \ {r} : handler'[s] = handler[s]
      BY <2>5 DEF ContractExists, DeadlockVictim, Abort, done, Inv, TypeOK
    <3> QED
      BY <3>1, NoRowChanges
  <2>6. ASSUME NEW j \in Jobs, close(j) PROVE RacesInv'
    BY <2>6 DEF close, RacesInv, ReadsStillHold, ContractsAccepted, OneContractUnlessRaced,
       NoBidLeftPending
  <2> QED
    BY <2>3, <2>4, <2>5, <2>6, BidInserted, ProposalRejected, ProposalAccepted DEF Next
<1> QED
  BY <1>1, <1>2

\* Both invariants hold of the marketplace with its memory of races.
LEMMA RacesInvariance == RacesSpec => [](Inv /\ RacesInv)
<1>1. RacesInit => Inv /\ RacesInv
  <2> SUFFICES ASSUME RacesInit PROVE Inv /\ RacesInv
    OBVIOUS
  <2>1. Inv
    BY InitInv DEF RacesInit
  <2>2. JobsRacing = {}
    BY MarketplaceAssumption DEF RacesInit, Init, JobsRacing, Idle, Handler, JobOf
  <2> QED
    BY <2>1, <2>2 DEF RacesInit, Init, RacesInv, ReadsStillHold, ContractsAccepted,
       OneContractUnlessRaced, NoBidLeftPending
<1>2. Inv /\ RacesInv /\ [RacesNext]_<<vars, raced>> => (Inv /\ RacesInv)'
  BY Inductive, RacesInductive DEF RacesNext
<1> QED
  BY <1>1, <1>2, PTL DEF RacesSpec

\* However many requests there are and however long they run, one contract is made of a
\* job on which no two of them overlapped, whatever happens to other jobs: accepting closes
\* the job and rejects its other bids.
THEOREM OneContract == RacesSpec => []OneContractUnlessRaced
<1>1. RacesInv => OneContractUnlessRaced
  BY DEF RacesInv
<1> QED
  BY <1>1, RacesInvariance, PTL

\* When such a job has its contract, everybody who bid on it has an answer, and nobody
\* can bid any more.
THEOREM BidsAnswered == RacesSpec => []NoBidLeftPending
<1>1. RacesInv => NoBidLeftPending
  BY DEF RacesInv
<1> QED
  BY <1>1, RacesInvariance, PTL

\* On such a job no acceptance is undone by a rejection, nor a rejection by an acceptance.
THEOREM DecisionsStand == RacesSpec => DecisionsStandUnlessRaced
<1> DEFINE Stand == \A b \in Bids :
             JobOf(b) \notin raced' /\ proposal[b] \in {"ACCEPTED", "REJECTED"}
               => proposal'[b] = proposal[b]
<1>1. Inv /\ RacesInv /\ [RacesNext]_<<vars, raced>> => [Stand]_vars
  <2> SUFFICES ASSUME Inv, RacesInv, RacesNext PROVE Stand
    OBVIOUS
  <2>1. raced \subseteq raced' /\ Next
    BY DEF RacesNext
  <2>2. ASSUME NEW r \in Handlers, BidInsert(r) PROVE Stand
    BY <2>2 DEF BidInsert, Inv, TypeOK
  <2>3. ASSUME NEW r \in Handlers, RejectUpdate(r) PROVE Stand
    <3>1. handler[r] # Idle
      BY <2>3 DEF RejectUpdate, Idle, Handler
    <3> QED
      BY <2>1, <2>3, <3>1 DEF RejectUpdate, RacesInv, ReadsStillHold, Inv, TypeOK
  <2>4. ASSUME NEW r \in Handlers, CommitAccept(r) PROVE Stand
    <3>1. handler[r] # Idle
      BY <2>4 DEF CommitAccept, Idle, Handler
    <3>2. JobOf(handler[r].bid) \notin raced => proposal[handler[r].bid] = "PENDING"
      BY <3>1, <2>4 DEF CommitAccept, RacesInv, ReadsStillHold, AcceptSteps
    <3> QED
      BY <2>1, <2>4, <3>2 DEF CommitAccept, others
  <2>5. CASE UNCHANGED proposal
    BY <2>5
  <2>6. \/ UNCHANGED proposal
        \/ \E r \in Handlers : BidInsert(r) \/ RejectUpdate(r) \/ CommitAccept(r)
    BY <2>1 DEF Next, BidRead, RejectRead, AcceptRead, InsertContract, ContractExists,
       UpdateProposal, UpdateJob, DeadlockVictim, Abort, close, rowVars
  <2> QED
    BY <2>2, <2>3, <2>4, <2>5, <2>6
<1> QED
  BY <1>1, RacesInvariance, PTL DEF RacesSpec, DecisionsStandUnlessRaced

-----------------------------------------------------------------------------
(* The pages. *)

\* Users and nobody, and what the cache holds of a query.
People == Users \union {NoUser}
Answer == [rev : Nat, of : People]
Query == [data : Answer \union {NoData}, stale : BOOLEAN, step : {"idle", "sent", "back"},
          by : People, got : Answer \union {NoData}]

\* The job and the contract that are not there at first.
News == {NewJob, NewContract}
Additions == {"job", "contract"} \X {1, 2}

\* What a form sends, from which page and by whom.
Request(r) ==
  /\ r.by \in Users
  /\ \/ r.act = "post" /\ r.on = <<"new", 0>>
     \/ r.act = "bid" /\ r.on[1] = "job" /\ r.by = "freelancer"
     \/ r.act \in {"reject", "accept"} /\ r.on[1] = "job" /\ r.by = "client"
     \/ r.act = "topUp" /\ r.on = Wallet
     \/ r.act = "milestone" /\ r.on[1] = "contract"
     \/ r.act = "resolve" /\ r.on = <<"dispute", 1>> /\ r.by = "admin"

\* Store, page, cache and form are what the pages make them.
PagesTypeOK ==
  /\ boot \in People \union {"over"} /\ user \in People /\ page \in Pages
  /\ status = "authenticated" => user # NoUser
  /\ cache \in [Keys -> Query]
  /\ server \in [Keys -> Nat]
  /\ exists \subseteq Additions
  /\ mine \subseteq Keys
  /\ pending # NoRequest => Request(pending) /\ pending.on \in Pages

\* What a query has, or will have when its request comes back, is what the server holds.
Current(q, rev) ==
  /\ q.data # NoData => q.data.rev = rev
  /\ q.step = "back" => q.got # NoData /\ q.got.rev = rev

\* An answer that a user's action left them on is current, or will be.
Settles(q, rev, k, who) ==
  /\ readable(who, k)
  /\ q.step = "idle" => q.data # NoData /\ q.data.rev = rev
  /\ q.step = "sent" => readable(IF q.by = NoUser THEN who ELSE q.by, k)
  /\ q.step = "back" => q.got # NoData /\ q.got.rev = rev

\* A query that nobody has asked for, or in vain.
Unasked(q) == q.step = "idle" /\ q.data = NoData

\* Of a cache c: what the user's actions left them on settles; nobody has asked for a job
\* or a contract that does not exist, nor seen the one that the form under way added as it
\* was before.
CacheFits(c, revs, those, who, there, asking) ==
  /\ \A k \in those : Settles(c[k], revs[k], k, who)
  /\ \A k \in News \ there : Unasked(c[k])
  /\ asking # NoRequest =>
       \A k \in added(asking.act) : k \in there /\ Current(c[k], revs[k])

PagesInv == PagesTypeOK /\ CacheFits(cache, server, mine, user, exists, pending)

-----------------------------------------------------------------------------
(* The cache. *)

\* A query is left alone, but for its mark, or asked for again.
Kept(q, r) == r.data = q.data /\ r.step = q.step /\ r.by = q.by /\ r.got = q.got
AskedBy(q, r, who) == r.data = q.data /\ r.step = "sent" /\ r.by = who

\* Neither spoils what is known of it.
LEMMA Carries ==
  ASSUME NEW q, NEW r, NEW rev, NEW k, NEW who, Kept(q, r) \/ AskedBy(q, r, who)
  PROVE  /\ Current(q, rev) => Current(r, rev)
         /\ Settles(q, rev, k, who) => Settles(r, rev, k, who)
BY DEF Kept, AskedBy, Current, Settles

\* The fields of a query that is asked for, or whose request is over.
LEMMA Asks ==
  ASSUME NEW q \in Query, NEW who \in People
  PROVE  /\ ask(q, who) \in Query /\ AskedBy(q, ask(q, who), who)
         /\ [ask(q, who) EXCEPT !.stale = TRUE] \in Query
         /\ AskedBy(q, [ask(q, who) EXCEPT !.stale = TRUE], who)
         /\ [q EXCEPT !.stale = TRUE] \in Query /\ Kept(q, [q EXCEPT !.stale = TRUE])
BY DEF ask, AskedBy, Kept, Query, People

\* Who shows a job or a contract is on its page.
LEMMA NewsOnPage ==
  ASSUME NEW k \in News, NEW st, NEW who, NEW p, NEW c, k \in showing(st, who, p, c)
  PROVE  k = p
BY DEF News, NewJob, NewContract, showing, WalletChip, queriesOf, pageQueries, jobQueries,
   Proposals, dashboardQueries, MyContracts, Wallet, MyJobs, MyProposals, Queue

\* And pages are of jobs and contracts that exist.
LEMMA PagesExist == ASSUME NEW k \in News, k \in Pages PROVE k \in exists
BY DEF News, NewJob, NewContract, Pages, Forms

\* A cache whose queries are left alone or asked for fits, if the new one is asked for only
\* when it exists.
LEMMA FitsMoved ==
  ASSUME NEW c, NEW d, NEW revs, NEW those \in SUBSET Keys, NEW who, NEW new, NEW fewer,
         NEW there, NEW asking, CacheFits(c, revs, those, who, there, asking),
         fewer \subseteq those, fewer = {} \/ new = who,
         \A k \in Keys : Kept(c[k], d[k]) \/ (AskedBy(c[k], d[k], new) /\ k \notin News \ there)
  PROVE  CacheFits(d, revs, fewer, new, there, asking)
<1>1. \A k \in fewer : Settles(d[k], revs[k], k, new)
  BY Carries DEF CacheFits
<1>2. \A k \in News \ there : Unasked(d[k])
  BY DEF CacheFits, Unasked, Kept, News, Keys, NewJob, NewContract
<1>3. ASSUME asking # NoRequest, NEW k \in added(asking.act)
      PROVE  k \in there /\ Current(d[k], revs[k])
  <2>1. k \in Keys
    BY <1>3 DEF added, Keys, NewJob, NewContract
  <2> QED
    BY <1>3, <2>1, Carries DEF CacheFits
<1> QED
  BY <1>1, <1>2, <1>3 DEF CacheFits

\* Mounted queries are asked for, if at all.
LEMMA Mounts ==
  ASSUME NEW c \in [Keys -> Query], NEW keys, NEW who \in People, NEW aged
  PROVE  /\ mount(c, keys, who, aged) \in [Keys -> Query]
         /\ \A k \in Keys : Kept(c[k], mount(c, keys, who, aged)[k])
              \/ (AskedBy(c[k], mount(c, keys, who, aged)[k], who) /\ k \in keys)
<1>1. \A k \in Keys : ask(c[k], who) \in Query /\ AskedBy(c[k], ask(c[k], who), who)
  BY Asks
<1> QED
  BY <1>1 DEF mount, Kept

\* A change of the store or of the page mounts what is newly shown.
LEMMA Shows ==
  ASSUME NEW st, NEW who \in People, NEW p, NEW c \in [Keys -> Query], NEW aged,
         show(st, who, p, c, aged)
  PROVE  /\ status' = st /\ user' = who /\ page' = p
         /\ cache' \in [Keys -> Query]
         /\ \A k \in Keys : Kept(c[k], cache'[k])
              \/ (AskedBy(c[k], cache'[k], who) /\ k \in showing(st, who, p, c))
<1> DEFINE asked == (IF p = page THEN {} ELSE queriesOf(st, who, p, c))
                      \union (showing(st, who, p, c) \ shown)
<1>1. status' = st /\ user' = who /\ page' = p /\ cache' = mount(c, asked, who, aged)
  BY DEF show
<1>2. asked \subseteq showing(st, who, p, c)
  BY DEF showing
<1> HIDE DEF asked
<1> QED
  BY <1>1, <1>2, Mounts

-----------------------------------------------------------------------------
(* The steps. *)

\* A step that shows another screen, from a cache that fits.
LEMMA Screens ==
  ASSUME PagesInv, NEW st, NEW who \in People, NEW p, NEW c \in [Keys -> Query], NEW aged,
         CacheFits(c, server, mine, user, exists, pending), show(st, who, p, c, aged),
         p \in Pages, st = "authenticated" => who # NoUser,
         boot' \in {boot, "over"}, UNCHANGED <<pending, server, exists>>,
         mine' \subseteq mine, mine' = {} \/ who = user
  PROVE  PagesInv'
<1>1. user' = who /\ page' = p /\ status' = st /\ cache' \in [Keys -> Query]
  BY Shows
<1>2. \A k \in Keys : Kept(c[k], cache'[k])
        \/ (AskedBy(c[k], cache'[k], who) /\ k \in showing(st, who, p, c))
  BY Shows
<1>3. \A k \in News : k \in showing(st, who, p, c) => k \in exists
  BY NewsOnPage, PagesExist
<1>4. mine \in SUBSET Keys
  BY DEF PagesInv, PagesTypeOK
<1>5. CacheFits(cache', server, mine', who, exists, pending)
  BY <1>2, <1>1, <1>3, <1>4, FitsMoved
<1>6. Pages' = Pages
  BY DEF Pages
<1>7. PagesTypeOK'
  BY <1>1, <1>4, <1>6 DEF PagesInv, PagesTypeOK
<1> QED
  BY <1>1, <1>5, <1>7 DEF PagesInv

\* A step that changes no screen and asks for nothing.
LEMMA Screenless ==
  ASSUME PagesInv, UNCHANGED <<boot, status, user, page, server, exists>>, pending' \in {pending, NoRequest},
         cache' \in [Keys -> Query], mine' \subseteq mine,
         CacheFits(cache', server, mine', user, exists, pending)
  PROVE  PagesInv'
<1>1. Pages' = Pages
  BY DEF Pages
<1>2. PagesTypeOK'
  BY <1>1 DEF PagesInv, PagesTypeOK
<1> QED
  BY <1>2 DEF PagesInv, CacheFits

\* The server's answer is what it holds.
LEMMA ReadStep == ASSUME PagesInv, NEW k \in Keys, Read(k) PROVE PagesInv'
<1>1. cache \in [Keys -> Query] /\ server[k] \in Nat /\ user \in People
  BY DEF PagesInv, PagesTypeOK
<1> DEFINE got == [rev |-> server[k], of |-> reader(k)]
<1>2. reader(k) \in People
  BY <1>1 DEF reader, Query
<1>3. got \in Answer /\ got # NoData /\ got.rev = server[k]
  BY <1>1, <1>2, PagesAssumption DEF Answer, People
<1> HIDE DEF got
<1>4. cache' = [cache EXCEPT ![k] = [@ EXCEPT !.step = "back", !.by = NoUser, !.got = got]]
  BY DEF Read, got
<1>5. /\ cache' \in [Keys -> Query]
      /\ \A j \in Keys \ {k} : cache'[j] = cache[j]
      /\ cache'[k].step = "back" /\ cache'[k].got = got /\ cache'[k].data = cache[k].data
  BY <1>1, <1>3, <1>4 DEF Query, People
<1>6. cache[k].step = "sent"
  BY DEF Read
<1>7. CacheFits(cache', server, mine, user, exists, pending)
  <2>1. \A j \in mine : Settles(cache'[j], server[j], j, user)
    BY <1>3, <1>5 DEF PagesInv, PagesTypeOK, CacheFits, Settles
  <2>2. \A j \in News \ exists : Unasked(cache'[j])
    BY <1>5, <1>6 DEF PagesInv, CacheFits, Unasked, News, NewJob, NewContract, Keys
  <2>3. pending # NoRequest =>
          \A j \in added(pending.act) : j \in exists /\ Current(cache'[j], server[j])
    BY <1>3, <1>5 DEF PagesInv, CacheFits, Current, added, NewJob, NewContract, Keys
  <2> QED
    BY <2>1, <2>2, <2>3 DEF CacheFits
<1> QED
  BY <1>5, <1>7, Screenless DEF Read, auth, bounds

\* A request that is given up leaves what was there.
LEMMA Rests ==
  ASSUME NEW q \in Query
  PROVE  rest(q) \in Query /\ rest(q).data = q.data /\ rest(q).step = "idle"
BY PagesAssumption DEF rest, Query, People

\* So does the cache fit, without the query of the request.
LEMMA FitsRested ==
  ASSUME PagesInv, NEW k \in Keys, cache' = [cache EXCEPT ![k] = rest(@)]
  PROVE  /\ cache' \in [Keys -> Query]
         /\ CacheFits(cache', server, mine \ {k}, user, exists, pending)
<1>1. cache \in [Keys -> Query] /\ mine \subseteq Keys
  BY DEF PagesInv, PagesTypeOK
<1>2. /\ cache' \in [Keys -> Query]
      /\ \A j \in Keys \ {k} : cache'[j] = cache[j]
      /\ cache'[k].step = "idle" /\ cache'[k].data = cache[k].data
  BY <1>1, Rests
<1>3. \A j \in mine \ {k} : Settles(cache'[j], server[j], j, user)
  BY <1>1, <1>2 DEF PagesInv, CacheFits
<1>4. \A j \in News \ exists : Unasked(cache'[j])
  BY <1>2 DEF PagesInv, CacheFits, Unasked, News, NewJob, NewContract, Keys
<1>5. pending # NoRequest =>
        \A j \in added(pending.act) : j \in exists /\ Current(cache'[j], server[j])
  BY <1>2 DEF PagesInv, CacheFits, Current, added, NewJob, NewContract, Keys
<1> QED
  BY <1>2, <1>3, <1>4, <1>5 DEF CacheFits

\* Nobody is refused what a user's action left them on.
LEMMA RefuseStep == ASSUME PagesInv, NEW k \in Keys, Refuse(k) PROVE PagesInv'
<1>1. k \notin mine
  BY DEF PagesInv, CacheFits, Settles, Refuse, reader
<1>2. mine \ {k} = mine /\ cache' = [cache EXCEPT ![k] = rest(@)]
  BY <1>1 DEF Refuse
<1> QED
  BY <1>2, FitsRested, Screenless DEF Refuse, auth, bounds

\* A request that fails leaves what was there, which is then nobody's to see.
LEMMA GiveUpStep == ASSUME PagesInv, NEW k \in Keys, GiveUp(k) PROVE PagesInv'
BY FitsRested, Screenless DEF GiveUp, auth

\* An answer that arrives is what the server held, and still holds if it matters.
LEMMA ArriveStep == ASSUME PagesInv, NEW k \in Keys, Arrive(k) PROVE PagesInv'
<1>1. /\ cache \in [Keys -> Query] /\ page \in Pages /\ user \in People /\ mine \subseteq Keys
      /\ status = "authenticated" => user # NoUser
  BY DEF PagesInv, PagesTypeOK
<1> DEFINE c == [cache EXCEPT ![k] = [Empty EXCEPT !.data = cache[k].got]]
<1>2. /\ c \in [Keys -> Query]
      /\ \A j \in Keys \ {k} : c[j] = cache[j]
      /\ c[k].data = cache[k].got /\ c[k].step = "idle"
  BY <1>1 DEF Empty, Query, People
<1>3. cache[k].step = "back" /\ show(status, user, page, c, FALSE)
  BY DEF Arrive
<1> HIDE DEF c
<1>4. CacheFits(c, server, mine, user, exists, pending)
  <2>1. \A j \in mine : Settles(c[j], server[j], j, user)
    BY <1>1, <1>2, <1>3 DEF PagesInv, CacheFits, Settles
  <2>2. \A j \in News \ exists : Unasked(c[j])
    BY <1>2, <1>3 DEF PagesInv, CacheFits, Unasked, News, NewJob, NewContract, Keys
  <2>3. pending # NoRequest =>
          \A j \in added(pending.act) : j \in exists /\ Current(c[j], server[j])
    BY <1>2, <1>3 DEF PagesInv, CacheFits, Current, added, NewJob, NewContract, Keys
  <2> QED
    BY <2>1, <2>2, <2>3 DEF CacheFits
<1> QED
  BY <1>1, <1>2, <1>3, <1>4, Screens DEF Arrive, bounds


\* Whoever comes, goes or looks elsewhere.
LEMMA NavigationSteps ==
  ASSUME PagesInv,
         \/ bootstrap \/ redirect \/ logout
         \/ \E aged : (\E p \in Pages : Navigate(p, aged)) \/ (\E who \in Users : login(who, aged))
  PROVE  PagesInv'
<1> USE DEF bounds
<1>0. /\ cache \in [Keys -> Query] /\ user \in People /\ page \in Pages
      /\ boot \in People \union {"over"} /\ (status = "authenticated" => user # NoUser)
      /\ CacheFits(cache, server, mine, user, exists, pending)
      /\ Login \in Pages /\ Dashboard \in Pages /\ NoUser \in People /\ Users \subseteq People
  BY DEF PagesInv, PagesTypeOK, Pages, Forms, Login, Dashboard, People
<1>1. CASE bootstrap
  <2>1. \E who \in People : show(statusAfter(who), who, page, cache, FALSE)
    BY <1>0, <1>1 DEF bootstrap
  <2>2. \A who : statusAfter(who) = "authenticated" => who # NoUser
    BY DEF statusAfter
  <2> QED
    BY <1>0, <1>1, <2>1, <2>2, Screens DEF bootstrap
<1>2. CASE redirect
  BY <1>0, <1>2, Screens DEF redirect
<1>3. CASE logout
  <2>1. \E p \in Pages : show("anonymous", NoUser, p, cache, FALSE)
    BY <1>0, <1>3 DEF logout
  <2> QED
    BY <1>0, <1>3, <2>1, Screens DEF logout
<1>4. ASSUME NEW aged, NEW p \in Pages, Navigate(p, aged) PROVE PagesInv'
  BY <1>0, <1>4, Screens DEF Navigate
<1>5. ASSUME NEW aged, NEW who \in Users, login(who, aged) PROVE PagesInv'
  <2>1. who # NoUser
    BY PagesAssumption
  <2> QED
    BY <1>0, <1>5, <2>1, Screens DEF login
<1> QED
  BY <1>1, <1>2, <1>3, <1>4, <1>5

\* What is shown of a job or a contract exists.
LEMMA ShownExist == ASSUME PagesInv, NEW k \in News, k \in shown PROVE k \in exists
BY NewsOnPage, PagesExist DEF shown, PagesInv, PagesTypeOK

\* The window gets the focus back.
LEMMA FocusStep == ASSUME PagesInv, focus PROVE PagesInv'
<1>1. /\ cache \in [Keys -> Query] /\ user \in People /\ mine \in SUBSET Keys
      /\ CacheFits(cache, server, mine, user, exists, pending)
  BY DEF PagesInv, PagesTypeOK
<1>2. cache' \in [Keys -> Query]
  BY <1>1, Mounts DEF focus
<1>3. \A k \in Keys : Kept(cache[k], cache'[k])
        \/ (AskedBy(cache[k], cache'[k], user) /\ k \notin News \ exists)
  BY <1>1, Mounts, ShownExist DEF focus
<1>4. CacheFits(cache', server, mine, user, exists, pending)
  BY <1>1, <1>3, FitsMoved
<1> QED
  BY <1>2, <1>4, Screenless DEF focus, auth

\* The answer to a form is lost.
LEMMA LostStep == ASSUME PagesInv, AnswerLost PROVE PagesInv'
<1>1. cache \in [Keys -> Query] /\ CacheFits(cache, server, mine, user, exists, pending)
  BY DEF PagesInv, PagesTypeOK
<1> QED
  BY <1>1, Screenless DEF AnswerLost, auth


\* A form is offered on its page, to whom it is for.
LEMMA Offers ==
  ASSUME PagesInv, NEW act \in Acts, offered(act)
  PROVE  Request([act |-> act, on |-> page, by |-> user])
<1>1. /\ page \in Pages /\ user \in People /\ (status = "authenticated" => user # NoUser)
      /\ exists \subseteq Additions
  BY DEF PagesInv, PagesTypeOK
<1>2. user # NoUser \/ user \in {"client", "freelancer", "admin"} => user \in Users
  BY <1>1, PagesAssumption DEF People
<1>3. \A x \in {"new", "wallet", "dispute"} : page[1] = x =>
        page = IF x = "dispute" THEN <<"dispute", 1>> ELSE <<x, 0>>
  BY <1>1 DEF Pages, Forms, Additions
<1>4. page[1] \in Guarded /\ renders(status, user, page)
        => user \in Users /\ user \in allowed(page)
  BY <1>1, <1>2 DEF renders
<1>5. \A k : k \in shown /\ page[1] \in {"contract", "dispute", "wallet"}
        => k \in WalletChip(status, user) \/ renders(status, user, page)
  BY DEF shown, showing, queriesOf
<1>6. page[1] \in {"contract", "dispute"} => page # Wallet
  BY DEF Wallet
<1> USE DEF offered, Request
<1>7. CASE act = "post"
  BY <1>3, <1>4, <1>7 DEF mayPost, Guarded, allowed
<1>8. CASE act = "bid"
  BY <1>2, <1>8 DEF mayBid
<1>9. CASE act \in {"reject", "accept"}
  BY <1>2, <1>9 DEF mayReview
<1>10. CASE act = "topUp"
  <2>1. page = Wallet
    BY <1>3, <1>10 DEF mayTopUp, Wallet
  <2>2. user \in Users
    BY <1>1, <1>2, <1>4, <1>5, <1>10 DEF mayTopUp, WalletChip, Guarded
  <2> QED
    BY <1>10, <2>1, <2>2
<1>11. CASE act = "milestone"
  <2>1. page[1] = "contract" /\ renders(status, user, page)
    BY <1>5, <1>6, <1>11 DEF mayMove, has, WalletChip
  <2> QED
    BY <1>4, <1>11, <2>1 DEF Guarded
<1>12. CASE act = "resolve"
  <2>1. page[1] = "dispute" /\ renders(status, user, page)
    BY <1>5, <1>6, <1>12 DEF mayRule, has, WalletChip
  <2> QED
    BY <1>3, <1>4, <1>12, <2>1 DEF Guarded, allowed
<1> QED
  BY <1>7, <1>8, <1>9, <1>10, <1>11, <1>12 DEF Acts

\* The server does what a form asks: what it adds was asked for by nobody.
LEMMA SubmitStep == ASSUME PagesInv, NEW act \in Acts, Submit(act) PROVE PagesInv'
<1> DEFINE r == [act |-> act, on |-> page, by |-> user]
<1>0. /\ page \in Pages /\ user \in People /\ cache \in [Keys -> Query]
      /\ server \in [Keys -> Nat] /\ exists \subseteq Additions /\ mine \subseteq Keys
      /\ CacheFits(cache, server, mine, user, exists, pending)
  BY DEF PagesInv, PagesTypeOK
<1>1. /\ offered(act) /\ added(act) \intersect exists = {}
      /\ server' = [k \in Keys |-> IF k \in changed(act, page) THEN server[k] + 1 ELSE server[k]]
      /\ exists' = exists \union added(act)
      /\ pending' = r
      /\ mine' = mine \ changed(act, page)
      /\ UNCHANGED <<boot, status, user, page, cache>>
  BY DEF Submit, auth
<1>2. Request(r) /\ r.act = act /\ r.on = page
  BY <1>1, Offers
<1> HIDE DEF r
<1>3. added(act) \subseteq Additions /\ added(act) \subseteq News /\ added(act) \subseteq Keys
  BY DEF added, Additions, News, NewJob, NewContract, Keys
<1>4. page \in Pages'
  BY <1>0, <1>1 DEF Pages
<1>5. server' \in [Keys -> Nat] /\ \A k \in mine' : server'[k] = server[k]
  BY <1>0, <1>1
<1>6. PagesTypeOK'
  BY <1>0, <1>1, <1>2, <1>3, <1>4, <1>5 DEF PagesInv, PagesTypeOK
<1>7. \A k \in added(act) : k \in exists' /\ Current(cache[k], server'[k])
  BY <1>0, <1>1, <1>3 DEF CacheFits, Unasked, Current
<1>8. \A k \in mine' : Settles(cache[k], server'[k], k, user)
  BY <1>0, <1>1, <1>5 DEF CacheFits
<1>9. CacheFits(cache, server', mine', user, exists', r)
  BY <1>0, <1>1, <1>2, <1>7, <1>8 DEF CacheFits
<1> QED
  BY <1>1, <1>6, <1>9 DEF PagesInv


-----------------------------------------------------------------------------
(* The answer to a form. *)

\* Of what a form changed, the screen it leads to shows what the form added and what it
\* invalidates, no more: the other queries are on other pages or for other users.
LEMMA Changes ==
  ASSUME PagesInv, NEW r, Request(r), r.on \in Pages, page = r.on \/ page # leadsTo(r.act),
         NEW d, r.on \in Keys => d[r.on].data = cache[r.on].data,
         NEW k \in changed(r.act, r.on), k \in showing(status, r.by, leadsTo(r.act), d)
  PROVE  /\ k \in Keys /\ readable(r.by, k)
         /\ \/ k \in added(r.act) /\ page # leadsTo(r.act)
            \/ k \in invalidated(r.act, r.on) /\ k \in showing(status, r.by, r.on, cache) /\ page = r.on
<1>0. /\ exists \subseteq Additions /\ page \in Pages
      /\ r.by # NoUser /\ NoUser # "freelancer" /\ NoUser # "client"
  BY PagesAssumption DEF PagesInv, PagesTypeOK, Request
<1>1. /\ \A x \in {"job", "contract"} : r.on[1] = x => r.on \in {<<x, 1>>, <<x, 2>>}
      /\ page[1] = "dispute" => page = <<"dispute", 1>>
  BY <1>0 DEF Pages, Forms, Additions
<1> USE DEF changed, leadsTo, added, invalidated, showing, WalletChip, queriesOf, pageQueries
<1>2. CASE r.act \in {"post", "accept"}
  <2>1. leadsTo(r.act) = IF r.act = "post" THEN NewJob ELSE NewContract
    BY <1>2
  <2>2. leadsTo(r.act) # r.on /\ leadsTo(r.act) # page
    BY <1>0, <1>2, <2>1 DEF Request, NewJob, NewContract
  <2>3. k = leadsTo(r.act)
    BY <1>1, <1>2, <2>1 DEF Request, jobQueries, NewJob, NewContract, Wallet, Proposals, MyJobs,
       MyProposals, MyContracts
  <2> QED
    BY <1>0, <1>2, <2>1, <2>2, <2>3 DEF NewJob, NewContract, Keys, readable, public
<1>3. CASE r.act = "bid"
  <2>1. leadsTo(r.act) = page /\ page = r.on /\ r.on[1] = "job" /\ r.by = "freelancer"
    BY <1>3 DEF Request
  <2>2. ~isOwner(r.by, r.on, d)
    BY <1>0, <2>1 DEF isOwner
  <2>3. k = r.on
    BY <1>1, <1>3, <2>1, <2>2 DEF jobQueries, Wallet, Proposals, MyJobs, MyProposals
  <2> QED
    BY <1>1, <1>3, <2>1, <2>3 DEF jobQueries, renders, Guarded, Keys, readable, public
<1>4. CASE r.act = "reject"
  <2>1. leadsTo(r.act) = page /\ page = r.on /\ r.on[1] = "job" /\ r.by = "client"
    BY <1>4 DEF Request
  <2>2. k = Proposals(r.on) /\ r.on \in Keys
    BY <1>1, <1>4, <2>1 DEF jobQueries, Wallet, Proposals, MyProposals, Keys
  <2>3. isOwner(r.by, r.on, d) = isOwner(r.by, r.on, cache)
    BY <2>2 DEF isOwner
  <2> QED
    BY <1>1, <1>4, <2>1, <2>2, <2>3 DEF jobQueries, Proposals, renders, Guarded, Wallet, Keys,
       readable, public
<1>5. CASE r.act \in {"topUp", "milestone"}
  <2>1. leadsTo(r.act) = page /\ page = r.on /\ r.on[1] \in {"wallet", "contract"}
    BY <1>5 DEF Request, Wallet
  <2>2. k \in {Wallet, r.on} /\ k \in showing(status, r.by, r.on, cache)
    BY <1>1, <1>5, <2>1 DEF Wallet, MyContracts, Queue, Request
  <2>3. k \in Keys /\ readable(r.by, k)
    BY <1>0, <1>1, <1>5, <2>1, <2>2 DEF Request, Wallet, Keys, Lists, readable, public
  <2> QED
    BY <1>5, <2>1, <2>2, <2>3 DEF Request
<1>6. CASE r.act = "resolve"
  <2>1. r.on = <<"dispute", 1>> /\ page = r.on /\ leadsTo(r.act) = Queue /\ r.by = "admin"
    BY <1>1, <1>6 DEF Request
  <2>2. k = Queue /\ renders(status, r.by, Queue)
    BY <2>1 DEF Queue
  <2>3. renders(status, r.by, r.on)
    BY <2>1, <2>2 DEF renders, Queue, Guarded, allowed
  <2> QED
    BY <1>6, <2>1, <2>2, <2>3 DEF Queue, Keys, Lists, readable, public
<1> QED
  BY <1>2, <1>3, <1>4, <1>5, <1>6 DEF Request

\* invalidateQueries marks a query; one that is shown and has been answered it asks for.
LEMMA Invalidates ==
  ASSUME PagesInv, NEW keys, NEW c, c = invalidate(keys)
  PROVE  /\ c \in [Keys -> Query]
         /\ \A k \in Keys : Kept(cache[k], c[k]) \/ (AskedBy(cache[k], c[k], user) /\ k \in shown)
         /\ \A k \in Keys : k \in keys /\ k \in shown /\ ~isLoading(k) => AskedBy(cache[k], c[k], user)
<1>1. cache \in [Keys -> Query] /\ user \in People
  BY DEF PagesInv, PagesTypeOK
<1>2. \A k \in Keys :
        /\ [ask(cache[k], user) EXCEPT !.stale = TRUE] \in Query
        /\ AskedBy(cache[k], [ask(cache[k], user) EXCEPT !.stale = TRUE], user)
        /\ [cache[k] EXCEPT !.stale = TRUE] \in Query
        /\ Kept(cache[k], [cache[k] EXCEPT !.stale = TRUE])
        /\ Kept(cache[k], cache[k])
  BY <1>1, Asks DEF Kept
<1> QED
  BY <1>1, <1>2 DEF invalidate

\* The answer arrives: the user is left on a screen that shows what they did, or will.
LEMMA AnsweredStep == ASSUME PagesInv, AnswerOk PROVE PagesInv'
<1>0. /\ cache \in [Keys -> Query] /\ user \in People /\ page \in Pages
      /\ status = "authenticated" => user # NoUser
      /\ mine \in SUBSET Keys /\ CacheFits(cache, server, mine, user, exists, pending)
      /\ pending # NoRequest /\ Request(pending) /\ pending.on \in Pages
      /\ UNCHANGED <<boot, server, exists>> /\ pending' = NoRequest
  BY DEF PagesInv, PagesTypeOK, AnswerOk
<1> DEFINE p == leadsTo(pending.act)
<1>1. PICK c : c = invalidate(invalidated(pending.act, pending.on))
  OBVIOUS
<1>2. /\ c \in [Keys -> Query]
      /\ \A k \in Keys : Kept(cache[k], c[k]) \/ (AskedBy(cache[k], c[k], user) /\ k \in shown)
      /\ \A k \in Keys : k \in invalidated(pending.act, pending.on) /\ k \in shown /\ ~isLoading(k)
           => AskedBy(cache[k], c[k], user)
  BY <1>1, Invalidates
<1>3. CacheFits(c, server, mine, user, exists, pending)
  BY <1>0, <1>2, ShownExist, FitsMoved
<1>4. show(status, user, p, c, FALSE)
  BY <1>1 DEF AnswerOk
<1>5. p \in Pages
  BY <1>0 DEF leadsTo, CacheFits, added, Pages, Forms, Queue
<1>6. PICK q : q = p
  OBVIOUS
<1> HIDE DEF p
<1>7. user' = user /\ page' = q /\ status' = status /\ cache' \in [Keys -> Query]
  BY <1>0, <1>2, <1>4, <1>6, Shows
<1>8. \A k \in Keys : Kept(c[k], cache'[k])
        \/ (AskedBy(c[k], cache'[k], user) /\ k \in showing(status, user, q, c))
  BY <1>0, <1>2, <1>4, <1>6, Shows
<1>9. CacheFits(cache', server, mine, user, exists, pending)
  <2>1. \A k \in News : k \in showing(status, user, q, c) => k \in exists
    BY <1>5, <1>6, NewsOnPage, PagesExist
  <2> QED
    BY <1>0, <1>3, <1>8, <2>1, FitsMoved
<1>10. ASSUME NEW k \in mine', k \notin mine
       PROVE  k \in Keys /\ Settles(cache'[k], server[k], k, user)
  <2>1. /\ user = pending.by /\ (page = pending.on \/ page # q)
        /\ k \in changed(pending.act, pending.on) /\ ~isLoading(k)
        /\ k \in shown' /\ ~hasFailed(k)'
    BY <1>6, <1>10 DEF AnswerOk, p
  <2>2. k \in showing(status, user, q, cache') /\ ~(cache'[k].data = NoData /\ cache'[k].step = "idle")
    BY <1>7, <2>1 DEF shown, hasFailed, idle
  <2>3. pending.on \in Keys => cache'[pending.on].data = cache[pending.on].data
    BY <1>2, <1>8 DEF Kept, AskedBy
  <2>4. /\ k \in Keys /\ readable(user, k)
        /\ \/ k \in added(pending.act)
           \/ /\ k \in invalidated(pending.act, pending.on)
              /\ k \in showing(status, user, pending.on, cache) /\ page = pending.on
    BY <1>0, <1>6, <2>1, <2>2, <2>3, Changes DEF p
  <2>5. CASE k \in added(pending.act)
    <3>1. Current(cache'[k], server[k])
      BY <1>0, <1>9, <2>5 DEF CacheFits
    <3>2. \A who \in Users : readable(who, k)
      BY <2>5, PagesAssumption DEF added, readable, NewJob, NewContract, public
    <3>3. cache'[k].by = NoUser \/ cache'[k].by \in Users
      BY <1>7, <2>4 DEF Query, People
    <3> QED
      BY <2>2, <2>4, <3>1, <3>2, <3>3 DEF Settles, Current
  <2>6. CASE k \in invalidated(pending.act, pending.on) /\ k \in shown
    <3>1. AskedBy(cache[k], c[k], user)
      BY <1>2, <2>1, <2>4, <2>6
    <3>2. cache'[k].step = "sent" /\ cache'[k].by = user
      BY <1>8, <2>4, <3>1 DEF Kept, AskedBy
    <3> QED
      BY <2>4, <3>2 DEF Settles
  <2> QED
    BY <2>4, <2>5, <2>6 DEF shown
<1>11. PagesTypeOK'
  <2>1. Pages' = Pages
    BY <1>0 DEF Pages
  <2> QED
    BY <1>0, <1>5, <1>6, <1>7, <1>10, <2>1 DEF PagesInv, PagesTypeOK
<1>12. CacheFits(cache', server, mine', user, exists, NoRequest)
  BY <1>9, <1>10 DEF CacheFits
<1> QED
  BY <1>0, <1>7, <1>11, <1>12 DEF PagesInv

\* The first page mounts its queries in an empty cache.
LEMMA PagesStart == PagesInit => PagesInv
<1> SUFFICES ASSUME PagesInit PROVE PagesInv
  OBVIOUS
<1> DEFINE c == [k \in Keys |-> Empty]
<1>1. /\ boot \in People /\ status = "loading" /\ user = NoUser /\ page \in Pages
      /\ exists = {<<"job", 1>>, <<"contract", 1>>} /\ mine = {} /\ pending = NoRequest
      /\ cache = mount(c, showing("loading", NoUser, page, c), NoUser, FALSE)
      /\ server = [k \in Keys |-> 0] /\ NoUser \in People
  BY DEF PagesInit, People
<1>2. c \in [Keys -> Query] /\ \A k \in Keys : c[k].step = "idle" /\ c[k].data = NoData
  BY DEF Empty, Query, People
<1> HIDE DEF c
<1>3. /\ cache \in [Keys -> Query]
      /\ \A k \in Keys : Kept(c[k], cache[k])
           \/ (AskedBy(c[k], cache[k], NoUser) /\ k \in showing("loading", NoUser, page, c))
  BY <1>1, <1>2, Mounts
<1>4. CacheFits(c, server, {}, NoUser, exists, NoRequest)
  BY <1>2 DEF CacheFits, Unasked, News, NewJob, NewContract, Keys
<1>5. CacheFits(cache, server, {}, NoUser, exists, NoRequest)
  <2>1. \A k \in News : k \in showing("loading", NoUser, page, c) => k \in exists
    BY <1>1, NewsOnPage, PagesExist
  <2>2. {} \in SUBSET Keys
    OBVIOUS
  <2> QED
    BY <1>3, <1>4, <2>1, <2>2, FitsMoved
<1>6. PagesTypeOK
  <2>1. exists \subseteq Additions
    BY <1>1 DEF Additions
  <2>2. boot \in People \union {"over"} /\ user \in People /\ status # "authenticated"
    BY <1>1
  <2>3. server \in [Keys -> Nat]
    BY <1>1
  <2> QED
    BY <1>1, <1>3, <2>1, <2>2, <2>3 DEF PagesTypeOK
<1> QED
  BY <1>1, <1>5, <1>6 DEF PagesInv

\* Every step keeps the invariant.
LEMMA PagesInductive == PagesInv /\ [PagesNext]_pageVars => PagesInv'
<1> SUFFICES ASSUME PagesInv, [PagesNext]_pageVars PROVE PagesInv'
  OBVIOUS
<1>1. CASE UNCHANGED pageVars
  <2>1. Pages' = Pages
    BY <1>1 DEF pageVars, Pages
  <2> QED
    BY <1>1, <2>1 DEF pageVars, auth, bounds, PagesInv, PagesTypeOK
<1> QED
  BY <1>1, ReadStep, RefuseStep, ArriveStep, GiveUpStep, NavigationSteps, FocusStep, SubmitStep,
     LostStep, AnsweredStep DEF PagesNext

\* Whoever has done something sees it done.
THEOREM ActionsAreSeen == PagesSpec => []ActedPageIsCurrent
<1>1. PagesInv => ActedPageIsCurrent
  BY DEF PagesInv, PagesTypeOK, CacheFits, Settles, ActedPageIsCurrent, idle
<1> QED
  BY <1>1, PagesStart, PagesInductive, PTL DEF PagesSpec

=============================================================================
