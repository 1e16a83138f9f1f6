------------------------------ MODULE BidRaces ------------------------------
(***************************************************************************)
(* Marketplace with the memory of which jobs two requests worked on at     *)
(* once: the handlers decide on what they read before they write, and what *)
(* the routes promise of a job holds while its requests do not overlap,    *)
(* whatever happens to other jobs meanwhile.                               *)
(***************************************************************************)
EXTENDS Marketplace

VARIABLE raced   \* jobs on which two requests were under way at once

JobsRacing ==
  {j \in Jobs : \E r, s \in Handlers :
     r # s /\ JobOf(handler[r].bid) = j /\ JobOf(handler[s].bid) = j}

RacesInit == Init /\ raced = {}

RacesNext == Next /\ raced' = raced \union JobsRacing'

RacesSpec == RacesInit /\ [][RacesNext]_<<vars, raced>>

-----------------------------------------------------------------------------

\* A job becomes one contract: accepting a proposal rejects its rivals, and a
\* rejected proposal is not accepted.
OneContractUnlessRaced ==
  \A b, o \in contracts : JobOf(b) = JobOf(o) /\ JobOf(b) \notin raced => b = o

\* Whoever is accepted or rejected stays so, in closed jobs and in open ones.
DecisionsStandUnlessRaced ==
  [][\A b \in Bids :
       JobOf(b) \notin raced' /\ proposal[b] \in {"ACCEPTED", "REJECTED"}
         => proposal'[b] = proposal[b]]_vars

\* With the contract, every other bid on its job is answered, and none comes later.
NoBidLeftPending ==
  \A b \in contracts : JobOf(b) \notin raced =>
    \A o \in BidsOn(JobOf(b)) : proposal[o] # "PENDING"

=============================================================================
