---------------------------- MODULE ProfilesProofs ----------------------------
(***************************************************************************)
(* What holds of accounts, profiles and pictures for any number of people, *)
(* requests and failures.  An account's facts rest on what a request has   *)
(* read and nobody can take back: a state or token that is gone, a user    *)
(* who exists.  A picture's rest on its path: it is the profile's from     *)
(* exactly one update on, and once replaced it never comes back.           *)
(***************************************************************************)
EXTENDS Profiles, FiniteSetTheorems, TLAPS

-----------------------------------------------------------------------------
(* Accounts *)

editOps == {"avatar", "remove", "patch"}

Ops == {"none", "register", "login", "start", "callback", "send", "verify"} \union editOps

Steps == {"unsent", "hashing", "entered", "failed", "done", "exchange", "unlinked", "known",
          "unknown", "found", "deleted", "asked", "read", "updated", "answered"}

State == [live : BOOLEAN, who : People \union {Nobody}, role : Roles \union {"none"}]
Mail == [live : BOOLEAN, who : People \union {Nobody}]
Request == [op : Ops, step : Steps, who : People \union {Nobody}, role : Roles \union {"none"},
            key : OAuthStates \union Tokens \union {Nobody}]
User == [role : Roles \union {"none"}, password : BOOLEAN, linked : BOOLEAN, verified : BOOLEAN]

\* The types of what AccountTypeOK leaves open.
FullTypes ==
  /\ pending \in [OAuthStates -> State]
  /\ token \in [Tokens -> Mail]
  /\ request \in [Requests -> Request]

\* What a request carries is what it was made with, and what it has found stays so.
RequestFits(r) ==
  /\ request[r].op = "none" => request[r] = Unsent
  /\ request[r].step = "unsent" => request[r].op = "none"
  /\ request[r].step = "entered" => request[r].op \in {"register", "login", "callback"}
  /\ request[r].op = "register" => request[r].who \in People /\ request[r].role \in Roles
  /\ request[r].op = "callback" =>
       /\ request[r].key \in OAuthStates
       /\ request[r].who \in People /\ request[r].role \in Roles
       /\ pending[request[r].key].who # Nobody /\ ~pending[request[r].key].live
       /\ request[r].step = "known" => exists(request[r].who)
  /\ request[r].op = "verify" =>
       /\ request[r].key \in Tokens /\ request[r].who \in People
       /\ token[request[r].key].who = request[r].who
       /\ request[r].step = "deleted" => ~token[request[r].key].live
  /\ request[r].op \in editOps => request[r].who \in People

AccountsFit ==
  /\ \A p \in People : exists(p) => account[p].role \in Roles
  /\ \A s \in OAuthStates : pending[s].who # Nobody => pending[s].role \in Roles
  /\ \A t \in Tokens : token[t].who # Nobody => exists(token[t].who)
  /\ \A r \in Requests : RequestFits(r)

\* The callbacks a state has under way; one at most, and none once it minted a session
\* or while the state has not been taken.
activeFor(s) == {r \in Requests : /\ request[r].op = "callback" /\ request[r].key = s
                                  /\ request[r].step \notin {"done", "failed"}}

OneCallback ==
  \A s \in OAuthStates :
    /\ \/ activeFor(s) = {} /\ minted[s] \in {0, 1}
       \/ \E r \in Requests : activeFor(s) = {r} /\ minted[s] = 0
    /\ pending[s].live \/ pending[s].who = Nobody => activeFor(s) = {} /\ minted[s] = 0

AccountsInd ==
  /\ AccountTypeOK /\ FullTypes /\ AccountsFit
  /\ OneCallback /\ EveryAccountHasAKey /\ UsedTokenVerifies

\* An account is made once, and what it is entered with is only ever added to.
Stands ==
  \A p \in People : exists(p) =>
    /\ account'[p].role = account[p].role
    /\ account[p].password => account'[p].password
    /\ account[p].linked => account'[p].linked
    /\ account[p].verified => account'[p].verified

\* A request takes a step, or is made.
LEMMA Moved ==
  ASSUME request \in [Requests -> Request], NEW r \in Requests, NEW step \in Steps, To(r, step)
  PROVE  /\ request' \in [Requests -> Request]
         /\ \A q \in Requests \ {r} : request'[q] = request[q]
         /\ request'[r].op = request[r].op /\ request'[r].who = request[r].who
         /\ request'[r].role = request[r].role /\ request'[r].key = request[r].key
         /\ request'[r].step = step
  BY DEF To, Request

\* A request that is made is what was asked, and the others are as they were.
LEMMA Made ==
  ASSUME request \in [Requests -> Request], NEW r \in Requests,
         NEW op \in Ops, NEW step \in Steps, NEW p \in People \union {Nobody},
         NEW role \in Roles \union {"none"}, NEW key \in OAuthStates \union Tokens \union {Nobody},
         request' = [request EXCEPT ![r] = Ask(op, step, p, role, key)]
  PROVE  /\ request' \in [Requests -> Request]
         /\ \A q \in Requests \ {r} : request'[q] = request[q]
         /\ request'[r].op = op /\ request'[r].who = p /\ request'[r].role = role
         /\ request'[r].key = key /\ request'[r].step = step
  BY DEF Ask, Request

\* What a step does to accounts: it makes one with a way in, or adds to one.
LEMMA AccountsGrow ==
  ASSUME AccountsInd, AccountsNext
  PROVE  /\ Stands
         /\ \A p \in People : exists(p)' =>
              /\ account'[p].role \in Roles
              /\ exists(p) \/ account'[p].password \/ account'[p].linked
<1> DEFINE Grow == /\ Stands
                   /\ \A p \in People : exists(p)' =>
                        /\ account'[p].role \in Roles
                        /\ exists(p) \/ account'[p].password \/ account'[p].linked
<1> USE AccountsAssumption DEF AccountsInd, AccountTypeOK, Stands
<1>1. \A p \in People : exists(p) => account[p].role \in Roles
  BY DEF AccountsFit
<1>2. CASE UNCHANGED account
  BY <1>1, <1>2 DEF exists
<1>3. ASSUME NEW p \in People, account[p] = NoAccount,
             NEW role \in Roles, NEW password \in BOOLEAN,
             account' = [account EXCEPT ![p] = created(role, password)]
      PROVE  Grow
  BY <1>1, <1>3 DEF exists, created
<1>4. ASSUME NEW p \in People, exists(p),
             /\ account'[p].role = account[p].role /\ account'[p].verified
             /\ account[p].password => account'[p].password
             /\ account[p].linked => account'[p].linked,
             \A q \in People \ {p} : account'[q] = account[q]
      PROVE  Grow
  BY <1>1, <1>4 DEF exists
<1>5. ASSUME NEW r \in Requests, RegisterCreate(r) PROVE Grow
  <2>1. request[r].who \in People /\ request[r].role \in Roles
    BY <1>5 DEF RegisterCreate, At, AccountsFit, RequestFits
  <2> QED
    BY <1>2, <1>3, <1>5, <2>1 DEF RegisterCreate, exists
<1>6. ASSUME NEW r \in Requests, LinkOrCreate(r) PROVE Grow
  <2>1. /\ request[r].who \in People /\ request[r].role \in Roles
        /\ request[r].step = "known" => exists(request[r].who)
    BY <1>6 DEF LinkOrCreate, AccountsFit, RequestFits
  <2>2. CASE UNCHANGED account
    BY <1>2, <2>2
  <2>3. CASE request[r].step = "known" /\ account' =
               [account EXCEPT ![request[r].who] = link(@, request[r].role)]
    BY <1>4, <2>1, <2>3 DEF link
  <2>4. CASE ~exists(request[r].who) /\ account' =
               [account EXCEPT ![request[r].who] = created(request[r].role, FALSE)]
    BY <1>3, <2>1, <2>4 DEF exists
  <2> QED
    BY <1>6, <2>2, <2>3, <2>4 DEF LinkOrCreate
<1>7. ASSUME NEW r \in Requests, VerifyUpdate(r) PROVE Grow
  <2>1. request[r].who \in People /\ exists(request[r].who)
    <3>1. RequestFits(r) /\ request[r].op = "verify"
      BY <1>7 DEF VerifyUpdate, At, AccountsFit
    <3> QED
      BY <3>1 DEF RequestFits, AccountsFit
  <2> QED
    BY <1>4, <1>7, <2>1 DEF VerifyUpdate
<1> QED
  BY <1>2, <1>5, <1>6, <1>7 DEF AccountsNext, verifyCredentials, registerUser, buildGoogleAuthUrl,
     CallbackTake, requestVerification, VerifyGet, FindLink, FindByEmail, IssueSession, VerifyDel,
     AccountFails, fails, StateExpires, TokenExpires

\* What was written to Redis for a state or a token is read or dropped, never restored,
\* and users stay.
Onward ==
  /\ \A s \in OAuthStates : pending[s].who # Nobody =>
       /\ pending'[s].who = pending[s].who /\ pending'[s].role = pending[s].role
       /\ pending'[s].live => pending[s].live
  /\ \A t \in Tokens : token[t].who # Nobody =>
       token'[t].who = token[t].who /\ (token'[t].live => token[t].live)
  /\ \A p \in People : exists(p) => exists(p)'

\* What is kept in Redis for OAuth names users and roles there are, and a person keeps their
\* account.
LEMMA RedisStep ==
  ASSUME AccountsInd, AccountsNext
  PROVE  /\ pending' \in [OAuthStates -> State] /\ token' \in [Tokens -> Mail]
         /\ Onward
         /\ \A s \in OAuthStates : pending'[s].who # Nobody => pending'[s].role \in Roles
         /\ \A t \in Tokens : token'[t].who # Nobody => exists(token'[t].who)
<1> DEFINE Goal ==
      /\ pending' \in [OAuthStates -> State] /\ token' \in [Tokens -> Mail]
      /\ \A s \in OAuthStates : pending[s].who # Nobody =>
           /\ pending'[s].who = pending[s].who /\ pending'[s].role = pending[s].role
           /\ pending'[s].live => pending[s].live
      /\ \A t \in Tokens : token[t].who # Nobody =>
           token'[t].who = token[t].who /\ (token'[t].live => token[t].live)
      /\ \A s \in OAuthStates : pending'[s].who # Nobody => pending'[s].role \in Roles
      /\ \A t \in Tokens : token'[t].who # Nobody => exists(token'[t].who)
<1>1. \A p \in People : exists(p) => exists(p)'
  BY AccountsGrow DEF Stands, exists, NoAccount, Roles, AccountsInd, AccountsFit
<1> USE AccountsAssumption DEF AccountsInd, FullTypes, AccountsFit, State, Mail
<1>2. ASSUME UNCHANGED <<pending, token>> PROVE Goal
  BY <1>2
<1>3. ASSUME NEW s \in OAuthStates, UNCHANGED token, pending' = [pending EXCEPT ![s].live = FALSE]
      PROVE  Goal
  BY <1>3
<1>4. ASSUME NEW t \in Tokens, UNCHANGED pending, token' = [token EXCEPT ![t].live = FALSE]
      PROVE  Goal
  BY <1>4
<1>5. ASSUME NEW p \in People, NEW s \in OAuthStates, NEW role \in Roles, NEW r \in Requests,
             buildGoogleAuthUrl(p, role, s, r)
      PROVE  Goal
  BY <1>5 DEF buildGoogleAuthUrl
<1>6. ASSUME NEW p \in People, NEW t \in Tokens, NEW r \in Requests, requestVerification(p, t, r)
      PROVE  Goal
  BY <1>6 DEF requestVerification
<1>7. ASSUME NEW r \in Requests, VerifyDel(r) PROVE Goal
  <2>1. request[r].key \in Tokens
    BY <1>7 DEF VerifyDel, At, RequestFits
  <2> QED
    BY <1>4, <1>7, <2>1 DEF VerifyDel
<1>8. Goal
  BY <1>2, <1>3, <1>4, <1>5, <1>6, <1>7 DEF AccountsNext, verifyCredentials, registerUser,
     CallbackTake, taken, VerifyGet, RegisterCreate, FindLink, FindByEmail, LinkOrCreate,
     IssueSession, VerifyUpdate, AccountFails, fails, StateExpires, TokenExpires
<1> QED
  BY <1>1, <1>8 DEF Onward

\* A request that is left alone keeps what it carries.
LEMMA FitsStill ==
  ASSUME AccountsInd, Onward, NEW r \in Requests, RequestFits(r), request'[r] = request[r]
  PROVE  RequestFits(r)'
BY AccountsAssumption DEF Onward, RequestFits, AccountsInd, FullTypes, Request

\* So does one that takes a step, when the step is one of its own.
LEMMA FitsMoved ==
  ASSUME AccountsInd, Onward, NEW r \in Requests, NEW step \in Steps, RequestFits(r), To(r, step),
         request[r].op # "none", step # "unsent",
         step = "entered" => request[r].op \in {"register", "login", "callback"},
         request[r].op = "callback" /\ step = "known" => exists(request[r].who),
         request[r].op = "verify" /\ step = "deleted" => ~token'[request[r].key].live
  PROVE  \A q \in Requests : RequestFits(q)'
<1>0. /\ request'[r].op = request[r].op /\ request'[r].who = request[r].who
      /\ request'[r].role = request[r].role /\ request'[r].key = request[r].key
      /\ request'[r].step = step
  BY Moved DEF AccountsInd, FullTypes
<1>1. RequestFits(r)'
  BY <1>0, AccountsAssumption DEF Onward, RequestFits, editOps
<1>2. \A q \in Requests \ {r} : RequestFits(q)'
  BY Moved, FitsStill DEF AccountsInd, FullTypes, AccountsFit
<1> QED
  BY <1>1, <1>2

\* A request that is made carries what it was made with.
LEMMA FitsMade ==
  ASSUME AccountsInd, Onward, NEW r \in Requests,
         NEW op \in Ops \ {"none"}, NEW step \in Steps \ {"unsent", "entered", "known", "deleted"},
         NEW p \in People, NEW role \in Roles \union {"none"},
         NEW key \in OAuthStates \union Tokens \union {Nobody},
         request' = [request EXCEPT ![r] = Ask(op, step, p, role, key)],
         op = "register" => role \in Roles,
         op = "callback" => key \in OAuthStates /\ role \in Roles
                            /\ pending'[key].who # Nobody /\ ~pending'[key].live,
         op = "verify" => key \in Tokens /\ token'[key].who = p
  PROVE  request' \in [Requests -> Request] /\ \A q \in Requests : RequestFits(q)'
<1>1. /\ request' \in [Requests -> Request]
      /\ \A q \in Requests \ {r} : request'[q] = request[q]
      /\ request'[r].op = op /\ request'[r].who = p /\ request'[r].role = role
      /\ request'[r].key = key /\ request'[r].step = step
  BY DEF AccountsInd, FullTypes, Ask, Request
<1>2. RequestFits(r)'
  BY <1>1 DEF RequestFits, editOps
<1>3. \A q \in Requests \ {r} : RequestFits(q)'
  BY <1>1, FitsStill DEF AccountsInd, AccountsFit
<1> QED
  BY <1>1, <1>2, <1>3

\* Requests go on with what they were made with, and find what is there.
LEMMA RequestsStep ==
  ASSUME AccountsInd, AccountsNext
  PROVE  request' \in [Requests -> Request] /\ \A q \in Requests : RequestFits(q)'
<1> DEFINE Goal == request' \in [Requests -> Request] /\ \A q \in Requests : RequestFits(q)'
<1> SUFFICES Goal
  OBVIOUS
<1>0. /\ Onward
      /\ \A s \in OAuthStates : pending[s].who # Nobody => pending[s].role \in Roles
      /\ \A r \in Requests : RequestFits(r)
      /\ pending \in [OAuthStates -> State] /\ token \in [Tokens -> Mail]
      /\ request \in [Requests -> Request]
  BY RedisStep DEF AccountsInd, AccountsFit, FullTypes
<1>a. ASSUME NEW r \in Requests, NEW step \in Steps \ {"unsent", "entered", "known", "deleted"},
             request[r].op # "none", To(r, step)
      PROVE  Goal
  BY <1>0, <1>a, Moved, FitsMoved
<1>b. ASSUME NEW r \in Requests, request[r].op \in {"register", "callback"}, To(r, "entered")
      PROVE  Goal
  BY <1>0, <1>b, Moved, FitsMoved DEF Steps
<1> USE DEF Ops, Steps
<1>1. ASSUME NEW p \in People, NEW r \in Requests, verifyCredentials(p, r) PROVE Goal
  <2>1. /\ \A q \in Requests \ {r} : request'[q] = request[q]
        /\ request' \in [Requests -> Request]
        /\ request'[r].op = "login" /\ request'[r].step \in {"entered", "failed"}
    <3> DEFINE step == IF account[p].password THEN "entered" ELSE "failed"
    <3>1. /\ step \in {"entered", "failed"} /\ step \in Steps /\ "login" \in Ops
          /\ request' = [request EXCEPT ![r] = Ask("login", step, p, "none", Nobody)]
      BY <1>1 DEF verifyCredentials
    <3> HIDE DEF step
    <3> QED
      BY <1>0, <3>1, Made
  <2>2. RequestFits(r)'
    BY <2>1 DEF RequestFits, editOps
  <2> QED
    BY <1>0, <2>1, <2>2, FitsStill
<1>2. ASSUME NEW p \in People, NEW r \in Requests, NEW role \in Roles, registerUser(p, role, r)
      PROVE  Goal
  <2> DEFINE step == IF exists(p) THEN "failed" ELSE "hashing"
  <2>1. /\ step \in Steps \ {"unsent", "entered", "known", "deleted"}
        /\ request' = [request EXCEPT ![r] = Ask("register", step, p, role, Nobody)]
    BY <1>2 DEF registerUser
  <2> HIDE DEF step
  <2> QED
    BY <1>0, <2>1, FitsMade
<1>3. ASSUME NEW p \in People, NEW s \in OAuthStates, NEW role \in Roles, NEW r \in Requests,
             buildGoogleAuthUrl(p, role, s, r)
      PROVE  Goal
  BY <1>0, <1>3, FitsMade DEF buildGoogleAuthUrl
<1>4. ASSUME NEW s \in OAuthStates, NEW r \in Requests, CallbackTake(s, r) PROVE Goal
  <2> DEFINE step == IF pending[s].live THEN "exchange" ELSE "failed"
             p == pending[s].who
             role == pending[s].role
  <2>1. /\ step \in Steps \ {"unsent", "entered", "known", "deleted"}
        /\ p \in People /\ role \in Roles
        /\ request' = [request EXCEPT ![r] = Ask("callback", step, p, role, s)]
    BY <1>0, <1>4 DEF CallbackTake, State
  <2>2. pending'[s].who # Nobody /\ ~pending'[s].live
    BY <1>0, <1>4 DEF CallbackTake, taken, State
  <2> HIDE DEF step, p, role
  <2> QED
    BY <1>0, <2>1, <2>2, FitsMade
<1>5. ASSUME NEW p \in People, NEW t \in Tokens, NEW r \in Requests, requestVerification(p, t, r)
      PROVE  Goal
  <2>1. /\ "send" \in Ops \ {"none"} /\ "done" \in Steps \ {"unsent", "entered", "known", "deleted"}
        /\ request' = [request EXCEPT ![r] = Ask("send", "done", p, "none", t)]
        /\ t \in OAuthStates \union Tokens \union {Nobody} /\ "none" \in Roles \union {"none"}
    BY <1>5 DEF requestVerification
  <2> QED
    BY <1>0, <2>1, FitsMade
<1>6. ASSUME NEW t \in Tokens, NEW r \in Requests, VerifyGet(t, r) PROVE Goal
  <2> DEFINE step == IF token[t].live THEN "found" ELSE "failed"
             p == token[t].who
  <2>1. /\ step \in Steps \ {"unsent", "entered", "known", "deleted"} /\ p \in People
        /\ request' = [request EXCEPT ![r] = Ask("verify", step, p, "none", t)]
        /\ token'[t].who = p
        /\ "verify" \in Ops \ {"none"}
        /\ t \in OAuthStates \union Tokens \union {Nobody} /\ "none" \in Roles \union {"none"}
    BY <1>0, <1>6 DEF VerifyGet, Mail
  <2> HIDE DEF step, p
  <2> QED
    BY <1>0, <2>1, FitsMade
<1>7. ASSUME NEW r \in Requests, RegisterCreate(r) PROVE Goal
  BY <1>a, <1>b, <1>7 DEF RegisterCreate, At
<1>8. ASSUME NEW r \in Requests, FindLink(r) PROVE Goal
  <2>1. request[r].op = "callback" /\ (To(r, "entered") \/ To(r, "unlinked"))
    BY <1>8 DEF FindLink, At
  <2> QED
    BY <1>a, <1>b, <2>1
<1>9. ASSUME NEW r \in Requests, FindByEmail(r) PROVE Goal
  <2>1. /\ request[r].op = "callback"
        /\ (exists(request[r].who) /\ To(r, "known")) \/ To(r, "unknown")
    BY <1>9 DEF FindByEmail, At
  <2> QED
    BY <1>0, <1>a, <2>1, Moved, FitsMoved
<1>10. ASSUME NEW r \in Requests, LinkOrCreate(r) PROVE Goal
  BY <1>a, <1>b, <1>10 DEF LinkOrCreate
<1>11. ASSUME NEW r \in Requests, IssueSession(r) PROVE Goal
  BY <1>0, <1>a, <1>11 DEF IssueSession, RequestFits
<1>12. ASSUME NEW r \in Requests, VerifyDel(r) PROVE Goal
  <2>1. ~token'[request[r].key].live /\ To(r, "deleted") /\ request[r].op = "verify"
    <3>1. To(r, "deleted") /\ request[r].op = "verify"
      BY <1>12 DEF VerifyDel, At
    <3>2. request[r].key \in Tokens
      BY <1>0, <3>1 DEF RequestFits
    <3>3. ~token'[request[r].key].live
      BY <1>0, <1>12, <3>2 DEF VerifyDel, Mail
    <3> QED
      BY <3>1, <3>3
  <2> QED
    BY <1>0, <2>1, Moved, FitsMoved
<1>13. ASSUME NEW r \in Requests, VerifyUpdate(r) PROVE Goal
  BY <1>a, <1>13 DEF VerifyUpdate, At
<1>14. ASSUME NEW r \in Requests, AccountFails(r) PROVE Goal
  BY <1>a, <1>14 DEF AccountFails, fails
<1>15. ASSUME UNCHANGED request PROVE Goal
  BY <1>0, <1>15, FitsStill
<1> QED
  BY <1>1, <1>2, <1>3, <1>4, <1>5, <1>6, <1>7, <1>8, <1>9, <1>10, <1>11, <1>12, <1>13, <1>14,
     <1>15 DEF AccountsNext, StateExpires, TokenExpires

\* Accounts, counts and the lists of what failed keep their types.
LEMMA AccountTypes ==
  ASSUME AccountsInd, AccountsNext
  PROVE  /\ account' \in [People -> User] /\ minted' \in [OAuthStates -> Nat]
         /\ dropped' \subseteq Tokens /\ failures' \in 0..MaxFailures
<1> USE AccountsAssumption DEF AccountsInd, AccountTypeOK
<1>0. account \in [People -> User] /\ \A r \in Requests : RequestFits(r)
  BY DEF User, AccountsFit
<1>a. ASSUME NEW role \in Roles PROVE created(role, TRUE) \in User /\ created(role, FALSE) \in User
  BY DEF created, User
<1>b. ASSUME NEW p \in People, NEW u \in User PROVE [account EXCEPT ![p] = u] \in [People -> User]
  BY <1>0
<1>c. \A role \in Roles, u \in User : link(u, role) \in User
  BY DEF link, User
<1>1. account' \in [People -> User]
  <2>1. ASSUME NEW r \in Requests, RegisterCreate(r) PROVE account' \in [People -> User]
    <3>1. request[r].role \in Roles /\ request[r].who \in People
      BY <1>0, <2>1 DEF RegisterCreate, At, RequestFits
    <3> QED
      BY <1>0, <1>a, <1>b, <2>1, <3>1 DEF RegisterCreate
  <2>2. ASSUME NEW r \in Requests, LinkOrCreate(r) PROVE account' \in [People -> User]
    <3>1. /\ request[r].role \in Roles /\ request[r].who \in People
          /\ account[request[r].who] \in User
      BY <1>0, <2>2 DEF LinkOrCreate, RequestFits
    <3>2. /\ link(account[request[r].who], request[r].role) \in User
          /\ created(request[r].role, FALSE) \in User
      BY <1>a, <1>c, <3>1
    <3> HIDE DEF AccountsInd
    <3> QED
      BY <1>0, <1>b, <2>2, <3>1, <3>2 DEF LinkOrCreate
  <2>3. ASSUME NEW r \in Requests, VerifyUpdate(r) PROVE account' \in [People -> User]
    BY <1>0, <2>3 DEF VerifyUpdate, User
  <2> QED
    BY <1>0, <2>1, <2>2, <2>3 DEF AccountsNext, verifyCredentials, registerUser, buildGoogleAuthUrl,
       CallbackTake, requestVerification, VerifyGet, FindLink, FindByEmail, IssueSession, VerifyDel,
       AccountFails, fails, StateExpires, TokenExpires
<1>2. minted' \in [OAuthStates -> Nat]
  <2>1. ASSUME NEW r \in Requests, IssueSession(r) PROVE minted' \in [OAuthStates -> Nat]
    <3>1. request[r].op = "callback" => request[r].key \in OAuthStates
      BY <1>0 DEF RequestFits
    <3>2. minted \in [OAuthStates -> Nat]
      OBVIOUS
    <3> QED
      BY <2>1, <3>1, <3>2 DEF IssueSession
  <2> QED
    BY <2>1 DEF AccountsNext, verifyCredentials, registerUser, buildGoogleAuthUrl, CallbackTake,
       requestVerification, VerifyGet, RegisterCreate, FindLink, FindByEmail, LinkOrCreate,
       VerifyDel, VerifyUpdate, AccountFails, fails, StateExpires, TokenExpires
<1>3. dropped' \subseteq Tokens /\ failures' \in 0..MaxFailures
  <2>1. ASSUME NEW r \in Requests, fails(r)
        PROVE  dropped' \subseteq Tokens /\ failures' \in 0..MaxFailures
    <3>1. At(r, "verify", "deleted") => request[r].key \in Tokens
      BY <1>0 DEF At, RequestFits
    <3> QED
      BY <2>1, <3>1 DEF fails
  <2> QED
    BY <2>1 DEF AccountsNext, verifyCredentials, registerUser, buildGoogleAuthUrl, CallbackTake,
       requestVerification, VerifyGet, RegisterCreate, FindLink, FindByEmail, LinkOrCreate,
       IssueSession, VerifyDel, VerifyUpdate, AccountFails, StateExpires, TokenExpires
<1> QED
  BY <1>1, <1>2, <1>3

\* A state leads to one callback that goes on, and that to one session.
LEMMA CallbacksStep == ASSUME AccountsInd, AccountsNext PROVE OneCallback'
<1> USE DEF AccountsInd, FullTypes
<1>0. /\ Onward /\ OneCallback /\ minted \in [OAuthStates -> Nat]
      /\ request \in [Requests -> Request] /\ \A r \in Requests : RequestFits(r)
  BY RedisStep DEF AccountTypeOK, AccountsFit
<1>a. \A s \in OAuthStates : pending'[s].live \/ pending'[s].who = Nobody
        => pending[s].live \/ pending[s].who = Nobody
  BY <1>0 DEF Onward
<1>b. ASSUME UNCHANGED minted,
             \A r \in Requests, s \in OAuthStates : r \in activeFor(s)' => r \in activeFor(s)
      PROVE  OneCallback'
  <2>1. \A s \in OAuthStates : activeFor(s)' \subseteq activeFor(s)
    BY <1>b DEF activeFor
  <2> QED
    BY <1>0, <1>a, <1>b, <2>1 DEF OneCallback
<1>c. ASSUME NEW r \in Requests, NEW step \in Steps, UNCHANGED minted, To(r, step),
             request[r].step \notin {"done", "failed"}
      PROVE  OneCallback'
  BY <1>0, <1>b, <1>c, Moved DEF activeFor
<1>d. ASSUME NEW r \in Requests, request'[r].op # "callback",
             \A q \in Requests \ {r} : request'[q] = request[q], UNCHANGED minted
      PROVE  OneCallback'
  BY <1>b, <1>d DEF activeFor
<1> USE DEF Steps
<1>1. ASSUME NEW s \in OAuthStates, NEW r \in Requests, CallbackTake(s, r) PROVE OneCallback'
  <2>1. /\ request'[r].op = "callback" /\ request'[r].key = s /\ UNCHANGED minted
        /\ request'[r].step = IF pending[s].live THEN "exchange" ELSE "failed"
        /\ \A q \in Requests \ {r} : request'[q] = request[q]
        /\ request[r].op = "none"
    BY <1>0, <1>1 DEF CallbackTake, Ask, Unsent, Request
  <2>2. /\ pending[s].live => activeFor(s)' = activeFor(s) \union {r}
        /\ ~pending[s].live => activeFor(s)' = activeFor(s)
        /\ \A t \in OAuthStates \ {s} : activeFor(t)' = activeFor(t)
    BY <2>1 DEF activeFor
  <2>3. pending[s].who # Nobody /\ pending'[s].who # Nobody /\ ~pending'[s].live
    BY <1>0, <1>1 DEF CallbackTake, taken, State
  <2> QED
    BY <1>0, <1>a, <2>1, <2>2, <2>3 DEF OneCallback
<1>2. ASSUME NEW r \in Requests, IssueSession(r) PROVE OneCallback'
  <2>1. CASE request[r].op # "callback"
    BY <1>c, <1>2, <2>1 DEF IssueSession
  <2>2. CASE request[r].op = "callback"
    <3>0. PICK s \in OAuthStates : s = request[r].key
      BY <1>0, <2>2 DEF RequestFits
    <3>1. /\ r \in activeFor(s)
          /\ minted' = [minted EXCEPT ![s] = @ + 1] /\ To(r, "done")
      BY <1>0, <1>2, <2>2, <3>0 DEF IssueSession, activeFor
    <3>2. activeFor(s) = {r} /\ minted[s] = 0
      BY <1>0, <3>1 DEF OneCallback
    <3>3. /\ activeFor(s)' = activeFor(s) \ {r}
          /\ \A t \in OAuthStates \ {s} : activeFor(t)' = activeFor(t)
      BY <1>0, <3>0, <3>1, Moved DEF activeFor
    <3>4. ~(pending[s].live \/ pending[s].who = Nobody)
      BY <1>0, <3>1, <3>2 DEF OneCallback
    <3>5. /\ activeFor(s)' = {} /\ minted'[s] \in {0, 1}
          /\ ~(pending'[s].live \/ pending'[s].who = Nobody)
      BY <1>0, <1>a, <3>1, <3>2, <3>3, <3>4
    <3>6. \A t \in OAuthStates \ {s} : activeFor(t)' = activeFor(t) /\ minted'[t] = minted[t]
      BY <1>0, <3>1, <3>3
    <3> QED
      BY <1>0, <1>a, <3>5, <3>6 DEF OneCallback
  <2> QED
    BY <2>1, <2>2
<1>3. \A r \in Requests : RegisterCreate(r) \/ FindLink(r) \/ FindByEmail(r) => OneCallback'
  BY <1>c DEF RegisterCreate, FindLink, FindByEmail, At
<1>4. \A r \in Requests : LinkOrCreate(r) \/ VerifyDel(r) \/ VerifyUpdate(r) => OneCallback'
  BY <1>c DEF LinkOrCreate, VerifyDel, VerifyUpdate, At
<1>5. \A r \in Requests : AccountFails(r) => OneCallback'
  BY <1>c DEF AccountFails, fails
<1>6. ASSUME NEW p \in People, NEW r \in Requests, verifyCredentials(p, r) PROVE OneCallback'
  BY <1>0, <1>d, <1>6 DEF verifyCredentials, Ask
<1>7. ASSUME NEW p \in People, NEW r \in Requests, NEW role \in Roles, registerUser(p, role, r)
      PROVE  OneCallback'
  BY <1>0, <1>d, <1>7 DEF registerUser, Ask
<1>8. ASSUME NEW p \in People, NEW s \in OAuthStates, NEW role \in Roles, NEW r \in Requests,
             buildGoogleAuthUrl(p, role, s, r)
      PROVE  OneCallback'
  BY <1>0, <1>d, <1>8 DEF buildGoogleAuthUrl, Ask
<1>9. ASSUME NEW p \in People, NEW t \in Tokens, NEW r \in Requests, requestVerification(p, t, r)
      PROVE  OneCallback'
  BY <1>0, <1>d, <1>9 DEF requestVerification, Ask
<1>10. ASSUME NEW t \in Tokens, NEW r \in Requests, VerifyGet(t, r) PROVE OneCallback'
  BY <1>0, <1>d, <1>10 DEF VerifyGet, Ask
<1>11. ASSUME UNCHANGED <<request, minted>> PROVE OneCallback'
  BY <1>b, <1>11 DEF activeFor
<1> QED
  BY <1>1, <1>2, <1>3, <1>4, <1>5, <1>6, <1>7, <1>8, <1>9, <1>10, <1>11
     DEF AccountsNext, StateExpires, TokenExpires

\* A token is used up by a request that goes on to verify its account.
LEMMA VerificationStep == ASSUME AccountsInd, AccountsNext PROVE UsedTokenVerifies'
<1> DEFINE verifying(t) == \E r \in Requests : At(r, "verify", "deleted") /\ request[r].key = t
<1>0. /\ Onward /\ Stands /\ UsedTokenVerifies
      /\ request \in [Requests -> Request] /\ token \in [Tokens -> Mail]
      /\ \A r \in Requests : RequestFits(r)
      /\ \A t \in Tokens : token[t].who # Nobody => token[t].who \in People /\ exists(token[t].who)
  BY RedisStep, AccountsGrow DEF AccountsInd, AccountsFit, FullTypes, Mail
<1>1. ASSUME NEW t \in Tokens, token[t].who # Nobody,
             t \in dropped' \/ account[token[t].who].verified \/ verifying(t)'
      PROVE  ~token'[t].live /\ t \notin dropped' =>
               account'[token'[t].who].verified \/ verifying(t)'
  BY <1>0, <1>1 DEF Onward, Stands
<1>2. ASSUME UNCHANGED token, dropped \subseteq dropped',
             \A t \in Tokens : token[t].who # Nobody /\ ~token[t].live /\ verifying(t) =>
               verifying(t)' \/ t \in dropped' \/ account'[token[t].who].verified
      PROVE  UsedTokenVerifies'
  <2>1. ASSUME NEW t \in Tokens, token[t].who # Nobody, ~token[t].live, t \notin dropped'
        PROVE  account'[token[t].who].verified \/ verifying(t)'
    <3>1. account[token[t].who].verified \/ verifying(t)
      BY <1>0, <1>2, <2>1 DEF UsedTokenVerifies
    <3> QED
      BY <1>0, <1>2, <2>1, <3>1 DEF Stands
  <2> QED
    BY <1>2, <2>1 DEF UsedTokenVerifies
<1>3. ASSUME NEW r \in Requests, \A q \in Requests \ {r} : request'[q] = request[q],
             ~At(r, "verify", "deleted"), UNCHANGED token, dropped \subseteq dropped'
      PROVE  UsedTokenVerifies'
  BY <1>2, <1>3 DEF At
<1>4. ASSUME NEW r \in Requests, NEW step \in Steps, To(r, step), UNCHANGED token,
             ~At(r, "verify", "deleted"), dropped \subseteq dropped'
      PROVE  UsedTokenVerifies'
  BY <1>0, <1>3, <1>4, Moved
<1> USE DEF Steps
<1>5. ASSUME NEW r \in Requests, VerifyDel(r) PROVE UsedTokenVerifies'
  <2>1. /\ At(r, "verify", "found") /\ To(r, "deleted") /\ UNCHANGED dropped
        /\ request[r].key \in Tokens
        /\ token' = [token EXCEPT ![request[r].key].live = FALSE]
    BY <1>0, <1>5 DEF VerifyDel, At, RequestFits
  <2>2. /\ request'[r].op = "verify" /\ request'[r].step = "deleted"
        /\ request'[r].key = request[r].key
        /\ \A q \in Requests \ {r} : request'[q] = request[q]
    BY <1>0, <2>1, Moved DEF At
  <2>3. verifying(request[r].key)'
    BY <2>2 DEF At
  <2>4. \A t \in Tokens : verifying(t) => verifying(t)'
    BY <2>1, <2>2 DEF At
  <2>5. ASSUME NEW t \in Tokens, token'[t].who # Nobody, ~token'[t].live, t \notin dropped'
        PROVE  account'[token'[t].who].verified \/ verifying(t)'
    <3>1. CASE t = request[r].key
      BY <2>2, <3>1 DEF At
    <3>2. CASE t # request[r].key
      <4>1. token'[t] = token[t] /\ t \notin dropped
        BY <1>0, <2>1, <2>5, <3>2
      <4>2. account[token[t].who].verified \/ verifying(t)
        BY <1>0, <2>5, <4>1 DEF UsedTokenVerifies
      <4> QED
        BY <1>0, <2>4, <2>5, <4>1, <4>2 DEF Stands
    <3> QED
      BY <3>1, <3>2
  <2> QED
    BY <2>5 DEF UsedTokenVerifies
<1>6. ASSUME NEW r \in Requests, VerifyUpdate(r) PROVE UsedTokenVerifies'
  <2>1. /\ request[r].who \in People /\ account'[request[r].who].verified
        /\ token[request[r].key].who = request[r].who
        /\ \A q \in Requests \ {r} : request'[q] = request[q]
        /\ UNCHANGED <<token, dropped>>
    <3>1. /\ At(r, "verify", "deleted") /\ To(r, "done") /\ UNCHANGED <<token, dropped>>
          /\ account' = [account EXCEPT ![request[r].who].verified = TRUE]
      BY <1>6 DEF VerifyUpdate
    <3>2. request[r].who \in People /\ token[request[r].key].who = request[r].who
      BY <1>0, <3>1 DEF At, RequestFits
    <3>3. account \in [People -> User]
      BY DEF AccountsInd, AccountTypeOK, User
    <3> QED
      BY <1>0, <3>1, <3>2, <3>3, Moved DEF User
  <2>2. ASSUME NEW t \in Tokens, token[t].who # Nobody, ~token[t].live, verifying(t)
        PROVE  verifying(t)' \/ account'[token[t].who].verified
    BY <2>1, <2>2 DEF At
  <2> QED
    BY <1>2, <2>1, <2>2
<1>7. ASSUME NEW r \in Requests, AccountFails(r) PROVE UsedTokenVerifies'
  <2>1. /\ \A q \in Requests \ {r} : request'[q] = request[q]
        /\ UNCHANGED token /\ dropped \subseteq dropped'
        /\ At(r, "verify", "deleted") => request[r].key \in dropped'
    BY <1>0, <1>7, Moved DEF AccountFails, fails
  <2> QED
    BY <1>2, <2>1 DEF At
<1>8. ASSUME NEW r \in Requests, RegisterCreate(r) \/ FindLink(r) \/ FindByEmail(r)
      PROVE  UsedTokenVerifies'
  BY <1>4, <1>8 DEF RegisterCreate, FindLink, FindByEmail, At
<1>9. ASSUME NEW r \in Requests, LinkOrCreate(r) \/ IssueSession(r) PROVE UsedTokenVerifies'
  BY <1>4, <1>9 DEF LinkOrCreate, IssueSession, At
<1>10. ASSUME NEW p \in People, NEW r \in Requests, verifyCredentials(p, r) PROVE UsedTokenVerifies'
  BY <1>0, <1>3, <1>10 DEF verifyCredentials, At, Unsent
<1>11. ASSUME NEW p \in People, NEW r \in Requests, NEW role \in Roles, registerUser(p, role, r)
       PROVE  UsedTokenVerifies'
  <2>1. /\ request[r] = Unsent /\ \A q \in Requests \ {r} : request'[q] = request[q]
        /\ UNCHANGED <<token, dropped>>
    BY <1>0, <1>11 DEF registerUser
  <2> QED
    BY <1>3, <2>1 DEF At, Unsent
<1>12. ASSUME NEW p \in People, NEW s \in OAuthStates, NEW role \in Roles, NEW r \in Requests,
              buildGoogleAuthUrl(p, role, s, r)
       PROVE  UsedTokenVerifies'
  BY <1>0, <1>3, <1>12 DEF buildGoogleAuthUrl, At, Unsent
<1>13. ASSUME NEW s \in OAuthStates, NEW r \in Requests, CallbackTake(s, r) PROVE UsedTokenVerifies'
  BY <1>0, <1>3, <1>13 DEF CallbackTake, At, Unsent
<1>14. ASSUME NEW t \in Tokens, NEW r \in Requests, VerifyGet(t, r) PROVE UsedTokenVerifies'
  BY <1>0, <1>3, <1>14 DEF VerifyGet, At, Unsent
<1>15. ASSUME NEW p \in People, NEW t \in Tokens, NEW r \in Requests, requestVerification(p, t, r)
       PROVE  UsedTokenVerifies'
  <2>1. /\ \A u \in Tokens \ {t} : token'[u] = token[u]
        /\ token'[t].live /\ UNCHANGED <<account, dropped>>
        /\ \A u \in Tokens : verifying(u) => verifying(u)'
    BY <1>0, <1>15 DEF requestVerification, At, Unsent
  <2> QED
    BY <1>0, <2>1 DEF UsedTokenVerifies
<1>16. ASSUME NEW t \in Tokens, TokenExpires(t) PROVE UsedTokenVerifies'
  <2>1. /\ \A u \in Tokens \ {t} : token'[u] = token[u]
        /\ UNCHANGED <<account, request>> /\ dropped' = dropped \union {t}
    BY <1>0, <1>16 DEF TokenExpires
  <2> QED
    BY <1>0, <2>1 DEF UsedTokenVerifies, At
<1>17. ASSUME NEW s \in OAuthStates, StateExpires(s) PROVE UsedTokenVerifies'
  BY <1>0, <1>17 DEF StateExpires, UsedTokenVerifies, At
<1> QED
  BY <1>5, <1>6, <1>7, <1>8, <1>9, <1>10, <1>11, <1>12, <1>13, <1>14, <1>15, <1>16, <1>17
     DEF AccountsNext

\* The steps of the account handlers keep all of it.
LEMMA AccountsStep == ASSUME AccountsInd, AccountsNext PROVE AccountsInd'
<1>1. AccountTypeOK' /\ FullTypes'
  <2>1. FullTypes'
    BY RedisStep, RequestsStep DEF FullTypes
  <2> QED
    BY <2>1, AccountTypes DEF AccountTypeOK, FullTypes, State, Mail, User
<1>2. AccountsFit'
  <2>1. \A t \in Tokens : token'[t].who # Nobody => exists(token[t].who)'
    BY <1>1, RedisStep DEF Onward, FullTypes, Mail, exists
  <2> QED
    BY <2>1, AccountsGrow, RedisStep, RequestsStep DEF AccountsFit
<1>3. EveryAccountHasAKey'
  BY AccountsGrow DEF EveryAccountHasAKey, Stands, AccountsInd
<1> QED
  BY <1>1, <1>2, <1>3, CallbacksStep, VerificationStep DEF AccountsInd

-----------------------------------------------------------------------------
(* Profiles and pictures *)

Files == Requests \union Pictures
Paths == Files \union {NoFile}

\* The edits that gave their profile a new updatedAt.
updatedBy(p) == {r \in edits : request[r].who = p /\ edit[r].dto # 0}

\* A version is an edit that was made, and edits are bounded.
Counted ==
  /\ IsFiniteSet(edits) /\ Cardinality(edits) <= MaxEdits
  /\ \A p \in People : version[p] = Cardinality(updatedBy(p))
  /\ version \in [People -> Nat]

\* Where a profile request is tells what it has read and answered.
EditFits(r) ==
  /\ request[r].op \notin editOps => edit[r] = NoEdit
  /\ request[r].op \in editOps => edit[r].dto <= version[request[r].who]
  /\ request[r].op \in editOps /\ request[r].step \in {"asked", "read"} => edit[r].dto = 0
  /\ request[r].op = "patch" => request[r].step \in {"answered", "done", "failed"}
  /\ request[r].op = "avatar" /\ request[r].step \in {"asked", "read"} => r \in uploads

EditsFit ==
  /\ edit \in [Requests -> [seen : Paths, dto : Nat]]
  /\ shown \in [People -> Nat] /\ \A p \in People : shown[p] <= version[p]
  /\ \A r \in Requests : EditFits(r)

\* A file has been a profile's picture, or is one.
used(f) == f \in Requests => request[f].op = "avatar" /\ request[f].step \notin {"asked", "read"}

\* A picture belongs to one profile; what a request is to delete was its own profile's,
\* and is nobody's once the row was written.
PathsFit ==
  /\ avatar \in [People -> Paths] /\ uploads \subseteq Files /\ stray \subseteq Files
  /\ \A p \in People : avatar[p] # NoFile => used(avatar[p])
  /\ \A r \in Requests : edit[r].seen # NoFile => used(edit[r].seen)
  /\ \A p, q \in People : avatar[p] # NoFile /\ avatar[p] = avatar[q] => p = q
  /\ \A r \in Requests, p \in People :
       edit[r].seen # NoFile /\ (request[r].step = "updated" \/ p # request[r].who)
         => avatar[p] # edit[r].seen

\* What is cached, or about to be, under a profile's present URL is its picture, and
\* nothing is under a URL it has not had.
CacheFits ==
  /\ cache \in [People -> [Versions -> Paths]]
  /\ \A p \in People, v \in Versions :
       /\ v > version[p] => cache[p][v] = NoFile
       /\ v = version[p] => cache[p][v] \in {NoFile, avatar[p]}
  /\ loading # NotLoading =>
       /\ loading.who \in People /\ loading.path \in Paths
       /\ loading.url \in Nat /\ loading.url <= version[loading.who]
       /\ loading.url = version[loading.who] => loading.path = avatar[loading.who]

ProfilesInd == AccountsInd /\ Counted /\ EditsFit /\ PathsFit /\ AvatarFiles /\ CacheFits

\* The invariant holds initially.
LEMMA ProfilesStart == Init => ProfilesInd
<1> SUFFICES ASSUME Init PROVE ProfilesInd
  OBVIOUS
<1> USE AccountsAssumption, ProfilesAssumption
<1>0. /\ request = [r \in Requests |-> Unsent] /\ edits = {}
      /\ \A r \in Requests : request[r] = Unsent /\ edit[r] = NoEdit
      /\ edit = [r \in Requests |-> NoEdit]
  BY DEF Init, AccountsInit, ProfilesInit, edits, Unsent
<1>1. /\ account \in [People -> User]
      /\ \A p \in People : exists(p) =>
           account[p].role \in Roles /\ (account[p].password \/ account[p].linked)
  <2> DEFINE good(a) == a \in User /\ (a # NoAccount => a.role \in Roles /\ (a.password \/ a.linked))
  <2>1. good(NoAccount) /\ good(created("CLIENT", TRUE)) /\ good(created("FREELANCER", FALSE))
    BY DEF NoAccount, created, User, Roles
  <2> DEFINE Begun == {NoAccount, created("CLIENT", TRUE), created("FREELANCER", FALSE)}
  <2>2. \A a \in Begun : good(a)
    BY <2>1
  <2>3. account \in [People -> Begun]
    BY DEF Init, AccountsInit
  <2> HIDE DEF Begun
  <2> QED
    BY <2>2, <2>3 DEF exists
<1>2. AccountTypeOK /\ EveryAccountHasAKey /\ UsedTokenVerifies
  <2>1. /\ \A s \in OAuthStates : pending[s].who = Nobody
        /\ \A t \in Tokens : token[t].who = Nobody
        /\ minted = [s \in OAuthStates |-> 0] /\ dropped = {} /\ failures = 0
    BY DEF Init, AccountsInit
  <2>2. AccountTypeOK
    BY <1>1, <2>1 DEF AccountTypeOK, User
  <2>3. EveryAccountHasAKey /\ UsedTokenVerifies
    BY <1>1, <2>1 DEF EveryAccountHasAKey, UsedTokenVerifies
  <2> QED
    BY <2>2, <2>3
<1>3. FullTypes
  <2>1. Unsent \in Request
    BY DEF Unsent, Request, Ops, Steps
  <2> QED
    BY <1>0, <2>1 DEF Init, AccountsInit, FullTypes, State, Mail
<1>4. AccountsFit
  <2>1. \A r \in Requests : RequestFits(r)
    BY <1>0 DEF RequestFits, Unsent, editOps
  <2> QED
    BY <1>1, <2>1 DEF Init, AccountsInit, AccountsFit
<1>5. OneCallback
  BY <1>0 DEF Init, AccountsInit, OneCallback, activeFor, Unsent
<1>6. Counted
  <2>1. \A p \in People : updatedBy(p) = {}
    BY <1>0 DEF updatedBy
  <2>2. IsFiniteSet({}) /\ Cardinality({}) = 0
    BY FS_EmptySet
  <2> HIDE DEF Counted
  <2>3. version = [p \in People |-> 0]
    BY DEF Init, ProfilesInit
  <2> QED
    BY <1>0, <2>1, <2>2, <2>3 DEF Counted
<1>7. EditsFit
  BY <1>0 DEF Init, ProfilesInit, EditsFit, EditFits, NoEdit, Unsent, editOps, Paths
<1>8. PathsFit
  <2>1. /\ avatar \in [People -> Pictures \union {NoFile}] /\ stray = {}
        /\ uploads = {avatar[p] : p \in People} \ {NoFile}
        /\ \A p, q \in People : avatar[p] # NoFile => (avatar[q] = avatar[p] => q = p)
    BY DEF Init, ProfilesInit
  <2>3. \A r \in Requests : edit[r].seen = NoFile
    BY <1>0 DEF NoEdit
  <2>2. /\ avatar \in [People -> Paths] /\ uploads \subseteq Files /\ stray \subseteq Files
    BY <2>1 DEF Paths, Files
  <2> QED
    BY <2>1, <2>2, <2>3 DEF PathsFit, used
<1>9. AvatarFiles
  BY DEF Init, ProfilesInit, AvatarFiles
<1>10. CacheFits
  BY DEF Init, ProfilesInit, CacheFits, Versions, Paths, Files
<1> QED
  BY <1>2, <1>3, <1>4, <1>5, <1>6, <1>7, <1>8, <1>9, <1>10 DEF ProfilesInd, AccountsInd

\* The account handlers leave profile requests alone, and make none.
LEMMA EditsAlone ==
  ASSUME AccountsInd, AccountsNext
  PROVE  \A q \in Requests : \/ request'[q] = request[q]
                             \/ request[q].op \notin editOps /\ request'[q].op \notin editOps
<1> DEFINE alone(q) == \/ request'[q] = request[q]
                       \/ request[q].op \notin editOps /\ request'[q].op \notin editOps
           Goal == \A q \in Requests : alone(q)
<1>0. /\ request \in [Requests -> Request] /\ \A r \in Requests : RequestFits(r)
  BY DEF AccountsInd, AccountsFit, FullTypes
<1>a. ASSUME NEW r \in Requests, NEW step \in Steps, To(r, step), request[r].op \notin editOps
      PROVE  Goal
  <2>1. request'[r].op = request[r].op /\ \A q \in Requests \ {r} : request'[q] = request[q]
    BY <1>0, <1>a, Moved
  <2> QED
    BY <1>a, <2>1
<1>b. ASSUME NEW r \in Requests, \A q \in Requests \ {r} : request'[q] = request[q],
             request[r].op \notin editOps, request'[r].op \notin editOps
      PROVE  Goal
  BY <1>b
<1>c. ASSUME UNCHANGED request PROVE Goal
  BY <1>c
<1> HIDE DEF Goal
<1>1. ASSUME NEW p \in People, NEW r \in Requests, verifyCredentials(p, r) PROVE Goal
  BY <1>0, <1>b, <1>1 DEF verifyCredentials, Ask, Unsent, editOps
<1>2. ASSUME NEW p \in People, NEW r \in Requests, NEW role \in Roles, registerUser(p, role, r)
      PROVE  Goal
  <2>1. /\ request[r] = Unsent /\ request'[r].op = "register"
        /\ \A q \in Requests \ {r} : request'[q] = request[q]
    BY <1>0, <1>2 DEF registerUser, Ask
  <2> QED
    BY <1>b, <2>1 DEF Unsent, editOps
<1>3. ASSUME NEW p \in People, NEW s \in OAuthStates, NEW role \in Roles, NEW r \in Requests,
             buildGoogleAuthUrl(p, role, s, r)
      PROVE  Goal
  BY <1>0, <1>b, <1>3 DEF buildGoogleAuthUrl, Ask, Unsent, editOps
<1>4. ASSUME NEW s \in OAuthStates, NEW r \in Requests, CallbackTake(s, r) PROVE Goal
  BY <1>0, <1>b, <1>4 DEF CallbackTake, Ask, Unsent, editOps
<1>5. ASSUME NEW p \in People, NEW t \in Tokens, NEW r \in Requests, requestVerification(p, t, r)
      PROVE  Goal
  BY <1>0, <1>b, <1>5 DEF requestVerification, Ask, Unsent, editOps
<1>6. ASSUME NEW t \in Tokens, NEW r \in Requests, VerifyGet(t, r) PROVE Goal
  BY <1>0, <1>b, <1>6 DEF VerifyGet, Ask, Unsent, editOps
<1>7. \A r \in Requests : RegisterCreate(r) \/ FindLink(r) \/ FindByEmail(r) => Goal
  BY <1>a DEF RegisterCreate, FindLink, FindByEmail, At, Steps, editOps
<1>8. \A r \in Requests : LinkOrCreate(r) \/ VerifyDel(r) \/ VerifyUpdate(r) => Goal
  BY <1>a DEF LinkOrCreate, VerifyDel, VerifyUpdate, At, Steps, editOps
<1>9. \A r \in Requests : IssueSession(r) => Goal
  BY <1>0, <1>a DEF IssueSession, Steps, editOps, RequestFits
<1>10. \A r \in Requests : AccountFails(r) => Goal
  BY <1>a DEF AccountFails, fails, Steps, editOps
<1>11. Goal
  BY <1>c, <1>1, <1>2, <1>3, <1>4, <1>5, <1>6, <1>7, <1>8, <1>9, <1>10
     DEF AccountsNext, StateExpires, TokenExpires
<1> QED
  BY <1>11 DEF Goal

\* A profile request that is made or goes on touches nothing of the accounts.
LEMMA AccountsAlone ==
  ASSUME AccountsInd, NEW r \in Requests, UNCHANGED <<account, pending, token, minted, dropped>>,
         failures' \in 0..MaxFailures, request' \in [Requests -> Request],
         \A q \in Requests \ {r} : request'[q] = request[q],
         request[r].op \in editOps \union {"none"},
         request'[r].op \in editOps, request'[r].who \in People,
         request'[r].step \notin {"unsent", "entered"}
  PROVE  AccountsInd'
<1> USE DEF AccountsInd
<1>1. AccountTypeOK' /\ FullTypes' /\ EveryAccountHasAKey'
  BY DEF AccountTypeOK, FullTypes, EveryAccountHasAKey, exists
<1>2. AccountsFit'
  <2>1. RequestFits(r)'
    BY DEF RequestFits, editOps
  <2>2. Onward
    BY DEF Onward, exists
  <2> QED
    BY <2>1, <2>2, FitsStill DEF AccountsFit, exists
<1>3. OneCallback'
  <2>1. \A s \in OAuthStates : activeFor(s)' = activeFor(s)
    BY DEF activeFor, editOps
  <2> QED
    BY <2>1 DEF OneCallback
<1>4. UsedTokenVerifies'
  BY DEF UsedTokenVerifies, At, editOps
<1> QED
  BY <1>1, <1>2, <1>3, <1>4

\* What a request for a profile is when it is made.
LEMMA Asked ==
  ASSUME ProfilesInd, NEW p \in People, NEW r \in Requests,
         NEW op \in editOps, NEW step \in {"asked", "answered"}, ask(p, op, step, r)
  PROVE  /\ AccountsInd'
         /\ request[r].op = "none" /\ edit[r] = NoEdit
         /\ \A q \in Requests \ {r} : request'[q] = request[q]
         /\ request'[r].op = op /\ request'[r].step = step /\ request'[r].who = p
         /\ edits' = edits \union {r} /\ r \notin edits
         /\ IsFiniteSet(edits') /\ Cardinality(edits') <= MaxEdits
<1>1. /\ request' \in [Requests -> Request]
      /\ \A q \in Requests \ {r} : request'[q] = request[q]
      /\ request'[r].op = op /\ request'[r].who = p /\ request'[r].step = step
  <2>1. /\ request \in [Requests -> Request] /\ op \in Ops /\ step \in Steps
        /\ request' = [request EXCEPT ![r] = Ask(op, step, p, "none", Nobody)]
        /\ "none" \in Roles \union {"none"} /\ p \in People \union {Nobody}
        /\ Nobody \in OAuthStates \union Tokens \union {Nobody}
    BY DEF ProfilesInd, AccountsInd, FullTypes, ask, Ops, Steps, editOps
  <2> QED
    BY <2>1 DEF Ask, Request
<1>2. request[r].op = "none" /\ edit[r] = NoEdit
  BY DEF ask, Unsent, ProfilesInd, EditsFit, EditFits, editOps
<1>3. AccountsInd'
  BY <1>1, <1>2, AccountsAlone DEF ProfilesInd, ask, AccountsInd, AccountTypeOK
<1>4. edits' = edits \union {r} /\ r \notin edits
  BY <1>1, <1>2 DEF edits, editOps
<1>5. IsFiniteSet(edits') /\ Cardinality(edits') <= MaxEdits
  <2>1. /\ IsFiniteSet(edits) /\ Cardinality(edits) < MaxEdits /\ Cardinality(edits) \in Nat
        /\ MaxEdits \in Nat
    BY FS_CardinalityType, ProfilesAssumption DEF ProfilesInd, Counted, ask
  <2>2. IsFiniteSet(edits \union {r}) /\ Cardinality(edits \union {r}) = Cardinality(edits) + 1
    BY <1>4, <2>1, FS_AddElement
  <2> QED
    BY <1>4, <2>1, <2>2
<1> QED
  BY <1>1, <1>2, <1>3, <1>4, <1>5

\* And when it goes on, or fails.
LEMMA WentOn ==
  ASSUME ProfilesInd, NEW r \in Requests, request[r].op \in editOps,
         NEW to \in Steps \ {"unsent", "entered"}, To(r, to),
         UNCHANGED <<account, pending, token, minted, dropped>>, failures' \in 0..MaxFailures
  PROVE  /\ AccountsInd'
         /\ \A q \in Requests \ {r} : request'[q] = request[q]
         /\ request'[r].op = request[r].op /\ request'[r].step = to
         /\ request'[r].who = request[r].who /\ request[r].who \in People
         /\ edits' = edits
<1>1. /\ request' \in [Requests -> Request]
      /\ \A q \in Requests \ {r} : request'[q] = request[q]
      /\ request'[r].op = request[r].op /\ request'[r].who = request[r].who
      /\ request'[r].step = to
  BY Moved DEF ProfilesInd, AccountsInd, FullTypes
<1>2. request[r].who \in People
  BY DEF ProfilesInd, AccountsInd, AccountsFit, RequestFits
<1>3. AccountsInd'
  BY <1>1, <1>2, AccountsAlone DEF ProfilesInd
<1>4. edits' = edits
  BY <1>1 DEF edits
<1> QED
  BY <1>1, <1>2, <1>3, <1>4

\* There are no more versions than edits.
LEMMA VersionsCounted ==
  ASSUME ProfilesInd, NEW p \in People
  PROVE  version[p] \in Versions
<1>1. updatedBy(p) \in SUBSET edits
  BY DEF updatedBy
<1>2. version[p] \in Nat /\ version[p] <= Cardinality(edits)
  BY <1>1, FS_Subset DEF ProfilesInd, Counted
<1>3. Cardinality(edits) \in Nat /\ Cardinality(edits) <= MaxEdits
  BY FS_CardinalityType DEF ProfilesInd, Counted
<1> QED
  BY <1>2, <1>3, ProfilesAssumption DEF Versions

\* No update of a row, no new version.
LEMMA CountStill ==
  ASSUME Counted, UNCHANGED version, IsFiniteSet(edits'), Cardinality(edits') <= MaxEdits,
         \A q \in Requests : \/ request'[q] = request[q] /\ edit'[q].dto = edit[q].dto
                             \/ request[q].op \notin editOps /\ edit'[q].dto = 0
                             \/ /\ request'[q].op = request[q].op /\ request'[q].who = request[q].who
                                /\ edit'[q].dto = edit[q].dto
                             \/ request[q].op \notin editOps /\ request'[q].op \notin editOps
  PROVE  Counted'
<1>1. \A p \in People : updatedBy(p)' = updatedBy(p)
  BY DEF updatedBy, edits, editOps
<1> QED
  BY <1>1 DEF Counted

\* An update of a row is one more, and the only one of its request.
LEMMA CountOne ==
  ASSUME Counted, NEW p \in People, NEW r \in Requests, updated(p, r),
         edit \in [Requests -> [seen : Paths, dto : Nat]],
         IsFiniteSet(edits'), Cardinality(edits') <= MaxEdits,
         \A q \in Requests \ {r} : request'[q] = request[q],
         request'[r].op \in editOps, request'[r].who = p,
         r \in edits => edit[r].dto = 0
  PROVE  Counted' /\ version'[p] = version[p] + 1 /\ version'[p] \in Versions
<1>1. /\ version'[p] = version[p] + 1 /\ version[p] \in Nat
      /\ \A q \in People \ {p} : version'[q] = version[q]
      /\ version' \in [People -> Nat]
  BY DEF Counted, updated
<1>2. edit'[r].dto # 0 /\ \A q \in Requests \ {r} : edit'[q] = edit[q]
  BY <1>1 DEF updated
<1>3. /\ updatedBy(p)' = updatedBy(p) \union {r} /\ r \notin updatedBy(p)
      /\ \A q \in People \ {p} : updatedBy(q)' = updatedBy(q)
  BY <1>2 DEF updatedBy, edits, editOps
<1>4. IsFiniteSet(updatedBy(p)) /\ Cardinality(updatedBy(p)) = version[p]
  <2>1. updatedBy(p) \in SUBSET edits
    BY DEF updatedBy
  <2> QED
    BY <2>1, FS_Subset DEF Counted
<1>5. Cardinality(updatedBy(p)') = version'[p]
  <2>1. PICK before : before = updatedBy(p)
    OBVIOUS
  <2>2. Cardinality(before \union {r}) = Cardinality(before) + 1
    BY <1>3, <1>4, <2>1, FS_AddElement
  <2> QED
    BY <1>1, <1>3, <1>4, <2>1, <2>2
<1>6. version'[p] <= MaxEdits
  <2>1. updatedBy(p)' \in SUBSET (edits')
    BY DEF updatedBy
  <2>2. Cardinality(updatedBy(p)') <= Cardinality(edits')
    BY <2>1, FS_Subset
  <2>3. Cardinality(edits') \in Nat
    BY FS_CardinalityType
  <2> QED
    BY <1>1, <1>5, <2>2, <2>3, ProfilesAssumption
<1>7. \A q \in People : version'[q] = Cardinality(updatedBy(q)')
  BY <1>1, <1>3, <1>5 DEF Counted
<1>8. Counted'
  BY <1>1, <1>7 DEF Counted
<1> QED
  BY <1>1, <1>6, <1>8, ProfilesAssumption DEF Versions

\* What rows, files and profile requests are stays when none of them does anything.
LEMMA ProfilesAlone ==
  ASSUME ProfilesInd, UNCHANGED <<avatar, version, uploads, edit, stray>>,
         \A q \in Requests : \/ request'[q] = request[q]
                             \/ request[q].op \notin editOps /\ request'[q].op \notin editOps
  PROVE  Counted' /\ PathsFit' /\ AvatarFiles' /\ (\A r \in Requests : EditFits(r)')
<1> USE DEF ProfilesInd
<1>1. Counted'
  <2>1. edits' = edits
    BY DEF edits, editOps
  <2> QED
    BY <2>1, CountStill DEF Counted
<1>2. \A r \in Requests : request[r].op \notin editOps => edit[r].seen = NoFile
  BY DEF EditsFit, EditFits, NoEdit
<1>3. PathsFit'
  <2>1. \A f : used(f) => used(f)'
    BY DEF used, editOps
  <2> QED
    BY <1>2, <2>1 DEF PathsFit
<1>4. AvatarFiles'
  <2>1. \A f \in Files : handled(f) => handled(f)'
    BY <1>2, ProfilesAssumption DEF handled, editOps, Files
  <2> QED
    BY <2>1 DEF AvatarFiles, PathsFit
<1>5. \A r \in Requests : EditFits(r)'
  BY DEF EditsFit, EditFits, editOps
<1> QED
  BY <1>1, <1>3, <1>4, <1>5

\* The browser shows and keeps what the rows and files are, or were.
LEMMA BrowserStep ==
  ASSUME ProfilesInd, (\E p \in People : getMe(p) \/ loadImage(p)) \/ sendFile
  PROVE  ProfilesInd'
<1> USE DEF ProfilesInd
<1>1. /\ UNCHANGED <<accountVars, avatar, version, uploads, edit, stray>>
  BY DEF getMe, loadImage, sendFile
<1>2. AccountsInd'
  BY <1>1 DEF accountVars, AccountsInd, AccountTypeOK, FullTypes, AccountsFit, RequestFits, exists,
     OneCallback, activeFor, EveryAccountHasAKey, UsedTokenVerifies, At
<1>3. Counted' /\ PathsFit' /\ AvatarFiles' /\ (\A r \in Requests : EditFits(r)')
  BY <1>1, ProfilesAlone DEF accountVars
<1>4. version \in [People -> Nat] /\ shown \in [People -> Nat]
      /\ \A p \in People : shown[p] <= version[p]
  BY DEF Counted, EditsFit
<1>5. EditsFit'
  <2>1. shown' \in [People -> Nat] /\ \A p \in People : shown'[p] <= version[p]
    <3>1. CASE UNCHANGED shown
      BY <1>4, <3>1
    <3>2. ASSUME NEW p \in People, shown' = [shown EXCEPT ![p] = version[p]]
          PROVE  shown' \in [People -> Nat] /\ \A q \in People : shown'[q] <= version[q]
      BY <1>4, <3>2
    <3> QED
      BY <3>1, <3>2 DEF getMe, loadImage, sendFile
  <2> QED
    BY <1>1, <1>3, <2>1 DEF EditsFit
<1>6. CacheFits'
  <2>1. ASSUME NEW p \in People, getMe(p) PROVE CacheFits'
    BY <2>1 DEF getMe, CacheFits
  <2>2. ASSUME NEW p \in People, loadImage(p) PROVE CacheFits'
    <3>1. /\ loading' = [who |-> p, url |-> shown[p], path |-> avatar[p]] /\ UNCHANGED cache
      BY <2>2 DEF loadImage, avatarUrlFor
    <3>2. loading'.who = p /\ loading'.url = shown[p] /\ loading'.path = avatar[p]
      BY <3>1
    <3>3. avatar[p] \in Paths
      BY DEF PathsFit
    <3> QED
      BY <1>1, <1>4, <3>1, <3>2, <3>3 DEF CacheFits
  <2>3. ASSUME sendFile PROVE CacheFits'
    <3>1. /\ loading # NotLoading /\ loading' = NotLoading
          /\ \/ UNCHANGED cache
             \/ cache' = [cache EXCEPT ![loading.who][loading.url] = loading.path]
      BY <2>3 DEF sendFile
    <3>2. /\ loading.who \in People /\ loading.path \in Paths
          /\ loading.url \in Nat /\ loading.url <= version[loading.who]
          /\ loading.url = version[loading.who] => loading.path = avatar[loading.who]
      BY <3>1 DEF CacheFits
    <3>3. cache' \in [People -> [Versions -> Paths]]
      BY <3>1, <3>2 DEF CacheFits
    <3>4. \A p \in People, v \in Versions :
            cache'[p][v] = cache[p][v] \/ (p = loading.who /\ v = loading.url /\ cache'[p][v] = loading.path)
      BY <3>1, <3>2 DEF CacheFits
    <3>5. ASSUME NEW p \in People, NEW v \in Versions
          PROVE  /\ v > version[p] => cache'[p][v] = NoFile
                 /\ v = version[p] => cache'[p][v] \in {NoFile, avatar[p]}
      <4>1. /\ v > version[p] => cache[p][v] = NoFile
            /\ v = version[p] => cache[p][v] \in {NoFile, avatar[p]}
        BY DEF CacheFits
      <4>2. CASE cache'[p][v] = cache[p][v]
        BY <4>1, <4>2
      <4>3. CASE p = loading.who /\ v = loading.url /\ cache'[p][v] = loading.path
        BY <1>4, <3>2, <4>3
      <4> QED
        BY <3>4, <4>2, <4>3
    <3> QED
      BY <1>1, <3>1, <3>3, <3>5 DEF CacheFits
  <2> QED
    BY <2>1, <2>2, <2>3
<1> QED
  BY <1>2, <1>3, <1>5, <1>6

\* The account handlers change nothing of profiles.
LEMMA AccountsBeside ==
  ASSUME ProfilesInd, AccountsNext, UNCHANGED profileVars
  PROVE  ProfilesInd'
<1>1. AccountsInd'
  BY AccountsStep DEF ProfilesInd
<1>2. UNCHANGED <<avatar, version, uploads, edit, stray, shown, loading, cache>>
  BY DEF profileVars
<1>3. Counted' /\ PathsFit' /\ AvatarFiles' /\ (\A r \in Requests : EditFits(r)')
  BY <1>2, EditsAlone, ProfilesAlone DEF ProfilesInd
<1>4. EditsFit' /\ CacheFits'
  BY <1>2, <1>3 DEF ProfilesInd, EditsFit, CacheFits
<1> QED
  BY <1>1, <1>3, <1>4 DEF ProfilesInd

\* A request that another one passes by stays where it is.
LEMMA OthersFit ==
  ASSUME ProfilesInd, NEW r \in Requests,
         \A q \in Requests \ {r} : request'[q] = request[q] /\ edit'[q] = edit[q],
         version' \in [People -> Nat], \A p \in People : version[p] <= version'[p],
         \A q \in Requests \ {r} : q \in uploads /\ ~used(q) => q \in uploads'
  PROVE  \A q \in Requests \ {r} : EditFits(q)'
<1> SUFFICES ASSUME NEW q \in Requests \ {r} PROVE EditFits(q)'
  OBVIOUS
<1>1. EditFits(q) /\ version \in [People -> Nat] /\ edit[q].dto \in Nat
  BY DEF ProfilesInd, EditsFit, Counted
<1>2. request[q].op \in editOps => request[q].who \in People
  BY DEF ProfilesInd, AccountsInd, AccountsFit, RequestFits
<1>3. request'[q] = request[q] /\ edit'[q] = edit[q]
  OBVIOUS
<1>4. request[q].op \in editOps => edit'[q].dto <= version'[request[q].who]
  BY <1>1, <1>2, <1>3 DEF EditFits
<1> QED
  BY <1>1, <1>3, <1>4 DEF EditFits, used

\* PUT /me/avatar, DELETE /me/avatar: the request arrives.
LEMMA UploadStep ==
  ASSUME ProfilesInd, NEW p \in People, NEW r \in Requests, avatarUpload(p, r) \/ remove(p, r)
  PROVE  ProfilesInd'
<1> DEFINE op == IF avatarUpload(p, r) THEN "avatar" ELSE "remove"
<1>0. /\ op \in editOps /\ op # "patch" /\ ask(p, op, "asked", r)
      /\ op = "avatar" => uploads' = uploads \union {r}
      /\ op # "avatar" => uploads' = uploads
      /\ UNCHANGED <<avatar, version, edit, shown, loading, cache, stray>>
  BY DEF avatarUpload, remove, editOps, profileVars
<1> HIDE DEF op
<1>1. /\ AccountsInd' /\ request[r].op = "none" /\ edit[r] = NoEdit
      /\ \A q \in Requests \ {r} : request'[q] = request[q]
      /\ request'[r].op = op /\ request'[r].step = "asked" /\ request'[r].who = p
      /\ IsFiniteSet(edits') /\ Cardinality(edits') <= MaxEdits
  BY <1>0, Asked
<1>2. ProfilesInd /\ Counted /\ EditsFit /\ PathsFit /\ AvatarFiles /\ CacheFits
  BY DEF ProfilesInd
<1>3. Counted'
  BY <1>0, <1>1, <1>2, CountStill DEF NoEdit, editOps
<1>4. EditsFit'
  <2>1. version \in [People -> Nat]
    BY <1>2 DEF Counted
  <2>2. \A q \in Requests \ {r} : EditFits(q)'
    BY <1>0, <1>1, <2>1, OthersFit
  <2>3. EditFits(r)'
    BY <1>0, <1>1, <2>1 DEF EditFits, NoEdit, editOps
  <2> QED
    BY <1>0, <1>2, <2>2, <2>3 DEF EditsFit
<1>5. PathsFit'
  <2>1. \A f : used(f) => used(f)'
    BY <1>1 DEF used
  <2>2. edit'[r].seen = NoFile /\ edit' = edit /\ avatar' = avatar /\ stray' = stray
    BY <1>0, <1>1 DEF NoEdit
  <2>3. uploads' \subseteq Files
    BY <1>0, <1>2 DEF PathsFit, Files
  <2> QED
    BY <1>1, <1>2, <2>1, <2>2, <2>3 DEF PathsFit
<1>6. AvatarFiles'
  <2>1. \A f \in uploads : handled(f) => handled(f)'
    BY <1>0, <1>1, <1>2, ProfilesAssumption DEF handled, NoEdit, PathsFit, Files
  <2>2. op = "avatar" => handled(r)'
    BY <1>1 DEF handled
  <2> QED
    BY <1>0, <1>2, <2>1, <2>2 DEF AvatarFiles
<1>7. CacheFits'
  BY <1>0, <1>2 DEF CacheFits
<1> QED
  BY <1>1, <1>3, <1>4, <1>5, <1>6, <1>7 DEF ProfilesInd

\* PATCH /me: one more version, the picture as it was.
LEMMA UpdateStep ==
  ASSUME ProfilesInd, NEW p \in People, NEW r \in Requests, updateProfile(p, r)
  PROVE  ProfilesInd'
<1>0. /\ ask(p, "patch", "answered", r) /\ updated(p, r) /\ "patch" \in editOps
      /\ UNCHANGED <<avatar, uploads, shown, loading, cache, stray>>
  BY DEF updateProfile, editOps
<1>1. /\ AccountsInd' /\ request[r].op = "none" /\ edit[r] = NoEdit
      /\ \A q \in Requests \ {r} : request'[q] = request[q]
      /\ request'[r].op = "patch" /\ request'[r].step = "answered" /\ request'[r].who = p
      /\ r \notin edits /\ IsFiniteSet(edits') /\ Cardinality(edits') <= MaxEdits
  BY <1>0, Asked
<1>2. /\ ProfilesInd /\ Counted /\ EditsFit /\ PathsFit /\ AvatarFiles /\ CacheFits
      /\ version \in [People -> Nat] /\ edit \in [Requests -> [seen : Paths, dto : Nat]]
  BY DEF ProfilesInd, Counted, EditsFit
<1>3. Counted' /\ version'[p] = version[p] + 1 /\ version'[p] \in Versions
  BY <1>0, <1>1, <1>2, CountOne
<1>4. /\ version' \in [People -> Nat] /\ \A q \in People : version[q] <= version'[q]
      /\ edit' \in [Requests -> [seen : Paths, dto : Nat]]
      /\ edit'[r].dto = version'[p] /\ edit'[r].seen = NoFile
      /\ \A q \in Requests \ {r} : edit'[q] = edit[q]
      /\ \A q \in People \ {p} : version'[q] = version[q]
  BY <1>0, <1>1, <1>2 DEF updated, NoEdit
<1>5. EditsFit'
  <2>1. \A q \in Requests \ {r} : EditFits(q)'
    BY <1>0, <1>1, <1>4, OthersFit
  <2>2. EditFits(r)'
    BY <1>1, <1>4 DEF EditFits, editOps
  <2>3. \A q \in People : shown'[q] <= version'[q]
    BY <1>0, <1>2, <1>4 DEF EditsFit
  <2> QED
    BY <1>0, <1>2, <1>4, <2>1, <2>2, <2>3 DEF EditsFit
<1>6. PathsFit'
  <2>1. \A f : used(f) => used(f)'
    BY <1>1 DEF used
  <2>2. avatar' = avatar /\ uploads' = uploads /\ stray' = stray
    BY <1>0
  <2> QED
    BY <1>1, <1>2, <1>4, <2>1, <2>2 DEF PathsFit
<1>7. AvatarFiles'
  <2>1. \A f \in uploads : handled(f) => handled(f)'
    BY <1>1, <1>2, <1>4, ProfilesAssumption DEF handled, NoEdit, PathsFit, Files
  <2> QED
    BY <1>0, <1>2, <2>1 DEF AvatarFiles
<1>8. CacheFits'
  <2>1. \A v \in Versions : v \in Nat
    BY ProfilesAssumption DEF Versions
  <2>2. UNCHANGED <<avatar, cache, loading>>
    BY <1>0
  <2>3. ASSUME NEW q \in People, NEW v \in Versions
        PROVE  /\ v > version'[q] => cache[q][v] = NoFile
               /\ v = version'[q] => cache[q][v] \in {NoFile, avatar[q]}
    BY <1>2, <1>3, <1>4, <2>1 DEF CacheFits
  <2>4. loading # NotLoading =>
          loading.url <= version'[loading.who] /\
          (loading.url = version'[loading.who] => loading.path = avatar[loading.who])
    BY <1>2, <1>3, <1>4 DEF CacheFits
  <2> QED
    BY <1>2, <2>2, <2>3, <2>4 DEF CacheFits
<1> QED
  BY <1>1, <1>3, <1>5, <1>6, <1>7, <1>8 DEF ProfilesInd

\* The picture to delete is read: the profile's own, which no other profile has.
LEMMA ReadStep ==
  ASSUME ProfilesInd, NEW r \in Requests, ReadExisting(r)
  PROVE  ProfilesInd'
<1> DEFINE p == request[r].who
<1>0. /\ request[r].op \in {"avatar", "remove"} /\ request[r].step = "asked" /\ To(r, "read")
      /\ UNCHANGED <<account, pending, token, minted, dropped, failures>>
      /\ edit' = [edit EXCEPT ![r].seen = avatar[p]]
      /\ UNCHANGED <<avatar, version, uploads, shown, loading, cache, stray>>
  BY DEF ReadExisting, next, At
<1>1. /\ AccountsInd' /\ edits' = edits
      /\ \A q \in Requests \ {r} : request'[q] = request[q]
      /\ request'[r].op = request[r].op /\ request'[r].step = "read" /\ request'[r].who = p
      /\ p \in People
  <2>1. failures' \in 0..MaxFailures /\ "read" \in Steps \ {"unsent", "entered"}
    BY <1>0 DEF ProfilesInd, AccountsInd, AccountTypeOK, Steps
  <2> QED
    BY <1>0, <2>1, WentOn DEF editOps
<1>2. /\ Counted /\ EditsFit /\ PathsFit /\ AvatarFiles /\ CacheFits
      /\ version \in [People -> Nat] /\ edit \in [Requests -> [seen : Paths, dto : Nat]]
      /\ avatar \in [People -> Paths]
  BY DEF ProfilesInd, Counted, EditsFit, PathsFit
<1>3. /\ edit' \in [Requests -> [seen : Paths, dto : Nat]]
      /\ edit'[r].dto = edit[r].dto /\ edit'[r].seen = avatar[p]
      /\ \A q \in Requests \ {r} : edit'[q] = edit[q]
  <2>1. p \in People /\ avatar[p] \in Paths
    BY <1>1, <1>2
  <2> HIDE DEF p
  <2> QED
    BY <1>0, <1>2, <2>1
<1> HIDE DEF p
<1>4. Counted'
  BY <1>0, <1>1, <1>2, <1>3, CountStill DEF Counted, p
<1>5. EditsFit'
  <2>1. \A q \in Requests \ {r} : EditFits(q)'
    BY <1>0, <1>1, <1>2, <1>3, OthersFit
  <2>2. EditFits(r)'
    BY <1>0, <1>1, <1>2, <1>3 DEF EditsFit, EditFits, editOps, p
  <2> QED
    BY <1>0, <1>2, <1>3, <2>1, <2>2 DEF EditsFit
<1>6. PathsFit'
  <2>1. \A f : used(f) => used(f)'
    BY <1>0, <1>1 DEF used
  <2>2. avatar' = avatar /\ uploads' = uploads /\ stray' = stray
    BY <1>0
  <2>3. \A q \in Requests : edit'[q].seen # NoFile => used(edit'[q].seen)
    BY <1>1, <1>2, <1>3 DEF PathsFit
  <2>4. \A q \in People : q # p /\ avatar[p] # NoFile => avatar[q] # avatar[p]
    BY <1>1, <1>2 DEF PathsFit
  <2>5. \A q \in Requests, o \in People :
          edit'[q].seen # NoFile /\ (request'[q].step = "updated" \/ o # request'[q].who)
            => avatar[o] # edit'[q].seen
    BY <1>1, <1>2, <1>3, <2>4 DEF PathsFit
  <2> QED
    BY <1>2, <2>1, <2>2, <2>3, <2>5 DEF PathsFit, used
<1>7. AvatarFiles'
  <2>1. \A f \in uploads : handled(f) => handled(f)'
    BY <1>0, <1>1, <1>3 DEF handled
  <2> QED
    BY <1>0, <1>2, <2>1 DEF AvatarFiles
<1>8. CacheFits'
  BY <1>0, <1>2 DEF CacheFits
<1> QED
  BY <1>1, <1>4, <1>5, <1>6, <1>7, <1>8 DEF ProfilesInd

\* The row is written: the new picture was nobody's, and the one to delete is now.
LEMMA SetStep ==
  ASSUME ProfilesInd, NEW r \in Requests, SetAvatar(r)
  PROVE  ProfilesInd'
<1>p. PICK p, new : /\ p = request[r].who
                    /\ new = IF request[r].op = "avatar" THEN r ELSE NoFile
  OBVIOUS
<1>0. /\ request[r].op \in {"avatar", "remove"} /\ request[r].step = "read" /\ To(r, "updated")
      /\ UNCHANGED <<account, pending, token, minted, dropped, failures>>
      /\ avatar' = [avatar EXCEPT ![p] = new] /\ updated(p, r)
      /\ stray' = IF avatar[p] \in {NoFile, edit[r].seen} THEN stray ELSE stray \union {avatar[p]}
      /\ UNCHANGED <<uploads, shown, loading, cache>>
  BY <1>p DEF SetAvatar, next, At
<1>1. /\ AccountsInd' /\ edits' = edits
      /\ \A q \in Requests \ {r} : request'[q] = request[q]
      /\ request'[r].op = request[r].op /\ request'[r].step = "updated" /\ request'[r].who = p
      /\ p \in People
  <2>1. failures' \in 0..MaxFailures /\ "updated" \in Steps \ {"unsent", "entered"}
    BY <1>0 DEF ProfilesInd, AccountsInd, AccountTypeOK, Steps
  <2> QED
    BY <1>p, <1>0, <2>1, WentOn DEF editOps
<1>2. /\ Counted /\ EditsFit /\ PathsFit /\ AvatarFiles /\ CacheFits
      /\ version \in [People -> Nat] /\ edit \in [Requests -> [seen : Paths, dto : Nat]]
      /\ avatar \in [People -> Paths] /\ edit[r].dto = 0
      /\ \A q \in Requests : EditFits(q)
  BY <1>0 DEF ProfilesInd, Counted, EditsFit, PathsFit, EditFits, editOps
<1>3. /\ new \in Paths /\ (new = NoFile \/ (new = r /\ request[r].op = "avatar"))
      /\ new # NoFile => new \in Requests /\ ~used(new) /\ new \in uploads
  <2>1. request[r].op = "avatar" => r \in uploads /\ ~used(r)
    BY <1>0, <1>2 DEF EditFits, used
  <2> QED
    BY <1>p, <2>1 DEF Paths, Files
<1>4. /\ avatar' \in [People -> Paths] /\ avatar'[p] = new
      /\ \A q \in People \ {p} : avatar'[q] = avatar[q]
  BY <1>0, <1>1, <1>2, <1>3
<1>5. Counted' /\ version'[p] = version[p] + 1 /\ version'[p] \in Versions
  <2>1. /\ IsFiniteSet(edits') /\ Cardinality(edits') <= MaxEdits /\ request'[r].op \in editOps
    BY <1>0, <1>1, <1>2 DEF Counted, editOps
  <2> QED
    BY <1>0, <1>1, <1>2, <2>1, CountOne
<1>6. /\ version' \in [People -> Nat] /\ \A q \in People : version[q] <= version'[q]
      /\ edit' \in [Requests -> [seen : Paths, dto : Nat]]
      /\ edit'[r].dto = version'[p] /\ edit'[r].seen = edit[r].seen
      /\ \A q \in Requests \ {r} : edit'[q] = edit[q]
      /\ \A q \in People \ {p} : version'[q] = version[q]
  BY <1>0, <1>1, <1>2 DEF updated
<1>7. EditsFit'
  <2>1. \A q \in Requests \ {r} : EditFits(q)'
    BY <1>0, <1>1, <1>6, OthersFit
  <2>2. EditFits(r)'
    BY <1>0, <1>1, <1>6 DEF EditFits, editOps
  <2>3. \A q \in People : shown'[q] <= version'[q]
    BY <1>0, <1>2, <1>6 DEF EditsFit
  <2> QED
    BY <1>0, <1>2, <1>6, <2>1, <2>2, <2>3 DEF EditsFit
<1>8. PathsFit'
  <2>1. \A f : used(f) => used(f)'
    BY <1>1 DEF used
  <2>2. new # NoFile => used(new)'
    BY <1>0, <1>1, <1>3 DEF used
  <2>3. uploads' \subseteq Files /\ stray' \subseteq Files
    BY <1>0, <1>1, <1>2 DEF PathsFit, Paths
  <2>4. \A q \in People : avatar[q] # NoFile => used(avatar[q])
    BY <1>2 DEF PathsFit
  <2>5. \A q \in Requests : edit'[q].seen = edit[q].seen
    BY <1>6
  <2>6. \A q \in Requests : edit[q].seen # NoFile => used(edit[q].seen)
    BY <1>2 DEF PathsFit
  <2>7. \A f : \A q \in People : avatar'[q] = f /\ f # NoFile => used(f)'
    BY <1>4, <2>1, <2>2, <2>4
  <2>8. \A q, o \in People : avatar'[q] # NoFile /\ avatar'[q] = avatar'[o] => q = o
    BY <1>1, <1>2, <1>3, <1>4, <2>4 DEF PathsFit
  <2>9. \A q \in Requests, o \in People :
          edit[q].seen # NoFile /\ (request'[q].step = "updated" \/ o # request'[q].who)
            => avatar'[o] # edit[q].seen
    <3>1. \A q \in Requests, o \in People :
            edit[q].seen # NoFile /\ (request[q].step = "updated" \/ o # request[q].who)
              => avatar[o] # edit[q].seen
      BY <1>2 DEF PathsFit
    <3>2. \A q \in Requests : edit[q].seen # NoFile => new # edit[q].seen
      BY <1>3, <2>6
    <3> QED
      BY <1>p, <1>0, <1>1, <1>4, <3>1, <3>2
  <2>10. \A f : \A q \in Requests : edit'[q].seen = f /\ f # NoFile => used(f)'
    BY <2>1, <2>5, <2>6
  <2> QED
    BY <1>4, <2>3, <2>5, <2>7, <2>8, <2>9, <2>10 DEF PathsFit, used
<1>9. AvatarFiles'
  <2>1. \A q \in People : avatar'[q] # NoFile => avatar'[q] \in uploads
    BY <1>1, <1>2, <1>3, <1>4 DEF AvatarFiles
  <2>2. ASSUME NEW f \in uploads
        PROVE  f \in stray' \/ handled(f)' \/ \E q \in People : avatar'[q] = f
    <3>0. f # NoFile
      BY <1>2, ProfilesAssumption DEF PathsFit, Files
    <3>1. CASE f \in stray
      BY <1>0, <3>1
    <3>2. CASE handled(f)
      <4>1. PICK q \in Requests : \/ q = f /\ request[q].op = "avatar" /\ request[q].step \in {"asked", "read"}
                                  \/ edit[q].seen = f /\ request[q].step = "updated"
        BY <3>2 DEF handled
      <4>2. CASE q = r
        <5>1. f = r /\ request[r].op = "avatar"
          BY <1>0, <4>1, <4>2
        <5> QED
          BY <1>p, <1>1, <1>4, <5>1
      <4>3. CASE q # r
        BY <1>1, <1>6, <4>1, <4>3 DEF handled
      <4> QED
        BY <4>2, <4>3
    <3>3. ASSUME NEW q \in People, avatar[q] = f PROVE f \in stray' \/ handled(f)' \/ avatar'[q] = f
      <4>1. CASE q = p
        BY <1>0, <1>1, <1>6, <3>0, <3>3, <4>1 DEF handled
      <4>2. CASE q # p
        BY <1>4, <3>3, <4>2
      <4> QED
        BY <4>1, <4>2
    <3> QED
      BY <1>2, <3>1, <3>2, <3>3 DEF AvatarFiles
  <2> QED
    BY <1>0, <2>1, <2>2 DEF AvatarFiles
<1>10. CacheFits'
  <2>1. \A v \in Versions : v \in Nat
    BY ProfilesAssumption DEF Versions
  <2>2. UNCHANGED <<cache, loading>>
    BY <1>0
  <2>3. ASSUME NEW q \in People, NEW v \in Versions
        PROVE  /\ v > version'[q] => cache[q][v] = NoFile
               /\ v = version'[q] => cache[q][v] \in {NoFile, avatar'[q]}
    <3>1. /\ v > version[q] => cache[q][v] = NoFile
          /\ v = version[q] => cache[q][v] \in {NoFile, avatar[q]}
      BY <1>2 DEF CacheFits
    <3>2. CASE q = p
      BY <1>1, <1>2, <1>5, <2>1, <3>1, <3>2
    <3>3. CASE q # p
      BY <1>4, <1>6, <3>1, <3>3
    <3> QED
      BY <3>2, <3>3
  <2>4. ASSUME loading # NotLoading
        PROVE  /\ loading.url <= version'[loading.who]
               /\ loading.url = version'[loading.who] => loading.path = avatar'[loading.who]
    <3>1. /\ loading.who \in People /\ loading.url \in Nat /\ loading.url <= version[loading.who]
          /\ loading.url = version[loading.who] => loading.path = avatar[loading.who]
      BY <1>2, <2>4 DEF CacheFits
    <3>2. CASE loading.who = p
      BY <1>1, <1>2, <1>5, <3>1, <3>2
    <3>3. CASE loading.who # p
      BY <1>4, <1>6, <3>1, <3>3
    <3> QED
      BY <3>2, <3>3
  <2> QED
    BY <1>2, <2>2, <2>3, <2>4 DEF CacheFits
<1> QED
  BY <1>1, <1>5, <1>7, <1>8, <1>9, <1>10 DEF ProfilesInd

\* The file goes: it is nobody's picture, and no upload is still to become one under its name.
LEMMA DeleteStep ==
  ASSUME ProfilesInd, NEW r \in Requests, deleteAvatarFile(r)
  PROVE  ProfilesInd'
<1>0. /\ request[r].op \in {"avatar", "remove"} /\ request[r].step = "updated" /\ To(r, "answered")
      /\ UNCHANGED <<account, pending, token, minted, dropped, failures>>
      /\ uploads' = uploads \ {edit[r].seen}
      /\ UNCHANGED <<avatar, version, edit, shown, loading, cache, stray>>
  BY DEF deleteAvatarFile, superseded, next, At
<1>1. /\ AccountsInd' /\ edits' = edits
      /\ \A q \in Requests \ {r} : request'[q] = request[q]
      /\ request'[r].op = request[r].op /\ request'[r].step = "answered"
      /\ request'[r].who = request[r].who
  <2>1. failures' \in 0..MaxFailures /\ "answered" \in Steps \ {"unsent", "entered"}
    BY <1>0 DEF ProfilesInd, AccountsInd, AccountTypeOK, Steps
  <2> QED
    BY <1>0, <2>1, WentOn DEF editOps
<1>2. /\ Counted /\ EditsFit /\ PathsFit /\ AvatarFiles /\ CacheFits
      /\ version \in [People -> Nat] /\ edit' = edit /\ EditFits(r)
      /\ \A q \in Requests : edit[q].seen # NoFile => used(edit[q].seen)
  BY <1>0 DEF ProfilesInd, Counted, EditsFit, PathsFit
<1>3. Counted'
  BY <1>0, <1>1, <1>2, CountStill DEF Counted
<1>4. EditsFit'
  <2>1. \A q \in Requests \ {r} : q \in uploads /\ ~used(q) => q \in uploads'
    BY <1>0, <1>2, ProfilesAssumption
  <2>2. \A q \in Requests \ {r} : EditFits(q)'
    BY <1>0, <1>1, <1>2, <2>1, OthersFit
  <2>3. EditFits(r)'
    BY <1>0, <1>1, <1>2 DEF EditFits, editOps
  <2> QED
    BY <1>0, <1>2, <2>2, <2>3 DEF EditsFit
<1>5. PathsFit'
  <2>1. \A f : used(f) => used(f)'
    BY <1>0, <1>1 DEF used
  <2>2. uploads' \subseteq Files /\ UNCHANGED <<avatar, stray, edit>>
    BY <1>0, <1>2 DEF PathsFit
  <2> QED
    BY <1>0, <1>1, <1>2, <2>1, <2>2 DEF PathsFit
<1>6. AvatarFiles'
  <2>1. \A q \in People : avatar[q] # NoFile => avatar[q] # edit[r].seen
    BY <1>0, <1>2 DEF PathsFit
  <2>2. \A f \in uploads' : handled(f) => handled(f)'
    BY <1>0, <1>1 DEF handled
  <2> QED
    BY <1>0, <1>2, <2>1, <2>2 DEF AvatarFiles
<1>7. CacheFits'
  BY <1>0, <1>2 DEF CacheFits
<1> QED
  BY <1>1, <1>3, <1>4, <1>5, <1>6, <1>7 DEF ProfilesInd

\* The answer is shown: an earlier version or the present one.
LEMMA ShowStep ==
  ASSUME ProfilesInd, NEW r \in Requests, setUser(r)
  PROVE  ProfilesInd'
<1>p. PICK p : p = request[r].who
  OBVIOUS
<1>0. /\ request[r].op \in editOps /\ request[r].step = "answered" /\ To(r, "done")
      /\ UNCHANGED <<account, pending, token, minted, dropped, failures>>
      /\ shown' = [shown EXCEPT ![p] = edit[r].dto]
      /\ UNCHANGED <<avatar, version, uploads, edit, loading, cache, stray>>
  BY <1>p DEF setUser, next, At, editOps
<1>1. /\ AccountsInd' /\ edits' = edits
      /\ \A q \in Requests \ {r} : request'[q] = request[q]
      /\ request'[r].op = request[r].op /\ request'[r].step = "done"
      /\ request'[r].who = p /\ p \in People
  <2>1. failures' \in 0..MaxFailures /\ "done" \in Steps \ {"unsent", "entered"}
    BY <1>0 DEF ProfilesInd, AccountsInd, AccountTypeOK, Steps
  <2> QED
    BY <1>p, <1>0, <2>1, WentOn
<1>2. /\ Counted /\ EditsFit /\ PathsFit /\ AvatarFiles /\ CacheFits
      /\ version \in [People -> Nat] /\ EditFits(r)
      /\ edit[r].dto \in Nat /\ edit[r].dto <= version[p] /\ shown \in [People -> Nat]
  BY <1>p, <1>0 DEF ProfilesInd, Counted, EditsFit, EditFits
<1>3. Counted'
  BY <1>p, <1>0, <1>1, <1>2, CountStill DEF Counted
<1>4. EditsFit'
  <2>1. \A q \in Requests \ {r} : EditFits(q)'
    BY <1>0, <1>1, <1>2, OthersFit
  <2>2. EditFits(r)'
    BY <1>0, <1>1, <1>2 DEF EditFits, editOps
  <2>3. shown' \in [People -> Nat] /\ \A q \in People : shown'[q] <= version[q]
    BY <1>0, <1>1, <1>2 DEF EditsFit
  <2> QED
    BY <1>0, <1>2, <2>1, <2>2, <2>3 DEF EditsFit
<1>5. PathsFit'
  <2>1. \A f : used(f) => used(f)'
    BY <1>0, <1>1 DEF used
  <2>2. UNCHANGED <<avatar, uploads, stray, edit>>
    BY <1>0
  <2> QED
    BY <1>p, <1>0, <1>1, <1>2, <2>1, <2>2 DEF PathsFit
<1>6. AvatarFiles'
  <2>1. \A f \in uploads : handled(f) => handled(f)'
    BY <1>0, <1>1 DEF handled
  <2> QED
    BY <1>0, <1>2, <2>1 DEF AvatarFiles
<1>7. CacheFits'
  BY <1>0, <1>2 DEF CacheFits
<1> QED
  BY <1>1, <1>3, <1>4, <1>5, <1>6, <1>7 DEF ProfilesInd

\* A request that fails leaves the file it stored, or the one it was to delete, astray.
LEMMA FailStep ==
  ASSUME ProfilesInd, NEW r \in Requests, ProfileFails(r)
  PROVE  ProfilesInd'
<1>0. /\ request[r].op \in editOps /\ request[r].step \notin {"unsent", "done", "failed"}
      /\ To(r, "failed") /\ UNCHANGED <<account, pending, token, minted, dropped>>
      /\ failures < MaxFailures /\ failures' = failures + 1
      /\ stray \subseteq stray'
      /\ stray' \subseteq stray \union ({edit[r].seen, r} \ {NoFile})
      /\ request[r].step = "updated" /\ edit[r].seen # NoFile => edit[r].seen \in stray'
      /\ request[r].step \in {"asked", "read"} /\ r \in uploads => r \in stray'
      /\ UNCHANGED <<avatar, version, uploads, edit, shown, loading, cache>>
  BY ProfilesAssumption DEF ProfileFails, fails, edits, At, editOps
<1>1. /\ AccountsInd' /\ edits' = edits
      /\ \A q \in Requests \ {r} : request'[q] = request[q]
      /\ request'[r].op = request[r].op /\ request'[r].step = "failed"
      /\ request'[r].who = request[r].who
  <2>1. failures' \in 0..MaxFailures /\ "failed" \in Steps \ {"unsent", "entered"}
    BY <1>0, AccountsAssumption DEF ProfilesInd, AccountsInd, AccountTypeOK, Steps
  <2> QED
    BY <1>0, <2>1, WentOn
<1>2. /\ Counted /\ EditsFit /\ PathsFit /\ AvatarFiles /\ CacheFits
      /\ version \in [People -> Nat] /\ EditFits(r)
      /\ edit \in [Requests -> [seen : Paths, dto : Nat]]
  BY DEF ProfilesInd, Counted, EditsFit
<1>3. Counted'
  BY <1>0, <1>1, <1>2, CountStill DEF Counted
<1>4. EditsFit'
  <2>1. \A q \in Requests \ {r} : EditFits(q)'
    BY <1>0, <1>1, <1>2, OthersFit
  <2>2. EditFits(r)'
    BY <1>0, <1>1, <1>2 DEF EditFits, editOps
  <2> QED
    BY <1>0, <1>2, <2>1, <2>2 DEF EditsFit
<1>5. PathsFit'
  <2>1. \A f : used(f) => used(f)'
    BY <1>0, <1>1 DEF used
  <2>2. UNCHANGED <<avatar, uploads, edit>>
    BY <1>0
  <2>3. stray' \subseteq Files
    BY <1>0, <1>2 DEF PathsFit, Paths, Files
  <2> QED
    BY <1>0, <1>1, <1>2, <2>1, <2>2, <2>3 DEF PathsFit
<1>6. AvatarFiles'
  <2>1. \A f \in uploads : handled(f) => handled(f)' \/ f \in stray'
    BY <1>0, <1>1, <1>2, ProfilesAssumption DEF handled, PathsFit, Files
  <2> QED
    BY <1>0, <1>2, <2>1 DEF AvatarFiles
<1>7. CacheFits'
  BY <1>0, <1>2 DEF CacheFits
<1> QED
  BY <1>1, <1>3, <1>4, <1>5, <1>6, <1>7 DEF ProfilesInd

-----------------------------------------------------------------------------
(* The theorems *)

\* What a profile, its files and its accounts are keeps, whatever requests, answers,
\* images and failures overlap: the inductive invariant of the specification.
THEOREM ProfilesInvariance == Spec => []ProfilesInd
<1>1. ProfilesInd /\ UNCHANGED allVars => ProfilesInd'
  <2> SUFFICES ASSUME ProfilesInd, UNCHANGED allVars PROVE ProfilesInd'
    OBVIOUS
  <2>1. AccountsInd'
    BY DEF allVars, accountVars, ProfilesInd, AccountsInd, AccountTypeOK, FullTypes, AccountsFit,
       RequestFits, exists, OneCallback, activeFor, EveryAccountHasAKey, UsedTokenVerifies, At
  <2>2. Counted' /\ PathsFit' /\ AvatarFiles' /\ (\A r \in Requests : EditFits(r)')
    BY ProfilesAlone DEF allVars, profileVars, accountVars
  <2>3. EditsFit' /\ CacheFits'
    BY <2>2 DEF allVars, profileVars, ProfilesInd, EditsFit, CacheFits
  <2> QED
    BY <2>1, <2>2, <2>3 DEF ProfilesInd
<1>2. ProfilesInd /\ Next => ProfilesInd'
  BY AccountsBeside, BrowserStep, UploadStep, UpdateStep, ReadStep, SetStep, DeleteStep, ShowStep,
     FailStep DEF Next, ProfilesNext
<1> QED
  BY <1>1, <1>2, ProfilesStart, PTL DEF Spec

\* One session for each sign-in state, a way into every account, verified when a token
\* is used up (oauth.service.ts:49-51, auth.routes.ts:126-129): for any number of people,
\* requests, states, tokens and failures.
THEOREM AccountsAndProfiles == Spec => []Inv
<1>1. ProfilesInd => Inv
  <2> SUFFICES ASSUME ProfilesInd PROVE Inv
    OBVIOUS
  <2> USE DEF ProfilesInd, AccountsInd
  <2>1. OneSessionPerState
    <3> SUFFICES ASSUME NEW s \in OAuthStates PROVE minted[s] + Cardinality(activeFor(s)) <= 1
      BY DEF OneSessionPerState, activeFor
    <3>1. \/ activeFor(s) = {} /\ minted[s] \in {0, 1}
          \/ \E r \in Requests : activeFor(s) = {r} /\ minted[s] = 0
      BY DEF OneCallback
    <3>2. Cardinality({}) = 0 /\ \A r \in Requests : Cardinality({r}) = 1
      BY FS_EmptySet, FS_Singleton
    <3> QED
      BY <3>1, <3>2
  <2>2. ProfileTypeOK
    <3>1. \A p \in People : version[p] \in Versions
      BY VersionsCounted
    <3>2. \A p \in People : shown[p] \in Versions
      BY <3>1, ProfilesAssumption DEF EditsFit, Versions
    <3> QED
      BY <3>1, <3>2 DEF ProfileTypeOK, Counted, EditsFit, PathsFit, Paths, Files
  <2> QED
    BY <2>1, <2>2 DEF Inv, AccountInv
<1> QED
  BY <1>1, ProfilesInvariance, PTL

\* "existing users keep the role they already have" (auth.routes.ts:149): no step of any
\* handler takes an account's role, way in or verification from it.
THEOREM AccountsStand == Spec => AccountStands
<1>1. ProfilesInd /\ [Next]_allVars => [Stands]_accountVars
  <2> SUFFICES ASSUME ProfilesInd, [Next]_allVars PROVE Stands \/ UNCHANGED accountVars
    OBVIOUS
  <2>1. CASE AccountsNext
    BY <2>1, AccountsGrow DEF ProfilesInd
  <2>2. CASE ProfilesNext
    <3>1. UNCHANGED account
      BY <2>2 DEF ProfilesNext, avatarUpload, remove, updateProfile, ReadExisting, SetAvatar,
         deleteAvatarFile, setUser, ProfileFails, fails, getMe, loadImage, sendFile, ask, next,
         accountVars
    <3> QED
      BY <3>1 DEF Stands
  <2>3. CASE UNCHANGED allVars
    BY <2>3 DEF allVars
  <2> QED
    BY <2>1, <2>2, <2>3 DEF Next
<1> QED
  BY <1>1, ProfilesInvariance, PTL DEF Spec, AccountStands, Stands

\* A current picture is there, and every other file is on its way, on its way out, or one
\* that two replacements or a failure left (users.routes.ts:53-54).
THEOREM FilesAreAccountedFor == Spec => []AvatarFiles
BY ProfilesInvariance, PTL DEF ProfilesInd

\* Under a profile's present URL the cache has its present picture or none
\* (users.routes.ts:113-114).
THEOREM CacheIsCurrent == Spec => []CachedIsCurrent
<1>1. ProfilesInd => CachedIsCurrent
  <2> SUFFICES ASSUME ProfilesInd, NEW p \in People
               PROVE  cache[p][version[p]] \in {NoFile, avatar[p]}
    BY DEF CachedIsCurrent, avatarUrlFor
  <2> QED
    BY VersionsCounted DEF ProfilesInd, CacheFits
<1> QED
  BY <1>1, ProfilesInvariance, PTL


=============================================================================
