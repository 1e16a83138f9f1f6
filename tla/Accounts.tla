------------------------------- MODULE Accounts -------------------------------
(***************************************************************************)
(* How an account comes to be and is entered: registration, password       *)
(* login, Google sign-in (modules/auth/auth.service.ts, oauth.service.ts)  *)
(* and the e-mail verification of auth.routes.ts.  A person has one        *)
(* address, known to Google, and one password.  Each handler is split at   *)
(* its statements; the unique indexes on users.email and on the provider's *)
(* identity decide between handlers that read before either wrote.  What a *)
(* session is afterwards is in module Sessions.                            *)
(***************************************************************************)
EXTENDS Naturals, FiniteSets

CONSTANTS
  People,       \* addresses, each with the Google identity of the same person
  Requests,     \* requests, each made once
  OAuthStates,  \* one-time state values of sign-ins through Google
  Tokens,       \* e-mail verification tokens
  MaxFailures,
  Nobody

ASSUME AccountsAssumption == Nobody \notin People /\ MaxFailures \in Nat

VARIABLES
  account,   \* the users row of each address, with its oauth_accounts row
  pending,   \* oauth:google:<state> in Redis
  token,     \* verify-email:<token> in Redis
  request,   \* requests under way
  minted,    \* sessions a callback with each state has led to
  dropped,   \* tokens taken by a request that failed before it verified anybody
  failures

accountVars == <<account, pending, token, request, minted, dropped, failures>>

-----------------------------------------------------------------------------

Roles == {"CLIENT", "FREELANCER"}

NoAccount == [role |-> "none", password |-> FALSE, linked |-> FALSE, verified |-> FALSE]

exists(p) == account[p] # NoAccount

Unsent == [op |-> "none", step |-> "unsent", who |-> Nobody, role |-> "none", key |-> Nobody]

Ask(op, step, p, role, key) == [op |-> op, step |-> step, who |-> p, role |-> role, key |-> key]

At(r, op, step) == request[r].op = op /\ request[r].step = step

To(r, step) == request' = [request EXCEPT ![r].step = step]

\* One statement writes the user, the profile and, for Google, the link to it.
FaultyCreated(role, password) ==
  [role |-> role, password |-> password, linked |-> FALSE, verified |-> ~password]
created(role, password) ==
  [role |-> role, password |-> password, linked |-> ~password, verified |-> ~password]

\* Linking an existing account leaves the role it has.
FaultyLink(a, role) == [a EXCEPT !.verified = TRUE, !.linked = TRUE, !.role = role]
link(a, role) == [a EXCEPT !.verified = TRUE, !.linked = TRUE]

\* GETDEL: the state is gone once it was read.
FaultyTaken(s) == pending
taken(s) == [pending EXCEPT ![s].live = FALSE]

AccountsInit ==
  /\ account \in [People -> {NoAccount, created("CLIENT", TRUE), created("FREELANCER", FALSE)}]
  /\ pending = [s \in OAuthStates |-> [live |-> FALSE, who |-> Nobody, role |-> "none"]]
  /\ token = [t \in Tokens |-> [live |-> FALSE, who |-> Nobody]]
  /\ request = [r \in Requests |-> Unsent]
  /\ minted = [s \in OAuthStates |-> 0]
  /\ dropped = {} /\ failures = 0

-----------------------------------------------------------------------------
(* POST /register and POST /login *)

registerUser(p, role, r) ==
  /\ request[r] = Unsent
  /\ request' = [request EXCEPT ![r] =
       Ask("register", IF exists(p) THEN "failed" ELSE "hashing", p, role, Nobody)]
  /\ UNCHANGED <<account, pending, token, minted, dropped, failures>>

\* After bcrypt: the unique index refuses what another request created meanwhile.
RegisterCreate(r) ==
  LET p == request[r].who IN
  /\ At(r, "register", "hashing")
  /\ IF exists(p)
     THEN To(r, "failed") /\ UNCHANGED account
     ELSE /\ account' = [account EXCEPT ![p] = created(request[r].role, TRUE)]
          /\ To(r, "entered")
  /\ UNCHANGED <<pending, token, minted, dropped, failures>>

\* An account without a password never matches one.
verifyCredentials(p, r) ==
  /\ request[r] = Unsent
  /\ request' = [request EXCEPT ![r] =
       Ask("login", IF account[p].password THEN "entered" ELSE "failed", p, "none", Nobody)]
  /\ UNCHANGED <<account, pending, token, minted, dropped, failures>>

-----------------------------------------------------------------------------
(* GET /oauth/google/start and its callback *)

buildGoogleAuthUrl(p, role, s, r) ==
  /\ request[r] = Unsent /\ pending[s].who = Nobody
  /\ pending' = [pending EXCEPT ![s] = [live |-> TRUE, who |-> p, role |-> role]]
  /\ request' = [request EXCEPT ![r] = Ask("start", "done", p, role, s)]
  /\ UNCHANGED <<account, token, minted, dropped, failures>>

\* Google sends the browser back; the URL may be opened again, at any time.
CallbackTake(s, r) ==
  /\ request[r] = Unsent /\ pending[s].who # Nobody
  /\ request' = [request EXCEPT ![r] =
       Ask("callback", IF pending[s].live THEN "exchange" ELSE "failed",
           pending[s].who, pending[s].role, s)]
  /\ pending' = taken(s)
  /\ UNCHANGED <<account, token, minted, dropped, failures>>

\* After the exchange with Google: is the identity linked, is the address known?
FindLink(r) ==
  /\ At(r, "callback", "exchange")
  /\ To(r, IF account[request[r].who].linked THEN "entered" ELSE "unlinked")
  /\ UNCHANGED <<account, pending, token, minted, dropped, failures>>

FindByEmail(r) ==
  /\ At(r, "callback", "unlinked")
  /\ To(r, IF exists(request[r].who) THEN "known" ELSE "unknown")
  /\ UNCHANGED <<account, pending, token, minted, dropped, failures>>

\* The unique index on the identity refuses a second link, that on the address a
\* second account; the person can try again and will be found.
LinkOrCreate(r) ==
  LET p == request[r].who IN
  /\ request[r].op = "callback"
  /\ \/ /\ request[r].step = "known" /\ ~account[p].linked
        /\ account' = [account EXCEPT ![p] = link(@, request[r].role)]
        /\ To(r, "entered")
     \/ /\ request[r].step = "unknown" /\ ~exists(p)
        /\ account' = [account EXCEPT ![p] = created(request[r].role, FALSE)]
        /\ To(r, "entered")
     \/ /\ \/ request[r].step = "known" /\ account[p].linked
           \/ request[r].step = "unknown" /\ exists(p)
        /\ To(r, "failed") /\ UNCHANGED account
  /\ UNCHANGED <<pending, token, minted, dropped, failures>>

\* issueNewSession, then the cookie and the answer.
IssueSession(r) ==
  /\ request[r].step = "entered"
  /\ minted' = IF request[r].op = "callback" THEN [minted EXCEPT ![request[r].key] = @ + 1]
                                             ELSE minted
  /\ To(r, "done")
  /\ UNCHANGED <<account, pending, token, dropped, failures>>

StateExpires(s) ==
  /\ pending[s].live
  /\ pending' = [pending EXCEPT ![s].live = FALSE]
  /\ UNCHANGED <<account, token, request, minted, dropped, failures>>

-----------------------------------------------------------------------------
(* POST /request-verification and POST /verify-email *)

requestVerification(p, t, r) ==
  /\ exists(p) /\ request[r] = Unsent /\ token[t].who = Nobody
  /\ token' = [token EXCEPT ![t] = [live |-> TRUE, who |-> p]]
  /\ request' = [request EXCEPT ![r] = Ask("send", "done", p, "none", t)]
  /\ UNCHANGED <<account, pending, minted, dropped, failures>>

VerifyGet(t, r) ==
  /\ request[r] = Unsent /\ token[t].who # Nobody
  /\ request' = [request EXCEPT ![r] =
       Ask("verify", IF token[t].live THEN "found" ELSE "failed", token[t].who, "none", t)]
  /\ UNCHANGED <<account, pending, token, minted, dropped, failures>>

VerifyDel(r) ==
  /\ At(r, "verify", "found")
  /\ token' = [token EXCEPT ![request[r].key].live = FALSE]
  /\ To(r, "deleted")
  /\ UNCHANGED <<account, pending, minted, dropped, failures>>

FaultyVerifyUpdate(r) ==
  /\ At(r, "verify", "deleted")
  /\ To(r, "done")
  /\ UNCHANGED <<account, pending, token, minted, dropped, failures>>
VerifyUpdate(r) ==
  /\ At(r, "verify", "deleted")
  /\ account' = [account EXCEPT ![request[r].who].verified = TRUE]
  /\ To(r, "done")
  /\ UNCHANGED <<pending, token, minted, dropped, failures>>

\* A day has passed: Redis drops the token nobody used.
TokenExpires(t) ==
  /\ token[t].live
  /\ token' = [token EXCEPT ![t].live = FALSE]
  /\ dropped' = dropped \union {t}
  /\ UNCHANGED <<account, pending, request, minted, failures>>

\* A statement, Google or the process fails: what was committed stays.
fails(r) ==
  /\ failures < MaxFailures
  /\ request[r].step \notin {"unsent", "done", "failed"}
  /\ To(r, "failed")
  /\ dropped' = IF At(r, "verify", "deleted") THEN dropped \union {request[r].key} ELSE dropped
  /\ failures' = failures + 1
  /\ UNCHANGED <<account, pending, token, minted>>

AccountFails(r) == request[r].op \in {"register", "login", "callback", "verify"} /\ fails(r)

AccountsNext ==
  \/ \E p \in People, r \in Requests :
       verifyCredentials(p, r) \/ \E role \in Roles : registerUser(p, role, r)
  \/ \E p \in People, s \in OAuthStates, role \in Roles, r \in Requests :
       buildGoogleAuthUrl(p, role, s, r)
  \/ \E s \in OAuthStates, r \in Requests : CallbackTake(s, r)
  \/ \E p \in People, t \in Tokens, r \in Requests : requestVerification(p, t, r)
  \/ \E t \in Tokens, r \in Requests : VerifyGet(t, r)
  \/ \E r \in Requests :
       \/ RegisterCreate(r) \/ FindLink(r) \/ FindByEmail(r) \/ LinkOrCreate(r)
       \/ IssueSession(r) \/ VerifyDel(r) \/ VerifyUpdate(r) \/ AccountFails(r)
  \/ (\E s \in OAuthStates : StateExpires(s)) \/ (\E t \in Tokens : TokenExpires(t))

AccountsSpec == AccountsInit /\ [][AccountsNext]_accountVars

-----------------------------------------------------------------------------

AccountTypeOK ==
  /\ account \in [People -> [role : Roles \union {"none"}, password : BOOLEAN,
                             linked : BOOLEAN, verified : BOOLEAN]]
  /\ \A s \in OAuthStates : pending[s].who \in People \union {Nobody}
  /\ \A t \in Tokens : token[t].who \in People \union {Nobody}
  /\ minted \in [OAuthStates -> Nat]
  /\ dropped \subseteq Tokens /\ failures \in 0..MaxFailures

\* "the callback deletes it, which means a replayed callback URL cannot mint a second
\* session" (oauth.service.ts:49-51), nor can one that is already being answered.
OneSessionPerState ==
  \A s \in OAuthStates :
    minted[s] + Cardinality({r \in Requests : request[r].op = "callback" /\ request[r].key = s
                              /\ request[r].step \notin {"done", "failed"}}) <= 1

\* Whichever of registration and Google came first or failed half-way, there is a way
\* into every account: a password, or a Google identity.
EveryAccountHasAKey == \A p \in People : exists(p) => account[p].password \/ account[p].linked

\* A verification token that was used up has verified its account, or is about to
\* (auth.routes.ts:126-129), unless the request failed in between.
UsedTokenVerifies ==
  \A t \in Tokens :
    token[t].who # Nobody /\ ~token[t].live /\ t \notin dropped =>
      \/ account[token[t].who].verified
      \/ \E r \in Requests : At(r, "verify", "deleted") /\ request[r].key = t

AccountInv == AccountTypeOK /\ OneSessionPerState /\ EveryAccountHasAKey /\ UsedTokenVerifies

\* "existing users keep the role they already have" (auth.routes.ts:149), and no way in and
\* no verification is ever taken away, whatever sign-ins and registrations overlap.
AccountStands ==
  [][\A p \in People : exists(p) =>
       /\ account'[p].role = account[p].role
       /\ account[p].password => account'[p].password
       /\ account[p].linked => account'[p].linked
       /\ account[p].verified => account'[p].verified]_accountVars

=============================================================================
