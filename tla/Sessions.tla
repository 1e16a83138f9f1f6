------------------------------ MODULE Sessions ------------------------------
(***************************************************************************)
(* One user's sessions: refresh-token rotation in token.service.ts, the    *)
(* routes that set and clear the cookie, and the browser's side of it in   *)
(* lib/api.ts and stores/auth.ts.                                          *)
(*                                                                         *)
(* The tabs of a browser share one cookie; each has an access token and a  *)
(* single-flight refresh of its own.  A call is split where the server     *)
(* commits: rotation is a serializable transaction that only classifies    *)
(* the token, what follows it (the successor row, its link, the revocation *)
(* of a family) commits separately.                                        *)
(***************************************************************************)
EXTENDS FiniteSets, Naturals

CONSTANTS
  Tokens, Families,   \* bounds: the refresh tokens and logins there can be
  Tabs,
  Calls,              \* bound: requests under way at a time
  MaxFailures,        \* bound: failed calls, lost answers, restarts, reloads
  NoToken, NoFamily, NoTab, NoCall

ASSUME SessionsAssumption ==
  /\ NoToken \notin Tokens /\ NoFamily \notin Families
  /\ NoTab \notin Tabs /\ NoCall \notin Calls
  /\ MaxFailures \in Nat

VARIABLES
  family,       \* token -> familyId; NoFamily: the row does not exist
  revoked,      \* tokens with a revokedAt
  expired,      \* tokens past their expiresAt
  successor,    \* token -> replacedByTokenId
  cookie,       \* the browser's trustlance_rt
  accessToken,  \* tab -> whether its module variable holds a token
  inFlight,     \* tab -> the call refreshInFlight stands for
  call,
  loggedOut,    \* families whose token a logout presented
  burnt,        \* families revokeFamily revoked
  failures

rowVars == <<family, revoked, expired, successor>>
browserVars == <<cookie, accessToken, inFlight>>
endings == <<loggedOut, burnt>>
vars == <<rowVars, browserVars, call, endings, failures>>

-----------------------------------------------------------------------------

ServerSteps == {"sent", "rotating", "linking", "reuse", "leaving"}
Answers == {"ok", "clear", "refused", "lost"}

\* presented: the cookie the request carried; token: the one it is answered with.
CallOf(op, step, tab, presented, token) ==
  [op |-> op, step |-> step, tab |-> tab, presented |-> presented, token |-> token]

NoOne == CallOf("none", "idle", NoTab, NoToken, NoToken)

\* Names that start with Faulty are deliberately wrong variants of the definition
\* after them; they show that a property would notice such a fault.
FaultyFamilyOf(c) == call[c].presented

familyOf(c) == family[call[c].presented]
existing == {t \in Tokens : family[t] # NoFamily}
live(f) == {t \in Tokens \ revoked : family[t] = f}

\* The bound on Tokens: every call under way may need one more.
Room == Cardinality(Tokens \ existing) > Cardinality({c \in Calls : call[c] # NoOne})

To(c, step) == call' = [call EXCEPT ![c].step = step]

FaultyUsed(t) == successor[t] # NoToken

\* A token has been exchanged, or its session was ended.
used(t) == t \in revoked

Init ==
  /\ family = [t \in Tokens |-> NoFamily]
  /\ revoked = {}
  /\ expired = {}
  /\ successor = [t \in Tokens |-> NoToken]
  /\ cookie = NoToken
  /\ accessToken = [tab \in Tabs |-> FALSE]
  /\ inFlight = [tab \in Tabs |-> NoCall]
  /\ call = [c \in Calls |-> NoOne]
  /\ loggedOut = {}
  /\ burnt = {}
  /\ failures = 0

-----------------------------------------------------------------------------
(* The browser sends.                                                      *)

\* login and register: a row in a family of its own, answered with its token.
issueNewSession(tab, c, f, t) ==
  /\ call[c] = NoOne /\ Room
  /\ t \notin existing
  /\ \A u \in Tokens : family[u] # f
  /\ family' = [family EXCEPT ![t] = f]
  /\ call' = [call EXCEPT ![c] = CallOf("login", "ok", tab, NoToken, t)]
  /\ UNCHANGED <<revoked, expired, successor, browserVars, endings, failures>>

FaultyRefreshSession(tab, c) ==
  /\ call[c] = NoOne /\ Room
  /\ call' = [call EXCEPT ![c] = CallOf("refresh", "sent", tab, cookie, NoToken)]
  /\ inFlight' = [inFlight EXCEPT ![tab] = c]
  /\ UNCHANGED <<rowVars, cookie, accessToken, endings, failures>>

\* A request was answered 401, or the page has just loaded.  While a refresh is
\* under way, further callers share its promise: nothing is sent.
refreshSession(tab, c) ==
  /\ call[c] = NoOne /\ Room
  /\ inFlight[tab] = NoCall
  /\ call' = [call EXCEPT ![c] = CallOf("refresh", "sent", tab, cookie, NoToken)]
  /\ inFlight' = [inFlight EXCEPT ![tab] = c]
  /\ UNCHANGED <<rowVars, cookie, accessToken, endings, failures>>

logout(tab, c) ==
  /\ call[c] = NoOne
  /\ call' = [call EXCEPT ![c] = CallOf("logout", "leaving", tab, cookie, NoToken)]
  /\ UNCHANGED <<rowVars, browserVars, endings, failures>>

-----------------------------------------------------------------------------
(* The server works.                                                       *)

\* No cookie: refused before the rotation, and nothing is cleared.
NoCookie(c) ==
  /\ call[c].step = "sent"
  /\ call[c].presented = NoToken
  /\ To(c, "refused")
  /\ UNCHANGED <<rowVars, browserVars, endings, failures>>

\* The classifying transaction: one of Reused, Expired and Rotate.
Reused(c) ==
  /\ call[c].step = "sent"
  /\ call[c].presented # NoToken
  /\ used(call[c].presented)
  /\ To(c, "reuse")
  /\ UNCHANGED <<rowVars, browserVars, endings, failures>>

Expired(c) ==
  /\ call[c].step = "sent"
  /\ call[c].presented # NoToken
  /\ ~used(call[c].presented)
  /\ call[c].presented \in expired
  /\ To(c, "clear")
  /\ UNCHANGED <<rowVars, browserVars, endings, failures>>

Rotate(c) ==
  /\ call[c].step = "sent"
  /\ call[c].presented # NoToken
  /\ ~used(call[c].presented)
  /\ call[c].presented \notin expired
  /\ revoked' = revoked \union {call[c].presented}
  /\ To(c, "rotating")
  /\ UNCHANGED <<family, expired, successor, browserVars, endings, failures>>

FaultyRevokeFamily(c) ==
  /\ call[c].step = "reuse"
  /\ burnt' = burnt \union {familyOf(c)}
  /\ To(c, "clear")
  /\ UNCHANGED <<rowVars, browserVars, loggedOut, failures>>

\* A transaction of its own: in the one that detects the reuse, the error that
\* answers it would roll the revocation back.
revokeFamily(c) ==
  /\ call[c].step = "reuse"
  /\ revoked' = revoked \union live(familyOf(c))
  /\ burnt' = burnt \union {familyOf(c)}
  /\ To(c, "clear")
  /\ UNCHANGED <<family, expired, successor, browserVars, loggedOut, failures>>

\* issueTokens: the successor's row, then the link from the old row to it.
Issue(c, t) ==
  /\ call[c].step = "rotating"
  /\ t \notin existing
  /\ family' = [family EXCEPT ![t] = familyOf(c)]
  /\ call' = [call EXCEPT ![c] = [@ EXCEPT !.step = "linking", !.token = t]]
  /\ UNCHANGED <<revoked, expired, successor, browserVars, endings, failures>>

Link(c) ==
  /\ call[c].step = "linking"
  /\ successor' = [successor EXCEPT ![call[c].presented] = call[c].token]
  /\ To(c, "ok")
  /\ UNCHANGED <<family, revoked, expired, browserVars, endings, failures>>

FaultyRevokeRefreshToken(c) ==
  /\ call[c].step = "leaving"
  /\ IF call[c].presented = NoToken
       THEN UNCHANGED loggedOut
       ELSE loggedOut' = loggedOut \union {familyOf(c)}
  /\ To(c, "clear")
  /\ UNCHANGED <<rowVars, browserVars, burnt, failures>>

\* logout revokes the one token it was given, when there is one, and answers.
revokeRefreshToken(c) ==
  /\ call[c].step = "leaving"
  /\ IF call[c].presented = NoToken
       THEN UNCHANGED <<revoked, loggedOut>>
       ELSE /\ revoked' = revoked \union {call[c].presented}
            /\ loggedOut' = loggedOut \union {familyOf(c)}
  /\ To(c, "clear")
  /\ UNCHANGED <<family, expired, successor, browserVars, burnt, failures>>

-----------------------------------------------------------------------------
(* The browser hears.                                                      *)

FaultySettle(c) ==
  /\ call' = [call EXCEPT ![c] = NoOne]
  /\ inFlight' = [tab \in Tabs |->
       IF inFlight[tab] = c /\ call[c].step # "lost" THEN NoCall ELSE inFlight[tab]]

\* The call is over; the promise that stood for it, if one did, is reset.
settle(c) ==
  /\ call' = [call EXCEPT ![c] = NoOne]
  /\ inFlight' = [tab \in Tabs |-> IF inFlight[tab] = c THEN NoCall ELSE inFlight[tab]]

AnswerOk(c) ==
  /\ call[c].step = "ok" /\ call[c].tab # NoTab
  /\ cookie' = call[c].token
  /\ accessToken' = [accessToken EXCEPT ![call[c].tab] = TRUE]
  /\ settle(c)
  /\ UNCHANGED <<rowVars, endings, failures>>

\* Set-Cookie of the past, with the 401 of a refresh or the 204 of a logout.
AnswerClear(c) ==
  /\ call[c].step = "clear" /\ call[c].tab # NoTab
  /\ cookie' = NoToken
  /\ accessToken' = [accessToken EXCEPT ![call[c].tab] = FALSE]
  /\ settle(c)
  /\ UNCHANGED <<rowVars, endings, failures>>

\* A login that fails leaves the tab as it was; a refresh or a logout that fails
\* drops the access token all the same.
AnswerNone(c) ==
  /\ call[c].step \in {"refused", "lost"} /\ call[c].tab # NoTab
  /\ accessToken' = [accessToken EXCEPT ![call[c].tab] = @ /\ call[c].op = "login"]
  /\ settle(c)
  /\ UNCHANGED <<rowVars, cookie, endings, failures>>

\* The page that asked is gone: the answer reaches nobody.
Drop(c) ==
  /\ call[c].step \in Answers /\ call[c].tab = NoTab
  /\ settle(c)
  /\ UNCHANGED <<rowVars, cookie, accessToken, endings, failures>>

-----------------------------------------------------------------------------
(* What fails, and what time does.                                         *)

Expire(t) ==
  /\ t \in existing \ expired
  /\ expired' = expired \union {t}
  /\ UNCHANGED <<family, revoked, successor, browserVars, call, endings, failures>>

fail == failures < MaxFailures /\ failures' = failures + 1

FaultyRefreshThrows(c) ==
  /\ fail
  /\ call[c].step \in ServerSteps \ {"leaving"} /\ call[c].presented # NoToken
  /\ revoked' = IF call[c].step = "rotating" THEN revoked \ {call[c].presented} ELSE revoked
  /\ To(c, "clear")
  /\ UNCHANGED <<family, expired, successor, browserVars, endings>>

\* A statement throws (the database, or the third serialization conflict in a row):
\* the route's catch clears the cookie, whatever the statement was.
RefreshThrows(c) ==
  /\ fail
  /\ call[c].step \in ServerSteps \ {"leaving"} /\ call[c].presented # NoToken
  /\ To(c, "clear")
  /\ UNCHANGED <<rowVars, browserVars, endings>>

\* The API process restarts: what it was doing is answered by a closed connection.
Restart ==
  /\ fail
  /\ call' = [c \in Calls |->
       IF call[c].step \in ServerSteps THEN [call[c] EXCEPT !.step = "lost"] ELSE call[c]]
  /\ UNCHANGED <<rowVars, browserVars, endings>>

\* The connection breaks, or the route fails after the rotation (getUserById).
AnswerLost(c) ==
  /\ fail
  /\ call[c].step \in Answers \ {"lost"}
  /\ To(c, "lost")
  /\ UNCHANGED <<rowVars, browserVars, endings>>

\* A reload forgets the access token and the promise; the server goes on.
Reload(tab) ==
  /\ fail
  /\ accessToken' = [accessToken EXCEPT ![tab] = FALSE]
  /\ inFlight' = [inFlight EXCEPT ![tab] = NoCall]
  /\ call' = [c \in Calls |->
       IF call[c].tab = tab THEN [call[c] EXCEPT !.tab = NoTab] ELSE call[c]]
  /\ UNCHANGED <<rowVars, cookie, endings>>

-----------------------------------------------------------------------------

Send(tab, c) ==
  \/ \E f \in Families, t \in Tokens : issueNewSession(tab, c, f, t)
  \/ refreshSession(tab, c)
  \/ logout(tab, c)

Work(c) ==
  \/ NoCookie(c)
  \/ Reused(c)
  \/ Expired(c)
  \/ Rotate(c)
  \/ revokeFamily(c)
  \/ \E t \in Tokens : Issue(c, t)
  \/ Link(c)
  \/ revokeRefreshToken(c)

Answer(c) == AnswerOk(c) \/ AnswerClear(c) \/ AnswerNone(c) \/ Drop(c)

Next ==
  \/ \E tab \in Tabs, c \in Calls : Send(tab, c)
  \/ \E c \in Calls : Work(c) \/ Answer(c) \/ RefreshThrows(c) \/ AnswerLost(c)
  \/ \E t \in Tokens : Expire(t)
  \/ \E tab \in Tabs : Reload(tab)
  \/ Restart

Spec == Init /\ [][Next]_vars

\* Node runs every handler to its end, and a fetch settles: with an answer, or with
\* an error when the connection is gone.
FairSpec == Spec /\ \A c \in Calls : WF_vars(Work(c)) /\ WF_vars(Answer(c))

-----------------------------------------------------------------------------
(* Properties.                                                             *)

Call == [op : {"none", "login", "refresh", "logout"},
         step : {"idle"} \union ServerSteps \union Answers,
         tab : Tabs \union {NoTab},
         presented : Tokens \union {NoToken},
         token : Tokens \union {NoToken}]

\* Rows, cookie and calls are what the schema and the routes make them.
TypeOK ==
  /\ family \in [Tokens -> Families \union {NoFamily}]
  /\ revoked \subseteq Tokens
  /\ expired \subseteq Tokens
  /\ successor \in [Tokens -> Tokens \union {NoToken}]
  /\ cookie \in Tokens \union {NoToken}
  /\ accessToken \in [Tabs -> BOOLEAN]
  /\ inFlight \in [Tabs -> Calls \union {NoCall}]
  /\ call \in [Calls -> Call]
  /\ loggedOut \subseteq Families
  /\ burnt \subseteq Families
  /\ failures \in Nat

\* However refreshes, logouts and failures overlap, at most one token of a family
\* works: two refreshes of one token never both succeed.
OneLiveToken == \A f \in Families : \A t, u \in live(f) : t = u

\* A token is exchanged for one successor and for no second one, so the chain an
\* incident is traced along does not branch.
ExchangedOnce ==
  [][\A t \in Tokens : successor[t] # NoToken => successor'[t] = successor[t]]_vars

\* A used token is presented again only after its session was logged out.  Does not
\* hold with two tabs: see the known gaps in the README.
ReuseMeansLoggedOut ==
  \A c \in Calls : call[c].step = "reuse" => familyOf(c) \in loggedOut

\* After the answer to a reuse revoked a family, none of its tokens works.  Does not
\* hold while a rotation is under way: see the known gaps in the README.
RevokedFamilyIsDead == \A f \in burnt : live(f) = {}

\* What a session is: the rows of its family, those of them that are not revoked, and
\* whether one of its calls has used a token up and not yet inserted the next.
issuedIn == [f \in Families |-> {t \in Tokens : family[t] = f}]
unusedIn == [f \in Families |-> live(f)]
underExchange == {familyOf(c) : c \in {d \in Calls : call[d].step = "rotating"}}

Abstract == INSTANCE Succession
  WITH issued <- issuedIn, unused <- unusedIn, exchanged <- underExchange

\* Overlapping requests, split transactions, failures and restarts notwithstanding, each
\* session is a succession of tokens, one at a time, none of which comes back.
ImplementsSuccession == Abstract!SuccessionSpec

\* The promise that the requests of a tab share stands for a refresh of that tab which is
\* still under way: none of them waits on one that answers, failures or a restart left behind.
PromiseIsKept ==
  \A tab \in Tabs : inFlight[tab] # NoCall =>
    call[inFlight[tab]].op = "refresh" /\ call[inFlight[tab]].tab = tab

\* No tab waits for ever on a refresh: its promise is reset whatever happens to the call,
\* so the requests that share it go on.
RefreshSettles == \A tab \in Tabs : inFlight[tab] # NoCall ~> inFlight[tab] = NoCall

=============================================================================
