--------------------------------- MODULE Pages ---------------------------------
(***************************************************************************)
(* One browser tab across the pages of the web application: who is signed  *)
(* in (stores/auth.ts), which page is shown and to whom (require-role.tsx, *)
(* site-header.tsx), which queries it shows from the cache that all pages  *)
(* share (lib/hooks.ts, app/providers.tsx), and what its forms and buttons *)
(* do to that cache once the server has done what they ask.                *)
(*                                                                         *)
(* What the server holds for a query is how often it changed; what other   *)
(* users change is in ContractPage.  There is one user of each role, and   *)
(* the client owns the jobs.  Job 1, contract 1 and its dispute are there  *)
(* already; job 2 and contract 2 are what this tab adds.                   *)
(***************************************************************************)
EXTENDS Naturals

CONSTANTS
  Users,        \* who may sign in here: "client", "freelancer", "admin"
  MaxChanges,   \* bound: requests that change something
  MaxEvents,    \* bound: navigations, sign-ins, sign-outs, returns to the window, failures
  NoUser, NoData

ASSUME PagesAssumption ==
  /\ Users \subseteq {"client", "freelancer", "admin"}
  /\ NoUser \notin {"client", "freelancer", "admin"}
  /\ NoData \notin [rev : Nat, of : Users \union {NoUser}]
  /\ {MaxChanges, MaxEvents} \subseteq Nat

VARIABLES
  boot,           \* whom the bootstrap under way will find signed in, or "over"
  status, user,   \* the auth store
  page,
  cache,          \* query -> its answer, and its request
  pending,        \* the request of a form or a button
  server,         \* query -> how often what it reads has changed
  exists,         \* the jobs and contracts there are
  mine,           \* queries of the screen a change of this user's left them on
  changes, events

auth == <<boot, status, user>>
bounds == <<changes, events>>
pageVars == <<auth, page, cache, pending, server, exists, mine, bounds>>

-----------------------------------------------------------------------------
(* Queries and pages.                                                      *)

Lists == {"jobs", "jobs/mine", "proposals/mine", "contracts/mine", "wallet", "disputes"}
           \X {0}
Keys == Lists \union ({"job", "proposals", "contract"} \X {1, 2}) \union {<<"dispute", 1>>}

Wallet == <<"wallet", 0>>
MyContracts == <<"contracts/mine", 0>>
MyJobs == <<"jobs/mine", 0>>
MyProposals == <<"proposals/mine", 0>>
Queue == <<"disputes", 0>>
Proposals(p) == <<"proposals", p[2]>>

Login == <<"login", 0>>
Dashboard == <<"dashboard", 0>>
Forms == {"login", "new", "dashboard", "wallet", "jobs", "disputes"} \X {0}
Pages == Forms \union exists \union {<<"dispute", 1>>}

\* RequireRole: for whom a page is.
Guarded == {"new", "dashboard", "wallet", "contract", "disputes", "dispute"}
allowed(p) ==
  CASE p[1] = "new" -> {"client"}
    [] p[1] \in {"disputes", "dispute"} -> {"admin"}
    [] OTHER -> Users

renders(st, who, p) == p[1] \in Guarded => st = "authenticated" /\ who \in allowed(p)

\* `user?.id === job?.clientId`: also while there is neither a user nor a job.
isOwner(who, p, c) == IF c[p].data = NoData THEN who = NoUser ELSE who = "client"

jobQueries(who, p, c) == {p} \union (IF isOwner(who, p, c) THEN {Proposals(p)} ELSE {})

dashboardQueries(who) ==
  {MyContracts, Wallet}
    \union (IF who = "client" THEN {MyJobs} ELSE {})
    \union (IF who = "freelancer" THEN {MyProposals} ELSE {})

pageQueries(who, p, c) ==
  CASE p[1] = "job" -> jobQueries(who, p, c)
    [] p[1] = "dashboard" -> dashboardQueries(who)
    [] p[1] = "dispute" -> {Queue, p}
    [] p[1] \in {"jobs", "wallet", "contract", "disputes"} -> {p}
    [] OTHER -> {}

\* The header shows the balance on every page, except to an admin.
WalletChip(st, who) == IF st = "authenticated" /\ who # "admin" THEN {Wallet} ELSE {}

queriesOf(st, who, p, c) == IF renders(st, who, p) THEN pageQueries(who, p, c) ELSE {}
showing(st, who, p, c) == WalletChip(st, who) \union queriesOf(st, who, p, c)
shown == showing(status, user, page, cache)

\* The server's answer: to anyone, to whoever is signed in, or by role.
public == {"jobs", "job"}
readable(who, k) ==
  CASE k[1] \in public -> TRUE
    [] k[1] \in {"jobs/mine", "proposals"} -> who = "client"
    [] k[1] = "proposals/mine" -> who = "freelancer"
    [] k[1] \in {"disputes", "dispute"} -> who = "admin"
    [] OTHER -> who # NoUser

-----------------------------------------------------------------------------
(* The query cache.                                                        *)

NoRequest == [act |-> "none"]
Empty == [data |-> NoData, stale |-> FALSE, step |-> "idle", by |-> NoUser, got |-> NoData]

idle(k) == cache[k].step = "idle"
isLoading(k) == cache[k].data = NoData /\ ~idle(k)

hasFailed(k) == cache[k].data = NoData /\ idle(k)

rest(q) == [q EXCEPT !.step = "idle", !.by = NoUser, !.got = NoData]
ask(q, who) == [q EXCEPT !.step = "sent", !.by = who, !.got = NoData]

\* A query is mounted: without an answer, or with one that is stale or 30 seconds old, it
\* is asked for.
mount(c, keys, who, aged) ==
  [k \in Keys |->
     IF k \in keys /\ c[k].step = "idle" /\ (c[k].data = NoData \/ c[k].stale \/ aged)
       THEN ask(c[k], who) ELSE c[k]]

\* invalidateQueries: what is shown is asked for again and the request under way is given
\* up, unless it is the first one.
FaultyInvalidate(keys) ==
  [k \in Keys |->
     IF k \notin keys THEN cache[k]
     ELSE IF k \in shown /\ idle(k)
       THEN [ask(cache[k], user) EXCEPT !.stale = TRUE] ELSE [cache[k] EXCEPT !.stale = TRUE]]
invalidate(keys) ==
  [k \in Keys |->
     IF k \notin keys THEN cache[k]
     ELSE IF k \in shown /\ ~isLoading(k)
       THEN [ask(cache[k], user) EXCEPT !.stale = TRUE] ELSE [cache[k] EXCEPT !.stale = TRUE]]

\* The store and the page change: what is newly shown is mounted.
show(st, who, p, c, aged) ==
  /\ status' = st /\ user' = who /\ page' = p
  /\ LET remounted == IF p = page THEN {} ELSE queriesOf(st, who, p, c)
     IN cache' = mount(c, remounted \union (showing(st, who, p, c) \ shown), who, aged)

\* A 401 without a token waits for the refresh that the bootstrap has under way, and is
\* sent again with the token that brings.
waits(k) == k[1] \notin public /\ cache[k].by = NoUser /\ boot # "over"
reader(k) == IF cache[k].by = NoUser THEN user ELSE cache[k].by

Read(k) ==
  /\ cache[k].step = "sent" /\ ~waits(k) /\ readable(reader(k), k)
  /\ cache' = [cache EXCEPT ![k] =
       [@ EXCEPT !.step = "back", !.by = NoUser, !.got = [rev |-> server[k], of |-> reader(k)]]]
  /\ UNCHANGED <<auth, page, pending, server, exists, mine, bounds>>

event == events < MaxEvents /\ events' = events + 1

\* 401 or 403: not tried again.
Refuse(k) ==
  /\ cache[k].step = "sent" /\ ~waits(k) /\ ~readable(reader(k), k)
  /\ cache' = [cache EXCEPT ![k] = rest(@)]
  /\ UNCHANGED <<auth, page, pending, server, exists, mine, bounds>>

Arrive(k) ==
  /\ cache[k].step = "back"
  /\ show(status, user, page, [cache EXCEPT ![k] = [Empty EXCEPT !.data = cache[k].got]], FALSE)
  /\ UNCHANGED <<boot, pending, server, exists, mine, bounds>>

\* The network or the server fails the request and its two retries: what was there stays.
GiveUp(k) ==
  /\ ~idle(k)
  /\ event
  /\ cache' = [cache EXCEPT ![k] = rest(@)]
  /\ mine' = mine \ {k}
  /\ UNCHANGED <<auth, page, pending, server, exists, changes>>

-----------------------------------------------------------------------------
(* Sessions and navigation.                                                *)

\* A page is loaded from its address; the refresh cookie, if it works, is somebody's.
PagesInit ==
  /\ exists = {<<"job", 1>>, <<"contract", 1>>}
  /\ boot \in Users \union {NoUser} /\ status = "loading" /\ user = NoUser
  /\ page \in Pages \ {<<"dispute", 1>>}
  /\ cache = mount([k \in Keys |-> Empty],
                   showing("loading", NoUser, page, [k \in Keys |-> Empty]), NoUser, FALSE)
  /\ pending = NoRequest
  /\ server = [k \in Keys |-> 0]
  /\ mine = {} /\ changes = 0 /\ events = 0

FaultyStatusAfter(who) == IF who = NoUser THEN status ELSE "authenticated"
statusAfter(who) == IF who = NoUser THEN "anonymous" ELSE "authenticated"

\* bootstrap: refreshSession never rejects; whatever it brings, the store has an answer.
bootstrap ==
  /\ boot # "over" /\ boot' = "over"
  /\ \/ UNCHANGED events /\ show(statusAfter(boot), boot, page, cache, FALSE)
     \/ /\ event
        /\ show(statusAfter(NoUser), NoUser, page, cache, FALSE)
  /\ mine' = {}
  /\ UNCHANGED <<pending, server, exists, changes>>

\* RequireRole: to the login page, once it is known that nobody is signed in.
redirect ==
  /\ page[1] \in Guarded /\ status = "anonymous"
  /\ show(status, user, Login, cache, FALSE)
  /\ UNCHANGED <<boot, pending, server, exists, mine, bounds>>

\* A link, or Back.  A dispute is opened from its row in the queue.
Navigate(p, aged) ==
  /\ event
  /\ p # page
  /\ p[1] = "dispute" => page[1] = "disputes" /\ cache[page].data # NoData
  /\ show(status, user, p, cache, aged)
  /\ UNCHANGED <<boot, pending, server, exists, mine, changes>>

\* The window gets the focus back, more than 30 seconds later.
focus ==
  /\ event
  /\ cache' = mount(cache, shown, user, TRUE)
  /\ UNCHANGED <<auth, page, pending, server, exists, mine, changes>>

\* Not for a user who is signed in, although nothing keeps them off the page.
login(who, aged) ==
  /\ event
  /\ page = Login /\ user = NoUser
  /\ show("authenticated", who, Dashboard, cache, aged)
  /\ mine' = {}
  /\ UNCHANGED <<boot, pending, server, exists, changes>>

\* Whether or not the request succeeds; only if it does, the header goes to the login page.
\* The cache keeps what it has.
logout ==
  /\ event
  /\ status = "authenticated"
  /\ \E p \in {Login, page} : show("anonymous", NoUser, p, cache, FALSE)
  /\ mine' = {}
  /\ UNCHANGED <<boot, pending, server, exists, changes>>

-----------------------------------------------------------------------------
(* Forms and buttons.                                                      *)

Acts == {"post", "bid", "reject", "accept", "topUp", "milestone", "resolve"}

has(k) == k \in shown /\ cache[k].data # NoData

\* Where an action is offered, and to whom.
mayPost == page[1] = "new" /\ renders(status, user, page)
mayBid == page[1] = "job" /\ has(page) /\ user = "freelancer"
mayReview == page[1] = "job" /\ has(page) /\ user = "client" /\ has(Proposals(page))
mayTopUp == page[1] = "wallet" /\ Wallet \in shown /\ ~isLoading(Wallet)
\* An admin who looks at a contract is offered the freelancer's buttons.
mayMove == page[1] = "contract" /\ has(page)
mayRule == page[1] = "dispute" /\ has(page)

offered(act) ==
  CASE act = "post" -> mayPost
    [] act = "bid" -> mayBid
    [] act \in {"reject", "accept"} -> mayReview
    [] act = "topUp" -> mayTopUp
    [] act = "milestone" -> mayMove
    [] act = "resolve" -> mayRule

NewJob == <<"job", 2>>
NewContract == <<"contract", 2>>

\* The queries whose answer an action on page p changes.
changed(act, p) ==
  CASE act = "post" -> {<<"jobs", 0>>, MyJobs, NewJob}
    [] act = "bid" ->
         {p, Proposals(p), MyProposals, <<"jobs", 0>>, MyJobs}
    [] act = "reject" -> {Proposals(p), MyProposals}
    [] act = "accept" ->
         {p, Proposals(p), MyProposals, <<"jobs", 0>>, MyJobs,
          MyContracts, NewContract}
    [] act = "topUp" -> {Wallet}
    [] act = "milestone" -> {p, Wallet, MyContracts, Queue}
    [] act = "resolve" -> {p, Queue, <<"contract", 1>>, MyContracts, Wallet}

\* The queries the page invalidates after it.
FaultyInvalidated(act, p) ==
  CASE act = "bid" -> {p}
    [] act = "reject" -> {Proposals(p)}
    [] act = "topUp" -> {Wallet}
    [] act = "milestone" -> {p, MyContracts}
    [] act = "resolve" -> {Queue}
    [] OTHER -> {}
invalidated(act, p) ==
  CASE act = "bid" -> {p}
    [] act = "reject" -> {Proposals(p)}
    [] act = "topUp" -> {Wallet}
    [] act = "milestone" -> {p, Wallet, MyContracts}
    [] act = "resolve" -> {Queue}
    [] OTHER -> {}

\* What an action adds, and the page it then leads to.
added(act) == CASE act = "post" -> {NewJob} [] act = "accept" -> {NewContract} [] OTHER -> {}
leadsTo(act) ==
  CASE act = "post" -> NewJob
    [] act = "accept" -> NewContract
    [] act = "resolve" /\ page[1] = "dispute" -> Queue
    [] OTHER -> page

\* A form is sent or a button pressed, and the server does what is asked: what it decides
\* by is in the other modules.  A request that it refuses changes nothing here; an admin is
\* no party of a contract.
Submit(act) ==
  /\ pending = NoRequest /\ offered(act)
  /\ act = "milestone" => user # "admin"
  /\ added(act) \intersect exists = {}
  /\ changes < MaxChanges /\ changes' = changes + 1
  /\ server' = [k \in Keys |-> IF k \in changed(act, page) THEN server[k] + 1 ELSE server[k]]
  /\ exists' = exists \union added(act)
  /\ pending' = [act |-> act, on |-> page, by |-> user]
  /\ mine' = mine \ changed(act, page)
  /\ UNCHANGED <<auth, page, cache, events>>

\* The answer does not arrive, or is a 500 for a change that was made: the page shows the
\* error of a refusal and is as it was.
AnswerLost ==
  /\ pending # NoRequest
  /\ event
  /\ pending' = NoRequest
  /\ UNCHANGED <<auth, page, cache, server, exists, mine, changes>>

\* Also when the user has left the page that asked.
AnswerOk ==
  /\ pending # NoRequest
  /\ pending' = NoRequest
  /\ show(status, user, leadsTo(pending.act), invalidate(invalidated(pending.act, pending.on)), FALSE)
  /\ mine' = IF user # pending.by \/ (page # pending.on /\ page = leadsTo(pending.act)) THEN mine
             ELSE mine \union {k \in changed(pending.act, pending.on) :
                                 ~isLoading(k) /\ (k \in shown /\ ~hasFailed(k))'}
  /\ UNCHANGED <<boot, server, exists, bounds>>

-----------------------------------------------------------------------------

PagesNext ==
  \/ \E k \in Keys : Read(k) \/ Refuse(k) \/ Arrive(k) \/ GiveUp(k)
  \/ bootstrap \/ redirect \/ logout \/ focus
  \/ \E aged \in BOOLEAN :
       \/ \E p \in Pages : Navigate(p, aged)
       \/ \E who \in Users : login(who, aged)
  \/ \E act \in Acts : Submit(act)
  \/ AnswerLost \/ AnswerOk

PagesSpec == PagesInit /\ [][PagesNext]_pageVars

\* Fetches settle, with an answer or an error, and an effect of React runs.
FairPagesSpec ==
  /\ PagesSpec
  /\ WF_pageVars(bootstrap) /\ WF_pageVars(redirect)
  /\ WF_pageVars(\E k \in Keys : Read(k) \/ Refuse(k) \/ Arrive(k))

-----------------------------------------------------------------------------
(* Properties.                                                             *)

\* Who has done something sees it done: on the screen their action left them on, and when
\* they come back to it, whatever requests were under way, every query that the action
\* changed shows the change once it has an answer.  "Showing one updated without the other
\* is exactly the kind of inconsistency this project is about" (hooks.ts:99).  Excepted are
\* a first answer that was under way (see the known gaps) and a request that failed.
ActedPageIsCurrent ==
  \A k \in mine \intersect shown :
    idle(k) => cache[k].data # NoData /\ cache[k].data.rev = server[k]

\* A page is a spinner: its guard does not know the user, or a query has no first answer.
spinning ==
  \/ page[1] \in Guarded /\ user = NoUser
  \/ \E k \in shown : isLoading(k)

\* No page is a spinner for ever: the bootstrap, the redirect and every first request come
\* to an end, also the one that has to wait for the bootstrap's refresh.
PageSettles == spinning ~> ~spinning

\* What a page shows of a user's own was read for that user.  Does not hold: the cache
\* outlives a logout, see the known gaps in the README.
OwnDataOnly ==
  \A k \in shown : cache[k].data # NoData /\ k[1] \notin public => cache[k].data.of = user

=============================================================================
