# TrustLance, specified

TrustLance is a freelance marketplace: a client posts a job, accepts a freelancer's
proposal, and pays the resulting contract milestone by milestone out of an escrow.
The repository is an Express API over PostgreSQL (Prisma) and Redis, a Next.js client,
and their shared types. This directory holds TLA+ modules that model the parts of it in
which order, overlap and failure matter, the TLC runs that check them on small instances,
and theorems about them that the TLA+ proof system has checked for every instance.

Paths below are relative to the repository. `PROJECT.json` maps every definition to its
lines and lists the runs, the findings, the hazards and the theorems.

## 1. The system

### Components

| Component | State it keeps | Operations | Modelled in |
|---|---|---|---|
| Escrow state machine (`modules/escrow/escrow.service.ts`) | `milestones`, `contracts.status`, `disputes`, `work_records` | deposit, fund, start, submit, request changes, approve, cancel, dispute, resolve | `Escrow` |
| Ledger arithmetic (`ledger.service.ts`) | the append-only `escrow_transactions`; no balance column anywhere | wallet balance, escrow of a milestone, total locked: sums | `Escrow` (sums), `LedgerRows` (rows) |
| Auto-release worker (`jobs/auto-release.worker.ts`) | none; BullMQ's schedule | every minute: list what is due, approve one after the other | `Escrow` |
| Escrow routes (`escrow.routes.ts`) | none | authorisation, request schemas, wallet and dispute views | guards and inputs of `Escrow`; the views not |
| Refresh-token sessions (`modules/auth/token.service.ts`, `auth.routes.ts`) | `refresh_tokens`: hash, family, expiry, revocation, successor | login, register, refresh (rotate), logout | `Sessions` |
| Browser session (`web/src/lib/api.ts`, `stores/auth.ts`) | cookie (shared by tabs), access token and `refreshInFlight` (per tab) | request, refresh once on 401, bootstrap, logout | `Sessions` |
| Jobs and proposals (`jobs.routes.ts`, `proposals.routes.ts`) | `jobs`, `proposals`, `contracts` | post, close, bid, reject, accept | `Marketplace` |
| Accounts and credentials (`auth.service.ts`, `oauth.service.ts`, verification in `auth.routes.ts`) | `users`, `oauth_accounts`, one-time values in Redis | register, log in, Google sign-in and linking, verify an address | `Accounts` |
| Profiles and avatars (`users.routes.ts`, `avatar.ts`) | `profiles`, files on disk | edit, upload or remove a picture, serve it | `Profiles` |
| Contract workspace (`workspace.routes.ts`, the timer and file panels) | `messages`, `time_entries` (a hash chain), `file_attachments` | log time, verify the chain, upload; chat | `Workspace`; the chat in `ContractPage` |
| Contract routes (`contracts.routes.ts`) | none | reads for the parties | the reads of `ContractPage` and `Pages` |
| Realtime sockets (`realtime/socket.ts`) | rooms of connected sockets | handshake, join, emit | `ContractPage` |
| Reputation (`signing.service.ts`, `trust-score.service.ts`) | signing keys in the process; `users.trustScore` | sign, verify, recompute the score | `Reputation`; the record's insert in `Escrow` |
| Notifications (`notifications.routes.ts`) | `notifications` | write and push, list, read all | `Reputation` |
| Rate limiter (`middleware/rate-limit.ts`) | Redis counters per address and window | INCR, EXPIRE, TTL; the login form's cooldown | `Limits` |
| Request middleware (`auth.ts`, `validate.ts`, `error-handler.ts`) | none | who may call, what is well-formed | guards and refusals of `Pages`; inputs of the other modules |
| Web pages and components (`web/src`) | the auth store, the query cache, the socket, forms | guards, queries, invalidations, buttons | `Pages` (all pages but the contract's events), `ContractPage`, and the panels in the modules of what they write to |
| Health, docs, configuration, shared types, tests | none of their own | wiring and declarations | not modelled |

### How they interact

A browser calls the API; the API runs each request as one asynchronous handler, and
handlers interleave at every `await`. The API's memory holds only
signing keys and the rooms of sockets; all other state is in PostgreSQL, in Redis and, for
files, on disk. Escrow operations run in a transaction that starts with
`SELECT ... FOR UPDATE` on the milestone, and `fundMilestone` also takes an advisory lock
on the wallet. The worker runs in the API process and uses the same approval as a client.
An accepted proposal creates the contract and the milestones the escrow then works on.
After a commit the service recomputes the trust score, inserts a notification and emits
to sockets; these effects are neither retried nor undone.

In the browser, all pages share one auth store, one query cache and one socket. A page
shows what the cache has; a form invalidates the queries it knows it changed, a socket
event those that somebody else changed. Requests, their answers and socket events travel
independently of each other.

### What is hard

* **Several locks, one isolation level.** Escrow runs under READ COMMITTED. What a
  milestone's lock protects is safe to read and use later; what it does not protect (the
  wallet, the sibling milestones, the key of another request, the dispute's status read
  before the lock, the sweep's list) is where interleavings matter.
* **Retries.** Money operations take an optional idempotency key that is unique in the
  whole ledger.
* **Exchange of single-use tokens** between two parties over a connection that can break,
  with two caches of it (a cookie shared by tabs, a promise per tab), and a server that
  commits one refresh in up to three steps.
* **Decisions on stale reads.** Every marketplace handler decides on what it read before
  it wrote.
* **Counters, chains and versions** that are read in one statement and written in the next.
* **A cache of everything** on the client, kept current by hand: what a mutation forgets to
  invalidate, what was asked for before it and answered after it, and what a signed-out
  user leaves behind.
* **Stops.** A process restart or a 15-second transaction timeout ends any of this between
  two steps, and takes what was only in memory (signing keys, rooms, requests) with it.

### What makes each part correct

* *Escrow*: money is conserved; the ledger and the state machine never disagree; a wallet
  is never overdrawn; a milestone is paid out in one commit and never again; a dispute
  freezes its milestone; a contract is completed when, and only when, its milestones are
  all terminal (with two exceptions, see section 3); a 200 means it was done; lapsed
  submissions are eventually dealt with.
* *Sessions*: a token is exchanged once; a family has one live token; a revoked or ended
  session is over; honest use is never mistaken for a leak; no tab waits on a refresh that
  is over.
* *Marketplace*: a job becomes one contract; decisions stand; bids are answered; an
  acceptance happens as a whole.
* *Accounts*: one account per address and identity, with a way into it; nothing a sign-in
  or a verification gave is taken away; a used link verified its account.
* *Profiles*: no picture is lost or left on disk, no cached picture is the wrong one.
* *Workspace*: an untouched chain verifies and an altered one does not; time is logged
  once; file versions are distinct.
* *Reputation*: the score is that of the history; what was signed verifies; unread notices
  come first.
* *Rate limiter*: every counter expires; no stretch of a window's length admits more than
  twice its limit.
* *Web*: what a page shows at rest is what the server holds; what it offers the server
  accepts; who has done something sees it done; no page waits for ever.

The hazards behind these, each at its line, are in `PROJECT.json`.

## 2. The modules

### Escrow, Custody, LedgerRows, Settlements

`Escrow` is `escrow.service.ts`. Its variables are the columns the operations read and
write (`state`, `clock` for `autoReleaseAt`, `contractStatus`, `records`, `dispute`), the
sums the code selects from the ledger (`funded`, `released`, `refunded` by milestone,
`credits`, `debits`, `deposited` by user), the keys in the unique column (`usedKeys`), and
the processes: `txn[m]`, the open transaction that holds milestone `m`'s row lock, `due`,
what the sweep has listed and not visited, and `acked`, what clients were told.

An operation that touches only what its lock protects is one action (`startMilestone`,
`submitMilestone`, `requestChanges`, `cancelMilestone`, `openDispute`): whatever happens
between its statements, no other transaction can see or disturb it. Operations that read
what others may change are split at these reads:

| Code | Actions |
|---|---|
| `fundMilestone` | `FundBegin`, `WalletLock`, `ReadCredits`, `BalanceOk` or `InsufficientFunds`, `FundCommit`; `FundReplay` for a known key |
| `approveMilestone` | `ApproveBegin`, `CountOpen`, `ApproveCommit`; `ApproveReplay` |
| `resolveDispute` | `ResolveBegin`, `CountOpen`, `ResolveCommit` |
| `sweepAutoReleases` | `SweepList`, then `SweepApprove` or `SweepSkip` for each, then as an approval |
| transactions that do not commit | `KeyTaken` (unique violation), `Rollback` (timeout, connection, signing), `Crash` |

The approval writes its rows before it counts and commits after; the rows are invisible
until the commit and protected by the lock until then, so `ApproveCommit` writes them all.
Rows that are inserted with amount 0 by the formulas of the model are not written by the
code and not appended by `LedgerRows`.

`Custody` is what the escrow promises, with no transaction in sight: a custodian that
takes a milestone's amount out of its client's wallet in one step if it is there, keeps
it, and hands all of it out to the two parties in one step. `Escrow` implements it under
`wallet <- credits - debits`, `held <- funded - (released + refunded)`,
`open <- the milestones without a FUND row`.

`LedgerRows` extends every inserting action of `Escrow` with the rows it appends to a bag
and computes each balance from the bag, as `ledger.service.ts` does. It justifies keeping
sums in `Escrow` and checks `userInEscrowCents`, which no operation reads.

`Settlements` adds the memory of three overlaps that the code leaves open: contracts of which
a milestone ended between a sibling's count and the commit that count decides (`raced`), or
whose last milestone was cancelled (`cancelledLast`), and milestones submitted again after
the sweep listed them (`overtaken`). Its two properties say that a contract is completed
exactly when its milestones are over, and that the sweep pays only what lapsed, but for these.
It and `LedgerRows` change no step of `Escrow` and are checked in one run.

### Sessions, Succession, SessionRaces

One user's refresh tokens on the server and one browser with several tabs. `family`,
`revoked`, `expired`, `successor` are the rows; `cookie` is shared, `accessToken` and
`inFlight` are per tab; `call[c]` is a request on its way: the token its cookie carried,
how far the server is with it, the answer, and the tab that waits (`NoTab` after a
reload). `loggedOut` and `burnt` record which families a user or the server ended.

`rotateRefreshToken` is split where it commits. The serializable transaction is one of
`Reused`, `Expired`, `Rotate`; the successor's row (`Issue`), the link to it (`Link`) and
the revocation of a family (`revokeFamily`) are commits of their own. Answers are
delivered later and in any order (`AnswerOk`, `AnswerClear`, `AnswerNone`, `Drop`).
Failures: `RefreshThrows` (a statement or the third serialization conflict; the route's
`catch` clears the cookie), `Restart`, `AnswerLost`, `Reload`. The retries of a
serialization conflict need no action: an aborted attempt leaves nothing behind.

`Succession` is what rotation promises, with no call, tab or answer in sight: a session
begins with a token (`Begin`); presenting its only unused token uses that up for good
(`Present`) and earns it one successor (`Succeed`) at most, for the server may fail first
(`Forget`); and the session may end at any time (`End`). `Sessions` implements it under
`issued <- the family's rows`, `unused <- those of them that are not revoked`,
`exchanged <- the families of which a call is rotating`.

`SessionRaces` adds the memory of two overlaps: `tabsRaced`, two tabs were refreshing with
one token, and `endRaced`, a session was being logged out or revoked while a refresh was
under way. It changes no step of `Sessions`. Its properties say what holds of a browser
that has not met them, so that the two races stand out as the only causes.

### Marketplace, BidRaces

`jobStatus`, `proposal` and `contracts` are the rows; `handler[r]` is a request under way
and the step it has reached. Bidding and rejecting are a read and a write; accepting is a
read and a transaction whose statements take row locks (`proposalLocked`, `jobLocked`, the
unique index on a contract's proposal). `DeadlockVictim` is PostgreSQL's abort of one of
two transactions that wait for each other, `Abort` any other failure. Posting a job is not
an action: a job nobody has bid on is the initial state. `BidRaces` remembers in `raced`
the jobs on which two requests were under way at once, and states the promises of the
routes for the others.

### Accounts, Profiles

A person is one address, known to Google, with one password. `account[p]` is the `users`
row with its link; `pending` and `token` are the one-time values in Redis; `request[r]` is
a handler and the step it has reached. `registerUser` is a read and, after the hash, a
write that the unique index may refuse; `handleGoogleCallback` is GETDEL, two lookups and a
write (`CallbackTake`, `FindLink`, `FindByEmail`, `LinkOrCreate`); `POST /verify-email` is
GET, DEL and an update. `IssueSession` is where `Sessions` begins. `dropped` remembers the
tokens that expired or whose request failed after using them up.

`Profiles` extends it with the `profiles` row (`avatar`, `version` for `updatedAt`), the
directory (`uploads`), the handlers' steps (read the old path, update, delete the old file
behind the answer) and a browser with its user object (`shown`) and its HTTP cache, which
keeps a picture for ever under the URL it was loaded from.

### Workspace

`log[c]` is the contract's time entries in commit order, each with its interval, its
predecessor's hash and `createdAt`; `files` and `disk` are the rows and what multer stored;
`tab[t]` is a time tracker on a freelancer's screen. An append is the advisory lock, the
look at the newest row and the insert (`ChainLock`, `ChainLast`, `ChainAppend`); an upload
counts versions and creates (`CountVersions`, `CreateFile`). `Edit` and `Delete` are
somebody with access to the database, `ClockBack` a corrected clock. `readings` are the
orders in which `GET /time` may see the rows, `chainValid` its walk over them.

### Reputation

One freelancer's milestones from the approval on: keys imported or generated on first use
across two awaits (`approve`, `KeysReady`, `PemReady`), the record signed with the commit,
then the score's two concurrent reads and its write, the notification, the bell. The score
is computed in tenths by the code's formula. `suspect` remembers that a recomputation was
lost or overlapped another, until one ran alone; `coldRaced` that a generated pair was lost
or made twice.

### Limits

`count` and `ttl` are a limiter's Redis key; `call[k]` is a request in its chain of
limiters, up to two commands each. `Tick` is time, `Outage`/`reconnect` the connection
(commands wait in the client's queue), `Resent` an INCR that was carried out twice,
`failOpen` an error from Redis. `recent` counts the admissions of the last ticks, up to a
window's length of them, which is how a property can speak of any stretch of time, and
`cooldown` is the login form.

### ContractPage

The page of one contract for one viewer: `cache` has the contract's and the messages'
query, each with the answer shown, the request under way and the answer on its way; `sock`
is the tab's socket with its room; `inbox` what is in it; `unsent` what handlers have
committed and not yet emitted. Everyone else is `OthersMove` and `PostMessage`. `covered`
holds the queries whose answer was read while the page listened in the room and that have
missed nothing since: its properties speak of these. The transitions (`MOVES`) are those of
`Escrow` without their money.

### Pages

One tab across all pages: the bootstrap from the refresh cookie, the store, the guards
(`RequireRole`), each page's queries and the header's, the shared cache, and the seven
forms and buttons with what the server then changes (`changed`) beside what the page
invalidates (`invalidated`). A query's content is how often it changed and for whom it was
read. A request without a token waits for the bootstrap's refresh, as `apiRequest` does.
`mine` holds the queries that a change of the user's left on the screen in front of them.

The two client modules divide the work: `ContractPage` has the events, other users and a
query's whole life on one page; `Pages` has one user's own actions and everything that
several pages share.

### Conventions

Definitions named `Faulty...` are deliberately wrong variants (a missing lock, a dropped
filter, a forgotten reset) of the definition that follows; no specification uses them.
They are there so that each property can be seen to notice the fault it is about. `MC...`
modules give TLC's instances. The environment is modelled from the way the code uses it:
PostgreSQL's locks, unique indexes and isolation; Redis commands; the browser's cookie jar,
`fetch` and HTTP cache; React Query's cache, in which an invalidation gives up a request
under way unless it is the query's first; Socket.IO's rooms.

## 3. What the runs show

Run one with `tlc -workers 2 -config <cfg> <module>`.

### Properties that hold

| Run (cfg, module) | Instance | Properties |
|---|---|---|
| `escrow_safety` (`Escrow_safety.cfg`, `MCEscrow`) | one contract, two milestones of 1 and 2 cents, two disputes, a key shared by all requests or none, rulings of 50 and 100 %, 4 cents of deposits per user, one crash or rollback; 192 000 states | `LedgerAgreesWithState`, `WalletNeverOverdrawn`, `DisputesMatchState`, `PaidOutOnce`, `DisputeFreezesEscrow`; under fairness `LapsedIsHandled`, `TransactionsEnd` |
| `escrow_ledger` (`LedgerRows.cfg`, `MCLedgerRows`) | two contracts with the parties crossed, three milestones, one dispute, one key per request, rulings of 50 and 100 %, one failure, the rows and the memory of `Settlements`; 340 000 states | `RowsMatchSums`, `InEscrowIsLive`, `MoneyConserved`, `AckedMeansDone`, `ImplementsCustody`; and, outside the overlaps, `CompletionIsExact`, `WindowIsHonoured` |
| `sessions_tabs` (`Sessions_tabs.cfg`, `MCSessionRaces`) | two tabs, two calls, three tokens, two logins, one failure; 1 000 000 states | `ImplementsSuccession`, `ExchangedOnce`, `PromiseIsKept`; and, outside the races, `ReuseIsNoAccident`, `CookieWorks`, `LogoutEndsSession`, `ReuseKillsFamily` |
| `market` (`Market.cfg`, `MCBidRaces`) | two jobs, two freelancers, three requests at once, one failure; 521 000 states | `AcceptedIsWhole`; and, for jobs without a race, `OneContractUnlessRaced`, `NoBidLeftPending`, `DecisionsStandUnlessRaced` |
| `limits` (`Limits.cfg`, `MCLimits`) | a limiter of 3 a tick before one of 2 in three ticks, one login form and one other caller, one failure; 191 000 states | `TwiceAtMost`; under fairness `WindowEnds` |
| `workspace` (`Workspace.cfg`, `MCWorkspace`) | two contracts, two trackers of one of them, one file name, three requests, a clock of three instants, one failure or edit; 905 000 states | `ChainTellsTheTruth`, `NoTimeTwice`, `VersionsCount` |
| `accounts` (`Accounts.cfg`, `MCProfiles`) | one person, with or without an account and a picture, three requests, two OAuth states, one token, one failure; 1 800 000 states | `Inv` (one session for each state, a way into every account, a used token verified), `AccountStands`, `AvatarFiles`, `CachedIsCurrent` |
| `reputation` (`Reputation.cfg`, `MCReputation`) | two milestones, ratings of 1, 5 or none, keys of the environment or generated, two failures | `ScoreFollowsHistory`, `RecordsVerify` |
| `contract_page` (`ContractPage.cfg`, `MCContractPage`) | a party as viewer, one transition, one message, one failure, three openings of page, chat or prompts, from every state of a milestone; 6 500 000 states | `LiveViewIsTrue`, `ChatIsComplete` |
| `pages` (`Pages.cfg`, `MCPages`) | a user of each role or none, loading any page; one change; two navigations, sign-ins, sign-outs, returns to the window or failures; 628 000 states | `ActedPageIsCurrent`; under fairness `PageSettles` |

The properties that are qualified by a race or another exception are the counterparts of a
violation or a known gap below: what fails in the race holds in all other behaviours of the
same instance, expiry, crossed answers and failures included.

### Why the bounds are enough

* Two milestones of a contract are the least in which the sibling count can be wrong; the
  third, in a second contract with the parties crossed, is what makes a payout and a fund
  meet in one wallet while another fund of it is under way.
* Amounts of 1 and 2 cents make a ruling of 50 % exact once and rounded once, a wallet of
  2 to 4 cents makes two funds compete for it.
* Two disputes are one more than a milestone can have. Two keys, or one shared by
  everything, cover reuse within and across operations.
* One failure interrupts every step once, together with the retry that follows.
* Tokens bound logins and rotations: three let a login be followed by two rotations, or two
  logins by the rotation of one while the other's token is still around. `Room` stops new
  logins and refreshes, never a call under way, when the tokens run out.
* In `Limits` a tick is a minute: windows of 60 and 900 seconds and the form's cooldown of
  60 keep their order as 1, 3 and 1. Limits of 3 and 2 let one caller be refused by each
  limiter and leave room for the two admissions around a window's boundary.
* Three time entries are the least in which the middle one can be edited or deleted with
  others before and behind it; three instants let two of them tie. The second contract is
  for versions and chains that must not be mixed up.
* Three requests on one account let registration, Google and a verification each meet the
  step of another; three requests on a profile are two uploads and a removal or an edit.
* Two milestones are the least whose recomputations overlap; the second failure comes after
  the restart that loses the keys. `PageSize` is two so that the third notice falls off.
* One change per client run: each property is about the time between a change and the
  screen's return to rest, in which several requests and events are under way anyway. The
  change may happen in any of the states that the page starts from and two or three visits
  lead to. With `Take = 1` and one message the chat's list is never cut off.
* Three requests let a deadlock of two meet a third. Two bids on a job are the least that
  compete; the second job is the one on which nothing overlaps while the first races.

Deadlock is checked in `Sessions`, `Marketplace` and `Limits`, where somebody can always
send another request or close a job again, or time passes. It is off where the bounds really
stop the system: when all milestones are terminal, requests are used up or the last failure has
happened, nothing is left to do.

Symmetry is used for interchangeable tokens, families, calls, jobs, freelancers, handlers,
requests, states and key pairs in safety runs, never with a liveness property. Tabs of a
browser and users are not permuted.

### Fairness

`Escrow`: weak fairness of every step a transaction takes on its own (the server sends the
next statement), of the sweep's list and of each of its visits (the scheduler fires every
minute, the worker awaits each approval in turn), and strong fairness of the wallet lock,
because PostgreSQL grants a lock to its waiters in order, so a fund is not overtaken for
ever. Users owe nothing: no request is fair, nor is the passing of time there.

`Limits`: weak fairness of serving whoever waits while Redis answers, of time, and of the
return of the connection (ioredis reconnects without end). `Pages`: weak fairness of the
bootstrap and of the redirect, which are effects React runs after a render, and of the
fetches taken together: as long as one is under way, one is read, refused or answered.
`fetch` rejects when a connection breaks, which is the step `GiveUp` and owes nothing.
The other modules state no fairness and no liveness.

### Where the code and its words part

Each of these runs violates one property that states what a comment, a document or a test
says; `PROJECT.json` quotes the line.

| Run | Property | What happens |
|---|---|---|
| `escrow_race` | `ContractCompletesUncancelled` | the last two milestones, approved at once, each count the other as open |
| `reputation_bell` | `UnreadFirst` | ordering by `readAt` ascending puts NULL, the unread, last, and the page size cuts it off |

Known gaps have no run of their own. Those that name a definition are stated in its
module: put it in place of a configuration's properties and TLC shows the counterexample.

*Escrow and marketplace*

* `ContractCompletes`: cancelling the last open milestone leaves the contract ACTIVE. That
  and the race of `escrow_race` are the only ways (`CompletionIsExact`).
* `AutoReleaseHonoursWindow`: a milestone resubmitted after the sweep listed it is paid
  inside its new review window. Nothing else is (`WindowIsHonoured`).
* `startMilestone` (`escrow.service.ts:149`) takes a SUBMITTED milestone back to work and
  leaves its review clock set, and `requestChanges` (`:189`) starts a FUNDED one: the
  transition table does not tell the two operations apart. Neither moves money.
* `alreadyProcessed` (`:81`) looks an idempotency key up in the whole ledger: a client that
  sends the key of one request with another is told that it succeeded. `AckedMeansDone` is
  therefore checked with a key of its own for each request.
* `OneContractPerJob`: two overlapping acceptances make two contracts of one job.
* A rejection that read PENDING overwrites an acceptance made meanwhile, and a bid that read
  the job OPEN is inserted after the job became a contract (excluded with `raced`).
* `GET /api/wallet` (`escrow.routes.ts:29`) reads balance, locked amount and rows in three
  statements; a fund in between is in one and not in the other.
* What follows the commit of an approval (`escrow.service.ts:291-299`) can fail: the client
  sees a 500 for a payment that was made, no event is sent, and a retry finds it already
  processed and does none of it either. `openDispute` does not recompute the score, which
  counts disputes; the next ending does.

*Sessions and accounts*

* `ReuseMeansLoggedOut`: two tabs present one token and the second looks like a leak.
* `RevokedFamilyIsDead`: a successor is inserted into a family that was just revoked.
* The catch of `POST /refresh` (`auth.routes.ts:79`) clears the cookie after a database
  error too, when the token would still work (`RefreshThrows`).
* A logout that overlaps a refresh revokes the token that is being exchanged and leaves its
  successor alive (`LogoutEndsSession` excludes it with `endRaced`).
* `apiRequest` treats a login's 401 like any other: with a live refresh cookie the login is
  refreshed and sent again. Uploads use `fetch` directly and get no refresh on a 401.
* A failure between DEL and the update uses a verification token up (`dropped`); the link
  that is mailed has no page in the web application.

*Workspace, profiles, reputation*

* Two entries created in one millisecond, or a clock that steps back, break a chain that
  nobody touched (`clockMoved`). The deletion of a chain's last row does not show.
* Two uploads of one name that overlap become the same version (`raced`). A file uploaded
  by somebody who is no party is stored before the request is refused, and stays.
* Two picture uploads that read the same old path leave one file without a row (`stray`).
  Answers of profile edits that arrive in the wrong order leave an older user in the store.
* Overlapping or lost recomputations leave an older score until the next (`suspect`).
  Without keys in the environment, records do not verify after a restart (`coldRaced`).
* Read-all marks notices that its user's list never showed.

*Rate limiter*

* A stop between INCR and EXPIRE leaves a counter without an end (`orphaned`). An error
  from TTL lets a request through that was one too many.
* `RequestsAreAnswered`, under `OutageSpec`: commands wait for Redis rather than fail
  (`maxRetriesPerRequest` is null), so an outage holds requests instead of failing open.
* `UnlocksInTime`: `Retry-After` is not among the headers that CORS exposes, so the form's
  cooldown is always its default of a minute.

*Web*

* `OwnDataOnly`: a logout clears neither the query cache nor the socket, and the keys of
  the wallet, the lists and the notices do not name a user: who signs in next in the same
  tab is shown the previous user's data until it is refetched.
* A query's first load is not given up when it is invalidated: read before a change and
  arriving after it, it stays, and counts as fresh. A message that arrives while the list
  read without it is on its way is lost from the screen.
* The bell's socket is closed by the page's `getSocket` when a contract page is loaded
  directly and it has not connected yet (`hooks.ts:166-173, 221`).
* A stale page or an open prompt offers transitions that the server refuses. An admin who
  looks at a contract is offered the freelancer's buttons.
* After a bid is accepted or a job posted nothing is invalidated: the lists on other pages
  are old for up to 30 seconds. A refused or lost action refetches nothing. An answer that
  leads to another page also moves a user who has gone elsewhere meanwhile.
* A bootstrap that ends after a login overrides it. A session that expires leaves the store
  saying authenticated while requests fail. A failed load looks like an empty page.
* While neither a user nor a job has been loaded, the job page takes its viewer for the
  owner and asks for the proposals, which the server refuses
  (`jobs/[jobId]/page.tsx:29-30`).
* The chat's list is the oldest 200 messages.

None of the escrow findings pays twice, loses money or overdraws a wallet: the theorems
below hold of the same specification.

## 4. What is proved

Every safety property that a run checks is a theorem as well, and so are the refinements of
`Custody` and `Succession`. The proofs are in the modules named `...Proofs`, those about
`Pages` with the marketplace's; `tlapm <module>.tla` checks one. The theorems are listed in
`PROJECT.json`.

They hold for every value of the constants that the ASSUMEs of the modules allow, which are
named and which TLC evaluates in every run: the parties of a contract differ, amounts are
positive, percentages are between 0 and 100, null values are not among the real ones. Some
are there for the proofs. `FinitenessAssumption`: users and milestones are finitely many,
without which their sums mean nothing. `ProfilesAssumption`: the path of an uploaded
picture is that of no picture Google gave (`avatar.ts:24-30` names uploads by a random
UUID under `/uploads`). `ContractPageAssumption`: the answer nobody has had is not a list
of messages. `PagesAssumption`: nobody is no role, and no answer is no answer. One theorem
has a hypothesis, `KeysNameRequests`, see below.

### Escrow

`Invariance` shows `Inv`, from which `TypeCorrect`, `LedgerCorrect`, `WalletCorrect`,
`CompletedCorrect` and `DisputesCorrect` follow, and with which each step is seen to
satisfy `NeverPaidTwice` and `DisputesFreeze`. The safety properties alone are not
inductive. What is missing is what the locks are for, and `Inv` says it:

* `LockedRowsStay`: what a transaction checked under the milestone's lock (its state, its
  dispute) still holds when it commits;
* `LockedWalletStays`: one fund at a time is past the wallet lock, the debits it compared
  with stand still, and the credits it read can only have grown, so a stale read is safe;
* `CountStays`: a count of no open siblings stays true, because terminal states are final.
  A count of some open siblings may become wrong, which is the race of `escrow_race`;
* `DisputesAreAttached`: a raised dispute points to a milestone that is disputed or
  resolved.

The inductive step first reduces every action to one of a few shapes (`RowSteps`: which
rows of which milestone move; `TxnSteps`: whether a transaction opens, advances or ends),
then treats each conjunct by shape. `EscrowImplementsCustody` is the refinement: `FundCommit`
is `Lock`, where `LockedWalletStays` gives the custodian's guard; the three payouts are
`Settle`, where `LedgerAgreesWithState` says that the whole amount is there; deposits are
`TopUp`; everything else stutters.

`MoneyIsConserved` says the same of all wallets and escrows together. Its step is
`MoneySteps`, which is what the refinement rests on too: money moves by a top-up or by a
step of the custodian, hence in one wallet or two and in one escrow. What is left is
arithmetic of sums over sets of any finite size. The library's induction over finite sets
takes a predicate as a parameter, which no prover here can instantiate, so the lemmas on
`SumFunctionOnSet` argue by a least counterexample (`LeastSet`: the strict subsets of a
finite set are well-founded): a sum may take its elements in any order (`SumTakes`), and
paying d cents to one account adds d to the total (`PaidAdds`).

`RowsMatch` and `InEscrow` are the ledger: `RowsInv` says that the table is a finite bag
(`Table`), that every sum `Escrow` keeps is the total of its rows (`Booked`), and that what
a client's rows put into escrows and did not get out is what these hold (`LockedUp`). Each
append adds its cents to the totals its row is in and to no other. `InEscrowIsLive` then
needs `LedgerAgreesWithState`: an escrow holds the whole amount or nothing.

`AnswersStand` is about retries: `KeysInv` says that a transaction carries the key of a
request for its own milestone (`Carries`), and that a key in the table proves that what its
request asked for was done, and done for good (`DoneStays`). That is why a replay may answer
200 without a look at the milestone. It is true only if no two requests share a key
(`KeysNameRequests`); the code does not check that (see the known gaps).

`ContractsComplete` and `SweepsAreFair` are about what no lock protects. Outside a race,
`CountStays` has a counterpart: a count that saw a sibling open is still right
(`OpenCountsStay`), because a sibling that ends under a count is what `raced` remembers. So
the commit that ends the last milestone had counted none open and completes the contract; a
cancellation counts nothing and is the exception. `ListIsFresh` says of the sweep that what
it listed, and nobody submitted again, is lapsed for as long as it is submitted, which is
what its approval then relies on.

### Sessions

`AtMostOneLiveToken` rests on the observation that two live tokens of a family would need
two rotations of it under way at once. `RotationsAlone`: a rotation under way has left its
family without a live token, and no other rotation of that family is under way.
`ExchangesApart`: calls that exchange work on different tokens, used up and not yet linked,
from which `NeverExchangedTwice` follows. `TokensExist`: what calls carry are tokens of
existing rows.

`SessionsImplementSuccession` is the refinement. A login is `Begin`. `Rotate` is `Present`:
that the token it takes was its family's only unused one is `OneLiveToken`. `Issue` is
`Succeed`: that its family waits for a successor and for one only is `RotationsAlone`. A
logout and the revocation of a family are `End`; the rotation that a failure or a restart
loses is `Forget`; tabs, answers, expired tokens and the link to a successor stutter.
`UsedTokensStayUsed` and `EndedSessionsStayEnded` are what the abstract session makes
obvious, carried over: no token that was used or revoked works again, and a session with no
unused token and no successor due has none ever after.

`PromiseKept` adds `StepsFit`: a refresh whose tab is still there is the one
its promise stands for, so the end of the call resets the promise.

The theorems of `SessionRaces` rest on `SessionInv`, which adds what is known of answers
under way (`AnswersFresh`): each brings a token that the browser has never presented, the
only one of its session that may work. `EndsHold` is the half about ends: while no end of a
session has overlapped a refresh, a revoked family stays over (`ReuseIsFinal`), and what may
work beside the token that the browser holds is on its way to it (`LastHeard`), so a logout
revokes the last of them (`LogoutIsFinal`). `TabsApart` is the half about tabs: without
failures and without two tabs refreshing one token there is one refresh of a session at a
time, with the token in the cookie (`OneRefresh`); a cookie that no longer works is about to
be replaced or cleared (`UsedCookie`, hence `CookieLeftWorks`); and a used token is presented
only after a logout of its session (`ReuseAfterLogout`, hence `ReuseNeverAccidental`).

### Marketplace

`AcceptanceIsWhole`: its invariant adds only that requests under way concern real bids. For
jobs without a race `RacesInv` adds that the only request on a job still finds what it read
when it writes (`ReadsStillHold`) and that the proposal behind a contract stays accepted;
`OneContract`, `BidsAnswered` and `DecisionsStand` follow.

### Accounts and profiles

`AccountsInd` says what a request has read and nobody can take back: a state or a token
that is gone, a user who exists (`RequestFits`). One callback at most works on a state, none
once it made a session (`OneCallback`). `AccountsStand` is then a property of each step.
For pictures, `PathsFit`: a path belongs to one profile, and the path that a request is
about to delete is nobody's once the row was written; with it `AvatarFiles` is inductive.
`Counted` makes a version the number of edits so far, so that the URL of a picture is new
after each, and `CacheFits` that nothing is cached under a URL the profile has not had yet.

### Workspace

`Excluded` and `SeenIsLast` are what the advisory lock gives: one request of a contract is
between reading the last hash and appending to it, so what it read is still the last.
`VersionsAreNumbered` counts files with the cardinality theorems; what an upload that was
not overtaken has counted is what there is. `TimeLoggedOnce` says of each tracker that its
intervals lie apart and end before a running timer was started, but for the one being saved
(`TimerFits`), and of each untouched row that it says what its request said (`RowsTell`).

`ChainIsEvidence` needs an argument about the past: a row may have been deleted or edited
long ago and the chain extended since. `ChainOf` keeps it in the depth of a hash, one more
than that of the hash it was made over: hashes are never shallower than the chain is long,
and once a row is gone the last hash is deeper than the chain is long, for ever, so no order
of reading makes the walk end well. An edited row says another time than its hash, for ever.
The depths are witnessed anew after each append.

### Reputation

`ScoreIsEarned`: a recomputation that nobody has overlapped since it began has read the
records as they are, and the disputes as they are once the last was ruled on
(`ReadIsCurrent`), however long its write takes. The model's sum of ratings is a function of
the ratings and the set of milestones (`sumOf`), of which the proof needs no more than that
it is one. `SignaturesVerify`: there is one key pair, the environment's or the one that the
first call of the process generates (`OnePair`), unless a cold start raced.

### Rate limiter

`BurstIsBounded` argues by window. `FitsWindow` is an invariant of one counter, its time to
live and the admissions of the past: those as far back as the open window surely reaches are
at most its counter, those within a window's length at most one limit more. It is kept by a
command that counts once or twice (`Counts`), by the setting of an end, however late
(`Lives`), and by a tick (`Passes`): when a window ends, all that is young enough to count
was admitted in it. The setting never shortens a window because one request at most is about
to set an end, and the window has none yet (`EndSetOnce`). `KeysExpire` is the other half:
a counter has an end, or its request is on the way, or it is an orphan.

### Contract page

`LiveView` and `ChatWhole` are about a query that is covered (`covered`): the page listened
when its answer was read and has missed nothing since. `ContractInd` and `MessagesInd` say:
what the answer lacks is told by an event that is still on its way, so when nothing is on
its way it lacks nothing. For the chat this is said of each message (`Complete`), which also
shows that an event and the answer it overlaps do not put a message on the screen twice.

### Pages

`ActionsAreSeen` is about what a form leaves on the screen. `Changes` is the fact about the
code: of what a form changes, the screen that it leads to shows only what it added and what
it invalidates. The rest is about the cache (`CacheFits`): a query that an action left its
user looking at either has the current answer, or has a request under way that will not be
refused, or one whose answer is current (`Settles`). Nobody has asked for a job or a contract
that does not exist (`Unasked`), so nothing on the screen it leads to was read before it was
made, and what else that screen asks for later is read later still. Refetches, navigations,
sign-ins and failures keep this one query at a time (`Kept`, `AskedBy`).

### What stays with TLC

* Liveness (`LapsedIsHandled`, `TransactionsEnd`, `WindowEnds`, `PageSettles`) is beyond the
  prover, which has no rule for fairness. `RefreshSettles`, the same for sessions, is stated
  in `Sessions` and has no run.
* The properties of the two violation runs, and those of the known gaps, do not hold.
* What folds compute for every input (`sumOf` beyond being a function of its arguments, the
  cardinality-based counts beyond the library's theorems) is not proved against a second
  definition: that is induction over data.

## 5. What is left out, and why

* Amounts are unbounded naturals; the columns are 32-bit integers. A single top-up is
  capped at 10 000 000 cents, so a wallet nears the limit only after hundreds of them.
* Ratings, titles, notes, feedback, submission times and due dates influence nothing but
  their display and are not in the model.
* Time is the order of events: a clock is not set, running or lapsed, a token expired or
  not. Access tokens have no expiry of their own: a 401 can come at any time.
* In `Escrow` signing either works or rolls the transaction back; with which keys is in
  `Reputation`. SHA-256 and signatures are taken to be injective and unforgeable.
* `createdAt` is the instant at which Prisma issues the create, `updatedAt` a new instant
  for every update of a row.
* `revokeAllUserTokens` is called by no route. `WITHDRAWN` proposals and `CANCELLED`
  contracts are written by no code.
* BullMQ is one worker in one process that runs one sweep at a time; several processes
  would run several sweeps, which the locks treat like clients.
* In `Pages` other users change nothing (they do in `ContractPage`), a request is decided
  at one moment, and a refused one changes nothing; job searches are one query, whatever
  their filters; the profile page, whose queries are the dashboard's, the landing page, the
  public trust profile and the verification page, which read once and keep nothing, are
  left out. In `ContractPage` the wallet's query and the admin's seat are left out of the
  instance: the first is in `Pages`, the second is a known gap.
* The record export, the showcase and the verification of a record only read what
  `Reputation` writes. Validation schemas and error shapes keep no state; what they let
  through is what the actions take as input. Markup, styles, themes, health checks, API
  docs, configuration, shared types and tests have no behaviour of this kind.

## 6. Plan

Done: every component whose state more than one step can disturb has its module and its
run; every safety property of a run is proved, for any number of everything, and so are the
refinements of `Custody` and `Succession`.

What would come next follows the code. Several API processes would mean several sweeps and
a key pair each, which `Escrow` and `Reputation` would take as a parameter. Closing the race
of the sibling count (a lock on the contract's row) or letting `cancelMilestone` count would
remove `raced` and `cancelledLast` from `CompletionIsExact`. Of the hazards in
`PROJECT.json`, those without a property are the wallet view, which three statements outside
a transaction put together, and edges that the known gaps describe.
