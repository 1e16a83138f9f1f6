------------------------------ MODULE Workspace ------------------------------
(***************************************************************************)
(* The contract workspace (modules/workspace/workspace.routes.ts) with the *)
(* two panels that write to it: the time tracker, whose completed          *)
(* intervals form a hash chain, and the shared files, whose versions are   *)
(* counted.  A request is one asynchronous handler; everything between two *)
(* of its statements may interleave with other requests, except inside the *)
(* advisory lock of a contract's time chain.  Chat: module ContractPage.   *)
(***************************************************************************)
EXTENDS Naturals, Sequences, FiniteSets

CONSTANTS
  Users,         \* who may call the API
  Contracts,
  ClientOf, FreelancerOf,  \* the parties of a contract, fixed when it is made
  Names,         \* file names
  Tabs,          \* time trackers on a freelancer's screens
  TabContract,   \* the contract a tab shows
  Requests,      \* requests, which also name the rows and stored files they make
  MaxTime,       \* bound of the server's clock
  MaxFailures,   \* bound of failures, clock corrections and edits of rows together
  NoTime, NoRequest, NoTab, NoContract

ASSUME WorkspaceAssumption ==
  /\ ClientOf \in [Contracts -> Users] /\ FreelancerOf \in [Contracts -> Users]
  /\ TabContract \in [Tabs -> Contracts]
  /\ MaxTime \in Nat /\ MaxFailures \in Nat
  /\ NoTime \notin Nat /\ NoRequest \notin Requests

VARIABLES
  log,       \* time_entries of each contract, in the order they were committed
  files,     \* file_attachments
  disk,      \* what multer has stored under uploads/
  request,   \* requests under way
  tab,       \* what a time tracker on the screen holds
  now,       \* Date.now() of browsers and server, in milliseconds
  failures,  \* failures so far
  raced,     \* <<contract, name>> with two uploads between count and create
  unsure,    \* tabs that lost an answer, or whose clock went back
  touched    \* contracts whose rows somebody changed behind the program's back

vars == <<log, files, disk, request, tab, now, failures, raced, unsure, touched>>

-----------------------------------------------------------------------------

GENESIS == <<>>

\* SHA256 over an entry's data and the hash before it, taken to be injective.
entryHash(c, from, to, prev) == <<c, from, to, prev>>

Entry(r, c, prev) ==
  LET from == request[r].item[1]
      to == request[r].item[2]
  IN [id |-> r, from |-> from, to |-> to, prev |-> prev,
      hash |-> entryHash(c, from, to, prev), createdAt |-> now]

Unsent == [op |-> "none", step |-> "unsent", contract |-> NoContract, by |-> NoTab,
           item |-> <<>>, seen |-> GENESIS]

At(r, op, step) == request[r].op = op /\ request[r].step = step

To(r, step) == request' = [request EXCEPT ![r].step = step]

ToWith(r, step, seen) == request' = [request EXCEPT ![r].step = step, ![r].seen = seen]

isParty(u, c) == u \in {ClientOf[c], FreelancerOf[c]}

versionsOf(c, n) == {f \in files : f.contract = c /\ f.name = n}

FaultyPriorVersions(c, n) == Cardinality({f \in files : f.name = n})
priorVersions(c, n) == Cardinality(versionsOf(c, n))

inChainLock(r) == request[r].op = "time" /\ request[r].step \in {"locked", "read"}

FaultyChainFree(c) == TRUE
chainFree(c) == \A r \in Requests : inChainLock(r) => request[r].contract # c

\* findFirst by createdAt descending: any of the newest rows if there are several.
newestHashes(c) ==
  LET rows == {log[c][i] : i \in DOMAIN log[c]}
  IN IF rows = {} THEN {GENESIS}
     ELSE {e.hash : e \in {x \in rows : \A y \in rows : y.createdAt <= x.createdAt}}

\* The orders in which GET may see a contract's entries: by createdAt, ties as they come.
readings(c) ==
  LET n == Len(log[c]) IN
  {[i \in 1..n |-> log[c][p[i]]] : p \in
    {q \in [1..n -> 1..n] :
      /\ \A i, j \in 1..n : q[i] = q[j] => i = j
      /\ \A i, j \in 1..n : i < j => log[c][q[i]].createdAt <= log[c][q[j]].createdAt}}

\* The walk from genesis that GET /time makes on every read.
FaultyChainValid(c, s) ==
  \A i \in DOMAIN s : s[i].hash = entryHash(c, s[i].from, s[i].to, s[i].prev)
chainValid(c, s) ==
  \A i \in DOMAIN s :
    LET prev == IF i = 1 THEN GENESIS ELSE s[i - 1].hash
    IN s[i].prev = prev /\ s[i].hash = entryHash(c, s[i].from, s[i].to, prev)

\* The server's clock moved between any two entries of the contract, as createdAt
\* with its milliseconds shows it.
clockMoved(c) ==
  \A i, j \in DOMAIN log[c] : i < j => log[c][i].createdAt < log[c][j].createdAt

-----------------------------------------------------------------------------

Init ==
  /\ log = [c \in Contracts |-> <<>>]
  /\ files = {} /\ disk = {}
  /\ request = [r \in Requests |-> Unsent]
  /\ tab = [t \in Tabs |-> [startedAt |-> NoTime, saving |-> NoRequest]]
  /\ now = 0 /\ failures = 0
  /\ raced = {} /\ unsure = {} /\ touched = {}

-----------------------------------------------------------------------------
(* The time tracker of one tab: a timer in the component's state. *)

start(t) ==
  /\ tab[t] = [startedAt |-> NoTime, saving |-> NoRequest]
  /\ tab' = [tab EXCEPT ![t].startedAt = now]
  /\ UNCHANGED <<log, files, disk, request, now, failures, raced, unsure, touched>>

stop(t, r) ==
  /\ tab[t].startedAt # NoTime /\ tab[t].saving = NoRequest
  /\ request[r] = Unsent
  /\ request' = [request EXCEPT ![r] =
       [op |-> "time", step |-> "sent", contract |-> TabContract[t], by |-> t,
        item |-> <<tab[t].startedAt, now>>, seen |-> GENESIS]]
  /\ tab' = [tab EXCEPT ![t].saving = r]
  /\ UNCHANGED <<log, files, disk, now, failures, raced, unsure, touched>>

\* The 201 clears the timer; any other end of the request leaves it for another stop.
FaultySaved(t) == tab' = [tab EXCEPT ![t].saving = NoRequest]
saved(t) == tab' = [tab EXCEPT ![t] = [startedAt |-> NoTime, saving |-> NoRequest]]

Answer(t) ==
  LET r == tab[t].saving IN
  /\ r # NoRequest
  /\ \/ request[r].step = "created" /\ saved(t)
     \/ request[r].step = "failed" /\ tab' = [tab EXCEPT ![t].saving = NoRequest]
  /\ UNCHANGED <<log, files, disk, request, now, failures, raced, unsure, touched>>

\* The connection breaks after the server has the request: fetch rejects.
AnswerLost(t) ==
  LET r == tab[t].saving IN
  /\ r # NoRequest /\ failures < MaxFailures
  /\ tab' = [tab EXCEPT ![t].saving = NoRequest]
  /\ failures' = failures + 1
  /\ unsure' = unsure \union {t}
  /\ UNCHANGED <<log, files, disk, request, now, raced, touched>>

\* Leaving the page drops the timer; a request under way goes on without it.
Leave(t) ==
  /\ tab[t].startedAt # NoTime
  /\ tab' = [tab EXCEPT ![t] = [startedAt |-> NoTime, saving |-> NoRequest]]
  /\ UNCHANGED <<log, files, disk, request, now, failures, raced, unsure, touched>>

-----------------------------------------------------------------------------
(* POST /:id/time *)

\* The schema wants endedAt after startedAt.
TimeRefused(r) ==
  /\ At(r, "time", "sent") /\ request[r].item[2] <= request[r].item[1]
  /\ To(r, "failed")
  /\ UNCHANGED <<log, files, disk, tab, now, failures, raced, unsure, touched>>

\* The panel is the freelancer's, so the role check passes; then the advisory lock.
ChainLock(r) ==
  /\ At(r, "time", "sent") /\ request[r].item[1] < request[r].item[2]
  /\ chainFree(request[r].contract)
  /\ To(r, "locked")
  /\ UNCHANGED <<log, files, disk, tab, now, failures, raced, unsure, touched>>

ChainLast(r) ==
  /\ At(r, "time", "locked")
  /\ \E h \in newestHashes(request[r].contract) : ToWith(r, "read", h)
  /\ UNCHANGED <<log, files, disk, tab, now, failures, raced, unsure, touched>>

ChainAppend(r) ==
  LET c == request[r].contract IN
  /\ At(r, "time", "read")
  /\ log' = [log EXCEPT ![c] = Append(@, Entry(r, c, request[r].seen))]
  /\ To(r, "created")
  /\ UNCHANGED <<files, disk, tab, now, failures, raced, unsure, touched>>

-----------------------------------------------------------------------------
(* POST /:id/files: multer has stored the file before the handler runs. *)

upload(u, c, n, r) ==
  /\ request[r] = Unsent
  /\ disk' = disk \union {r}
  /\ request' = [request EXCEPT ![r] =
       [op |-> "file", step |-> IF isParty(u, c) THEN "sent" ELSE "failed",
        contract |-> c, by |-> NoTab, item |-> <<n>>, seen |-> GENESIS]]
  /\ UNCHANGED <<log, files, tab, now, failures, raced, unsure, touched>>

CountVersions(r) ==
  /\ At(r, "file", "sent")
  /\ ToWith(r, "counted", <<priorVersions(request[r].contract, request[r].item[1])>>)
  /\ UNCHANGED <<log, files, disk, tab, now, failures, raced, unsure, touched>>

CreateFile(r) ==
  LET c == request[r].contract
      n == request[r].item[1]
      alongside == {q \in Requests \ {r} : At(q, "file", "counted")
                      /\ request[q].contract = c /\ request[q].item = <<n>>}
  IN
  /\ At(r, "file", "counted")
  /\ files' = files \union
       {[id |-> r, contract |-> c, name |-> n, version |-> request[r].seen[1] + 1]}
  /\ raced' = IF alongside = {} THEN raced ELSE raced \union {<<c, n>>}
  /\ To(r, "created")
  /\ UNCHANGED <<log, disk, tab, now, failures, unsure, touched>>

-----------------------------------------------------------------------------
(* The environment *)

\* A statement fails or the process stops before the commit; a stored file stays.
RequestFails(r) ==
  /\ failures < MaxFailures
  /\ request[r].step \in {"sent", "locked", "read", "counted"}
  /\ To(r, "failed")
  /\ failures' = failures + 1
  /\ UNCHANGED <<log, files, disk, tab, now, raced, unsure, touched>>

Tick ==
  /\ now < MaxTime
  /\ now' = now + 1
  /\ UNCHANGED <<log, files, disk, request, tab, failures, raced, unsure, touched>>

\* The clock is corrected backwards, under running timers too.
ClockBack ==
  /\ failures < MaxFailures /\ now > 0
  /\ now' = now - 1
  /\ failures' = failures + 1
  /\ unsure' = Tabs
  /\ UNCHANGED <<log, files, disk, request, tab, raced, touched>>

\* Somebody edits a row of a chain in the database, or deletes one that others follow.
Edit(c, i) ==
  /\ failures < MaxFailures /\ clockMoved(c)
  /\ log' = [log EXCEPT ![c][i].to = @ + 1]
  /\ failures' = failures + 1
  /\ touched' = touched \union {c}
  /\ UNCHANGED <<files, disk, request, tab, now, raced, unsure>>

Delete(c, i) ==
  /\ failures < MaxFailures /\ clockMoved(c) /\ i < Len(log[c])
  /\ log' = [log EXCEPT ![c] = SubSeq(@, 1, i - 1) \o SubSeq(@, i + 1, Len(@))]
  /\ failures' = failures + 1
  /\ touched' = touched \union {c}
  /\ UNCHANGED <<files, disk, request, tab, now, raced, unsure>>

Next ==
  \/ \E t \in Tabs : start(t) \/ Answer(t) \/ AnswerLost(t) \/ Leave(t)
  \/ \E t \in Tabs, r \in Requests : stop(t, r)
  \/ \E u \in Users, c \in Contracts, n \in Names, r \in Requests : upload(u, c, n, r)
  \/ \E r \in Requests :
       \/ TimeRefused(r) \/ ChainLock(r) \/ ChainLast(r) \/ ChainAppend(r)
       \/ CountVersions(r) \/ CreateFile(r) \/ RequestFails(r)
  \/ Tick \/ ClockBack
  \/ \E c \in Contracts : \E i \in DOMAIN log[c] : Edit(c, i) \/ Delete(c, i)

Spec == Init /\ [][Next]_vars

-----------------------------------------------------------------------------

Steps == {"unsent", "sent", "locked", "read", "counted", "created", "failed"}

TypeOK ==
  /\ DOMAIN log = Contracts
  /\ \A c \in Contracts : \A i \in DOMAIN log[c] :
       log[c][i].id \in Requests /\ log[c][i].createdAt \in 0..MaxTime
  /\ disk \subseteq Requests
  /\ \A r \in Requests : request[r].step \in Steps
  /\ \A t \in Tabs : tab[t].saving \in Requests \union {NoRequest}
  /\ now \in 0..MaxTime /\ failures \in 0..MaxFailures
  /\ unsure \subseteq Tabs /\ touched \subseteq Contracts
  /\ raced \subseteq Contracts \X Names

\* What lets a chain be continued without looking twice: one request at a time is inside
\* a contract's lock, and the hash it has read is the last entry's until it appends.
Continues ==
  \A r \in Requests :
    LET c == request[r].contract IN
    /\ inChainLock(r) =>
         \A q \in Requests : inChainLock(q) /\ request[q].contract = c => q = r
    /\ At(r, "time", "read") /\ clockMoved(c) /\ c \notin touched =>
         request[r].seen = IF log[c] = <<>> THEN GENESIS ELSE log[c][Len(log[c])].hash

\* A listed file can be downloaded: its content was stored before its row was made.
Stored == \A f \in files : f.id \in disk

\* Types, the exclusion the advisory lock gives (workspace.routes.ts:181), and that a
\* listed file has its content on disk.
Inv == TypeOK /\ Continues /\ Stored

\* A chain nobody touched verifies whichever way GET reads it, and one with an edited
\* row, or without a row that others follow, never verifies again, whatever is
\* appended later; as long as no two entries were created in one millisecond.
ChainTellsTheTruth ==
  \A c \in Contracts : clockMoved(c) =>
    \A s \in readings(c) : chainValid(c, s) <=> c \notin touched

\* No moment of a timer is logged twice, however often its stop button is pressed,
\* unless an answer was lost on the way or the clock went back (time-tracker.tsx:41-51).
NoTimeTwice ==
  \A c \in Contracts \ touched : \A i, j \in DOMAIN log[c] :
    LET t == request[log[c][i].id].by IN
    i # j /\ request[log[c][j].id].by = t /\ t \notin unsure
      => log[c][i].to <= log[c][j].from \/ log[c][j].to <= log[c][i].from

\* The versions of a file name on a contract are 1, 2, 3 without a gap or a repetition,
\* as long as no two of its uploads overlapped between count and create.
VersionsCount ==
  \A c \in Contracts, n \in Names : <<c, n>> \notin raced =>
    {f.version : f \in versionsOf(c, n)} = 1..Cardinality(versionsOf(c, n))

=============================================================================
