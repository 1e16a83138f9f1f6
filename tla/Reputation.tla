------------------------------ MODULE Reputation ------------------------------
(***************************************************************************)
(* What follows the money for one freelancer (modules/reputation and       *)
(* modules/notifications, called from escrow.service.ts).  An approval     *)
(* signs a work record inside its transaction, with keys held in memory;   *)
(* after the commit, an approval and a ruling recompute the trust score,   *)
(* write a notification, push it, and only then answer.  Each of these is  *)
(* an await, with other approvals, rulings, failures and a restart of the  *)
(* server in between.                                                      *)
(***************************************************************************)
EXTENDS Integers, FiniteSets, Sequences, SequencesExt

CONSTANTS
  Milestones,   \* the milestones of the freelancer's contracts
  Ratings,      \* what a client may give, of 1..5
  Unrated,      \* an approval without a rating, the sweep's always
  AgeBonus,     \* what the age of the account adds, of 0..15
  Pairs,        \* key pairs that can be generated
  EnvPair,      \* the pair of SIGNING_PRIVATE_KEY and SIGNING_PUBLIC_KEY
  NoPair,
  NoScore,      \* trustScore is null
  PageSize,     \* GET /api/notifications answers this many (30 in the code)
  MaxFailures   \* failed statements and restarts

ASSUME ReputationAssumption ==
  /\ Ratings \subseteq 1..5 /\ Unrated \notin Ratings
  /\ AgeBonus \in 0..15
  /\ EnvPair \notin Pairs /\ NoPair \notin Pairs \union {EnvPair}
  /\ NoScore \notin Int
  /\ PageSize \in Nat \ {0} /\ MaxFailures \in Nat

VARIABLES
  keysInEnv,    \* the environment has signing keys
  private, public, pem,  \* the keys in memory, and the PEM that is given out
  state,        \* of each milestone: "open", "disputed", "released" or "resolved"
  rating,       \* of each milestone
  record,       \* the pair that signed the work record of each milestone
  trustScore,   \* the column, in tenths of a point
  work,         \* the request at work on each milestone
  notices,      \* the freelancer's notifications in order of creation: 0 when unread,
                \* else which read-all read them
  bell,         \* what the header's bell last fetched, as positions in notices
  failures,
  suspect,      \* a recomputation was lost, or two overlapped, since the last clean one
  coldRaced     \* two calls generated a pair at once, or a pair was lost with its process

keys == <<private, public, pem>>
vars == <<keysInEnv, keys, state, rating, record, trustScore, work, notices, bell,
          failures, suspect, coldRaced>>

-----------------------------------------------------------------------------
(* The trust score. *)

Unread == -1   \* a statement that has not answered
Idle == [step |-> "idle", pair |-> NoPair, rating |-> Unrated, records |-> Unread,
         sum |-> 0, disputes |-> Unread, alone |-> TRUE]

AtLeast(a, b) == IF a >= b THEN a ELSE b
AtMost(a, b) == IF a <= b THEN a ELSE b

\* prisma.workRecord.findMany: how many records there are and what their ratings add
\* up to, an unrated one counting as a 4.
completed == Cardinality({m \in Milestones : record[m] # NoPair})
ratingOr4(r) == IF r = Unrated THEN 4 ELSE r
sumOf(given, rated) == FoldSet(LAMBDA m, acc : ratingOr4(given[m]) + acc, 0, rated)
ratingSum == sumOf(rating, {m \in Milestones : record[m] # NoPair})

\* prisma.dispute.count: every dispute there was, ruled on or not.
disputeCount == Cardinality({m \in Milestones : state[m] \in {"disputed", "resolved"}})

\* Math.round(score * 10), for n records whose ratings sum to s, and d disputes:
\* 12 s/n for quality, 1.25 each of up to 20 for volume, the age, less 30 d/n.
score(n, s, d) ==
  IF n = 0 /\ d = 0 THEN NoScore
  ELSE LET per == AtLeast(n, 1)
           twice == 240 * s + per * (25 * AtMost(n, 20) + 20 * AgeBonus)
                      - 600 * AtMost(d, per)
       IN AtLeast(0, AtMost(1000, (twice + per) \div (2 * per)))

Recomputing(m) == work[m].step \in {"reads", "write"}

\* After the commit: its own reads have yet to be sent, another's may be under way.
recompute(m) ==
  LET others == {o \in Milestones \ {m} : Recomputing(o)} IN
  /\ work' = [o \in Milestones |->
       IF o = m THEN [Idle EXCEPT !.step = "reads", !.alone = others = {}]
       ELSE IF o \in others THEN [work[o] EXCEPT !.alone = FALSE] ELSE work[o]]
  /\ suspect' = (suspect \/ others # {})

Init ==
  /\ keysInEnv \in BOOLEAN
  /\ private = NoPair /\ public = NoPair /\ pem = NoPair
  /\ state = [m \in Milestones |-> "open"]
  /\ rating = [m \in Milestones |-> Unrated]
  /\ record = [m \in Milestones |-> NoPair]
  /\ trustScore = NoScore
  /\ work = [m \in Milestones |-> Idle]
  /\ notices = <<>> /\ bell = <<>>
  /\ failures = 0 /\ suspect = FALSE /\ coldRaced = FALSE

-----------------------------------------------------------------------------
(* Signing keys. *)

used == {private, public, pem}
          \union {work[m].pair : m \in Milestones} \union {record[m] : m \in Milestones}

\* The first line of ensureKeys: there are keys, nothing to wait for.
FaultyHaveKeys == FALSE
haveKeys == private # NoPair /\ public # NoPair

\* An approval has its row lock and comes to sign: it has the keys, imports those of the
\* environment, or generates a pair, two awaits away from other calls.
approve(m, r) ==
  /\ work[m].step = "idle" /\ state[m] = "open"
  /\ IF haveKeys
     THEN work' = [work EXCEPT ![m] = [Idle EXCEPT !.step = "sign", !.rating = r]]
     ELSE \E k \in IF keysInEnv THEN {EnvPair} ELSE Pairs \ used :
            work' = [work EXCEPT ![m] =
                       [Idle EXCEPT !.step = "keys", !.pair = k, !.rating = r]]
  /\ coldRaced' = (\/ coldRaced
                   \/ ~keysInEnv /\ ~haveKeys /\ \E o \in Milestones : work[o].step = "keys")
  /\ UNCHANGED <<keysInEnv, keys, state, rating, record, trustScore, notices, bell,
                 failures, suspect>>

\* The pair is there and both halves are assigned; its PEM still has to be exported,
\* unless it came from the environment.
KeysReady(m) ==
  /\ work[m].step = "keys"
  /\ private' = work[m].pair /\ public' = work[m].pair
  /\ pem' = IF keysInEnv THEN work[m].pair ELSE pem
  /\ work' = [work EXCEPT ![m].step = IF keysInEnv THEN "sign" ELSE "export"]
  /\ UNCHANGED <<keysInEnv, state, rating, record, trustScore, notices, bell, failures,
                 suspect, coldRaced>>

PemReady(m) ==
  /\ work[m].step = "export"
  /\ pem' = work[m].pair
  /\ work' = [work EXCEPT ![m].step = "sign"]
  /\ UNCHANGED <<keysInEnv, private, public, state, rating, record, trustScore, notices,
                 bell, failures, suspect, coldRaced>>

\* The record is signed with the private key of the moment, and the transaction commits
\* with it: the milestone is RELEASED.
signWorkRecord(m) ==
  /\ work[m].step = "sign"
  /\ state' = [state EXCEPT ![m] = "released"]
  /\ rating' = [rating EXCEPT ![m] = work[m].rating]
  /\ record' = [record EXCEPT ![m] = private]
  /\ recompute(m)
  /\ UNCHANGED <<keysInEnv, keys, trustScore, notices, bell, failures, coldRaced>>

-----------------------------------------------------------------------------
(* Disputes, and the rest of a request after its commit. *)

\* openDispute commits and notifies the other party, the freelancer when the client
\* raised it.  The milestone's lock is held by nobody else.
openDispute(m, byClient) ==
  /\ work[m].step = "idle" /\ state[m] = "open"
  /\ state' = [state EXCEPT ![m] = "disputed"]
  /\ work' = IF byClient THEN [work EXCEPT ![m].step = "notify"] ELSE work
  /\ UNCHANGED <<keysInEnv, keys, rating, record, trustScore, notices, bell, failures,
                 suspect, coldRaced>>

FaultyResolveDispute(m) ==
  /\ work[m].step = "idle" /\ state[m] = "disputed"
  /\ state' = [state EXCEPT ![m] = "resolved"]
  /\ work' = [work EXCEPT ![m].step = "notify"]
  /\ UNCHANGED <<keysInEnv, keys, rating, record, trustScore, notices, bell, failures,
                 suspect, coldRaced>>

\* The ruling commits, and the score is recomputed.
resolveDispute(m) ==
  /\ work[m].step = "idle" /\ state[m] = "disputed"
  /\ state' = [state EXCEPT ![m] = "resolved"]
  /\ recompute(m)
  /\ UNCHANGED <<keysInEnv, keys, rating, record, trustScore, notices, bell, failures,
                 coldRaced>>

\* Promise.all: the reads are statements of different connections, in any order.
bothRead(w) == IF w.records # Unread /\ w.disputes # Unread
               THEN [w EXCEPT !.step = "write"] ELSE w

ReadRecords(m) ==
  /\ work[m].step = "reads" /\ work[m].records = Unread
  /\ work' = [work EXCEPT ![m] =
                bothRead([@ EXCEPT !.records = completed, !.sum = ratingSum])]
  /\ UNCHANGED <<keysInEnv, keys, state, rating, record, trustScore, notices, bell,
                 failures, suspect, coldRaced>>

ReadDisputes(m) ==
  /\ work[m].step = "reads" /\ work[m].disputes = Unread
  /\ work' = [work EXCEPT ![m] = bothRead([@ EXCEPT !.disputes = disputeCount])]
  /\ UNCHANGED <<keysInEnv, keys, state, rating, record, trustScore, notices, bell,
                 failures, suspect, coldRaced>>

WriteScore(m) ==
  /\ work[m].step = "write"
  /\ trustScore' = score(work[m].records, work[m].sum, work[m].disputes)
  /\ suspect' = (suspect /\ ~work[m].alone)
  /\ work' = [work EXCEPT ![m] = [Idle EXCEPT !.step = "notify"]]
  /\ UNCHANGED <<keysInEnv, keys, state, rating, record, notices, bell, failures, coldRaced>>

\* The row is written, then pushed to whoever listens; the bell fetches its list again.
notify(m) ==
  /\ work[m].step = "notify"
  /\ notices' = Append(notices, 0)
  /\ work' = [work EXCEPT ![m] = Idle]
  /\ UNCHANGED <<keysInEnv, keys, state, rating, record, trustScore, bell, failures,
                 suspect, coldRaced>>

\* A statement fails: before the commit nothing has happened, after it the rest of the
\* request is not done, nor ever done again, since a retry finds it already processed.
StatementFails(m) ==
  /\ work[m].step # "idle" /\ failures < MaxFailures
  /\ failures' = failures + 1
  /\ suspect' = (suspect \/ Recomputing(m))
  /\ work' = [work EXCEPT ![m] = Idle]
  /\ UNCHANGED <<keysInEnv, keys, state, rating, record, trustScore, notices, bell, coldRaced>>

\* The process stops and starts again: requests end where they are, keys in memory go.
Restart ==
  /\ failures < MaxFailures /\ failures' = failures + 1
  /\ suspect' = (suspect \/ \E m \in Milestones : Recomputing(m))
  /\ coldRaced' = (coldRaced \/ (~keysInEnv /\ private # NoPair))
  /\ private' = NoPair /\ public' = NoPair /\ pem' = NoPair
  /\ work' = [m \in Milestones |-> Idle]
  /\ UNCHANGED <<keysInEnv, state, rating, record, trustScore, notices, bell>>

-----------------------------------------------------------------------------
(* Notifications. *)

\* orderBy readAt asc, createdAt desc: PostgreSQL sorts nulls last in ascending order.
readAtRank(i) == IF notices[i] = 0 THEN Len(notices) + 1 ELSE notices[i]
listed == SortSeq([i \in DOMAIN notices |-> i],
                  LAMBDA i, j : \/ readAtRank(i) < readAtRank(j)
                                \/ readAtRank(i) = readAtRank(j) /\ i > j)

\* GET /api/notifications, on load and whenever one is pushed.
fetchNotices ==
  /\ bell' = SubSeq(listed, 1, AtMost(PageSize, Len(listed)))
  /\ bell' # bell
  /\ UNCHANGED <<keysInEnv, keys, state, rating, record, trustScore, work, notices,
                 failures, suspect, coldRaced>>

lastReadAll == FoldSeq(AtLeast, 0, notices)

\* The bell is opened with something unread in its list: all that is unread now is read.
markRead ==
  /\ \E i \in DOMAIN bell : notices[bell[i]] = 0
  /\ notices' = [i \in DOMAIN notices |-> IF notices[i] = 0 THEN lastReadAll + 1
                                                             ELSE notices[i]]
  /\ UNCHANGED <<keysInEnv, keys, state, rating, record, trustScore, work, bell, failures,
                 suspect, coldRaced>>

Next ==
  \/ \E m \in Milestones :
       \/ \E r \in Ratings \union {Unrated} : approve(m, r)
       \/ KeysReady(m) \/ PemReady(m) \/ signWorkRecord(m)
       \/ openDispute(m, TRUE) \/ openDispute(m, FALSE) \/ resolveDispute(m)
       \/ ReadRecords(m) \/ ReadDisputes(m) \/ WriteScore(m) \/ notify(m)
       \/ StatementFails(m)
  \/ Restart \/ fetchNotices \/ markRead

Spec == Init /\ [][Next]_vars

-----------------------------------------------------------------------------
(* Properties. *)

\* The stored score is the one the freelancer's history has earned, once requests have
\* run to their end and no dispute awaits its ruling, unless the last recomputation was
\* lost or overlapped another; the next clean one mends that.
ScoreFollowsHistory ==
  ~suspect /\ (\A m \in Milestones : ~Recomputing(m) /\ state[m] # "disputed")
    => trustScore = score(completed, ratingSum, disputeCount)

\* Records that are signed can be verified, by the server and with the key it publishes:
\* always with keys of the environment, whatever restarts; with a generated pair as long
\* as its process lives and no two first calls overlapped.
RecordsVerify ==
  ~coldRaced =>
    /\ public # NoPair =>
         \A m \in Milestones : record[m] # NoPair => record[m] = public
    /\ pem \in {NoPair, public}

\* notifications.routes.ts:8 "latest 30, unread first".
UnreadFirst ==
  \A i, j \in DOMAIN bell :
    i < j /\ notices[bell[j]] = 0 => notices[bell[i]] = 0

=============================================================================
