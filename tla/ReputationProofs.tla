--------------------------- MODULE ReputationProofs ---------------------------
(***************************************************************************)
(* The trust score and the signatures for any number of milestones, key    *)
(* pairs, failures and restarts.  The score rests on a recomputation that  *)
(* was alone from its start: what it has read is what there is when it     *)
(* writes, however long that takes.  The signatures rest on one pair: the  *)
(* environment's, or the one that the first call of a process generated.   *)
(***************************************************************************)
EXTENDS Reputation, FiniteSetTheorems, TLAPS

-----------------------------------------------------------------------------
(* Requests *)

Given == Ratings \union {Unrated}
KeyPairs == Pairs \union {EnvPair, NoPair}

\* What a count or a sum may be, whatever there is to count.
Counts == {Cardinality(S) : S \in SUBSET Milestones} \union {Unread}
Sums == {sumOf(g, S) : g \in [Milestones -> Given], S \in SUBSET Milestones} \union {0}

Work == [step : {"idle", "keys", "export", "sign", "reads", "write", "notify"},
         pair : KeyPairs, rating : Given, records : Counts, sum : Sums, disputes : Counts,
         alone : BOOLEAN]

States == {"open", "disputed", "released", "resolved"}

Shapes ==
  /\ work \in [Milestones -> Work]
  /\ state \in [Milestones -> States] /\ rating \in [Milestones -> Given]
  /\ record \in [Milestones -> KeyPairs]
  /\ private \in KeyPairs /\ public \in KeyPairs /\ pem \in KeyPairs
  /\ keysInEnv \in BOOLEAN

\* A worker that does nothing has the shape of a worker.
LEMMA IdleIsWork == Idle \in Work
BY DEF Idle, Work, KeyPairs, Given, Counts, Sums

\* What the score is made of are counts and sums of milestones.
LEMMA CountsAndSums ==
  ASSUME Shapes
  PROVE  completed \in Counts /\ disputeCount \in Counts /\ ratingSum \in Sums
BY DEF Shapes, completed, disputeCount, ratingSum, Counts, Sums

\* A request's next step; what it carries stays.
LEMMA Stepped ==
  ASSUME work \in [Milestones -> Work], NEW m \in Milestones,
         NEW step \in {"idle", "keys", "export", "sign", "reads", "write", "notify"},
         work' = [work EXCEPT ![m].step = step]
  PROVE  /\ work' \in [Milestones -> Work]
         /\ \A o \in Milestones \ {m} : work'[o] = work[o]
         /\ work'[m].step = step /\ work'[m].pair = work[m].pair
         /\ work'[m].alone = work[m].alone
BY DEF Work

\* An approval arrives: with keys there, or for a pair.
LEMMA Arrived ==
  ASSUME work \in [Milestones -> Work], NEW m \in Milestones, NEW r \in Given, approve(m, r)
  PROVE  \/ haveKeys /\ work'[m].step = "sign"
         \/ /\ ~haveKeys /\ work'[m].step = "keys"
            /\ IF keysInEnv THEN work'[m].pair = EnvPair ELSE work'[m].pair \in Pairs
<1> DEFINE signs == [Idle EXCEPT !.step = "sign", !.rating = r]
           waits(k) == [Idle EXCEPT !.step = "keys", !.pair = k, !.rating = r]
<1>1. CASE haveKeys
  <2>1. work' = [work EXCEPT ![m] = signs]
    BY <1>1 DEF approve
  <2>2. signs.step = "sign"
    BY DEF Idle
  <2> QED
    BY <1>1, <2>1, <2>2
<1>2. CASE ~haveKeys
  <2>1. PICK k \in IF keysInEnv THEN {EnvPair} ELSE Pairs \ used :
          work' = [work EXCEPT ![m] = waits(k)]
    BY <1>2 DEF approve
  <2>2. waits(k).step = "keys" /\ waits(k).pair = k
    BY DEF Idle
  <2> HIDE DEF waits
  <2> QED
    BY <1>2, <2>1, <2>2
<1> QED
  BY <1>1, <1>2

\* A recomputation begins; it, and those under way, know of each other.
LEMMA Begun ==
  ASSUME work \in [Milestones -> Work], NEW m \in Milestones, recompute(m)
  PROVE  /\ work' \in [Milestones -> Work]
         /\ work'[m].step = "reads" /\ work'[m].pair = NoPair
         /\ work'[m].records = Unread /\ work'[m].disputes = Unread
         /\ work'[m].alone <=> \A o \in Milestones \ {m} : ~Recomputing(o)
         /\ \A o \in Milestones \ {m} :
              /\ work'[o].step = work[o].step /\ work'[o].pair = work[o].pair
              /\ work'[o].records = work[o].records /\ work'[o].disputes = work[o].disputes
              /\ Recomputing(o) => ~work'[o].alone
              /\ ~Recomputing(o) => work'[o] = work[o]
         /\ suspect' = (suspect \/ \E o \in Milestones \ {m} : Recomputing(o))
<1> DEFINE others == {o \in Milestones \ {m} : Recomputing(o)}
           none == others = {}
           first == [Idle EXCEPT !.step = "reads", !.alone = none]
           told(o) == [work[o] EXCEPT !.alone = FALSE]
           then(o) == IF o = m THEN first ELSE IF o \in others THEN told(o) ELSE work[o]
<1>1. /\ work' = [o \in Milestones |-> then(o)]
      /\ suspect' = (suspect \/ others # {})
  BY DEF recompute
<1>2. /\ first \in Work /\ first.step = "reads" /\ first.pair = NoPair
      /\ first.records = Unread /\ first.disputes = Unread /\ first.alone = none
  <2>1. none \in BOOLEAN
    OBVIOUS
  <2> HIDE DEF none
  <2> QED
    BY <2>1, IdleIsWork DEF Work, Idle
<1>3. \A o \in others :
        /\ told(o) \in Work /\ ~told(o).alone
        /\ told(o).step = work[o].step /\ told(o).pair = work[o].pair
        /\ told(o).records = work[o].records /\ told(o).disputes = work[o].disputes
  BY DEF Work
<1> HIDE DEF first, told
<1>4. work' \in [Milestones -> Work]
  BY <1>1, <1>2, <1>3
<1>5. /\ work'[m] = first
      /\ \A o \in others : work'[o] = told(o)
      /\ \A o \in Milestones \ {m} : ~Recomputing(o) => work'[o] = work[o]
  BY <1>1
<1> QED
  BY <1>1, <1>2, <1>3, <1>4, <1>5

-----------------------------------------------------------------------------
(* The score *)

Settled == \A m \in Milestones : state[m] # "disputed"

\* A recomputation nobody has overlapped since it began has read what there is: the
\* records as they are, the disputes as they are when the last of them is ruled on.
ReadIsCurrent(m) ==
  /\ \A o \in Milestones \ {m} : ~Recomputing(o)
  /\ work[m].records # Unread => work[m].records = completed /\ work[m].sum = ratingSum
  /\ work[m].disputes # Unread /\ Settled => work[m].disputes = disputeCount

ScoreInd ==
  /\ \A m \in Milestones : Recomputing(m) /\ work[m].alone => ReadIsCurrent(m)
  /\ \A m \in Milestones : Recomputing(m) /\ ~suspect => work[m].alone
  /\ \A m \in Milestones : work[m].step = "write" =>
       work[m].records # Unread /\ work[m].disputes # Unread
  /\ ScoreFollowsHistory

\* A step that begins and ends no recomputation, or loses one.
LEMMA Calm ==
  ASSUME Shapes, ScoreInd, UNCHANGED <<state, rating, record, trustScore>>,
         suspect => suspect',
         \A m \in Milestones : /\ Recomputing(m)' => Recomputing(m) /\ work'[m] = work[m]
                               /\ Recomputing(m) => Recomputing(m)' \/ suspect'
  PROVE  ScoreInd'
<1>1. completed' = completed /\ ratingSum' = ratingSum /\ disputeCount' = disputeCount
      /\ Settled' = Settled
  BY DEF completed, ratingSum, disputeCount, Settled
<1>2. \A m \in Milestones : Recomputing(m)' /\ work'[m].alone => ReadIsCurrent(m)'
  BY <1>1 DEF ScoreInd, ReadIsCurrent
<1>3. \A m \in Milestones : work'[m].step = "write" =>
        work'[m].records # Unread /\ work'[m].disputes # Unread
  <2>1. \A m \in Milestones : work'[m].step = "write" => Recomputing(m)'
    BY DEF Recomputing
  <2> QED
    BY <2>1 DEF ScoreInd
<1>4. ScoreFollowsHistory'
  BY <1>1 DEF ScoreInd, ScoreFollowsHistory
<1> QED
  BY <1>2, <1>3, <1>4 DEF ScoreInd

\* A commit that changes records or disputes begins a recomputation, and no other one
\* is alone any more.
LEMMA Commits ==
  ASSUME Shapes, ScoreInd, NEW m \in Milestones, ~Recomputing(m), recompute(m)
  PROVE  ScoreInd'
<1>1. /\ work' \in [Milestones -> Work]
      /\ work'[m].step = "reads"
      /\ work'[m].records = Unread /\ work'[m].disputes = Unread
      /\ work'[m].alone <=> \A o \in Milestones \ {m} : ~Recomputing(o)
      /\ \A o \in Milestones \ {m} :
           /\ work'[o].step = work[o].step
           /\ work'[o].records = work[o].records /\ work'[o].disputes = work[o].disputes
           /\ Recomputing(o) => ~work'[o].alone
           /\ ~Recomputing(o) => work'[o] = work[o]
      /\ suspect' = (suspect \/ \E o \in Milestones \ {m} : Recomputing(o))
  BY Begun DEF Shapes
<1>2. Recomputing(m)' /\ \A o \in Milestones \ {m} : Recomputing(o)' = Recomputing(o)
  BY <1>1 DEF Recomputing
<1>3. \A o \in Milestones : Recomputing(o)' /\ work'[o].alone => ReadIsCurrent(o)'
  <2>1. work'[m].alone => ReadIsCurrent(m)'
    BY <1>1, <1>2 DEF ReadIsCurrent
  <2> QED
    BY <1>1, <1>2, <2>1
<1>4. \A o \in Milestones : Recomputing(o)' /\ ~suspect' => work'[o].alone
  BY <1>1, <1>2 DEF ScoreInd
<1>5. \A o \in Milestones : work'[o].step = "write" =>
        work'[o].records # Unread /\ work'[o].disputes # Unread
  BY <1>1 DEF ScoreInd
<1>6. ScoreFollowsHistory'
  BY <1>2 DEF ScoreFollowsHistory
<1> QED
  BY <1>3, <1>4, <1>5, <1>6 DEF ScoreInd

\* What each step does to types.
LEMMA ShapesStep == ASSUME Shapes, [Next]_vars PROVE Shapes'
<1> USE DEF Shapes
<1> DEFINE WSteps == {"idle", "keys", "export", "sign", "reads", "write", "notify"}
<1>1. ASSUME NEW m \in Milestones, NEW r \in Given, approve(m, r) PROVE Shapes'
  <2>1. work' \in [Milestones -> Work]
    <3>1. /\ [Idle EXCEPT !.step = "sign", !.rating = r] \in Work
          /\ \A k \in KeyPairs : [Idle EXCEPT !.step = "keys", !.pair = k, !.rating = r] \in Work
      BY IdleIsWork DEF Work, Idle
    <3>2. \/ work' = [work EXCEPT ![m] = [Idle EXCEPT !.step = "sign", !.rating = r]]
          \/ \E k \in KeyPairs :
               work' = [work EXCEPT ![m] = [Idle EXCEPT !.step = "keys", !.pair = k, !.rating = r]]
      BY <1>1 DEF approve, KeyPairs
    <3> QED
      BY <3>1, <3>2
  <2> QED
    BY <1>1, <2>1 DEF approve, keys
<1>2. ASSUME NEW m \in Milestones, KeysReady(m) \/ PemReady(m) PROVE Shapes'
  <2>1. work' \in [Milestones -> Work]
    BY <1>2, Stepped DEF KeysReady, PemReady
  <2>2. work[m].pair \in KeyPairs
    BY DEF Work
  <2> QED
    BY <1>2, <2>1, <2>2 DEF KeysReady, PemReady
<1>3. ASSUME NEW m \in Milestones, signWorkRecord(m) PROVE Shapes'
  <2>1. work' \in [Milestones -> Work] /\ work[m].rating \in Given
    BY <1>3, Begun DEF signWorkRecord, Work
  <2>2. state' \in [Milestones -> States]
    BY <1>3 DEF signWorkRecord, States
  <2>3. rating' \in [Milestones -> Given] /\ record' \in [Milestones -> KeyPairs]
    BY <1>3, <2>1 DEF signWorkRecord
  <2> QED
    BY <1>3, <2>1, <2>2, <2>3 DEF signWorkRecord, keys
<1>4. ASSUME NEW m \in Milestones, NEW b \in BOOLEAN, openDispute(m, b) PROVE Shapes'
  <2>1. work' \in [Milestones -> Work]
    BY <1>4, Stepped DEF openDispute
  <2> QED
    BY <1>4, <2>1 DEF openDispute, keys, States
<1>5. ASSUME NEW m \in Milestones, resolveDispute(m) PROVE Shapes'
  <2>1. work' \in [Milestones -> Work]
    BY <1>5, Begun DEF resolveDispute
  <2> QED
    BY <1>5, <2>1 DEF resolveDispute, keys, States
<1>6. ASSUME NEW m \in Milestones, ReadRecords(m) \/ ReadDisputes(m) PROVE Shapes'
  <2> DEFINE w == [work[m] EXCEPT !.records = completed, !.sum = ratingSum]
             v == [work[m] EXCEPT !.disputes = disputeCount]
  <2>1. w \in Work /\ v \in Work
    BY CountsAndSums DEF Work
  <2>2. \A x \in Work : bothRead(x) \in Work
    BY DEF bothRead, Work
  <2>3. work' = [work EXCEPT ![m] = bothRead(w)] \/ work' = [work EXCEPT ![m] = bothRead(v)]
    BY <1>6 DEF ReadRecords, ReadDisputes
  <2> HIDE DEF w, v
  <2>4. work' \in [Milestones -> Work]
    BY <2>1, <2>2, <2>3
  <2> QED
    BY <1>6, <2>4 DEF ReadRecords, ReadDisputes, keys
<1>7. ASSUME NEW m \in Milestones, WriteScore(m) \/ notify(m) \/ StatementFails(m) PROVE Shapes'
  <2>1. Idle \in Work /\ [Idle EXCEPT !.step = "notify"] \in Work
    BY IdleIsWork DEF Work
  <2> QED
    BY <1>7, <2>1 DEF WriteScore, notify, StatementFails, keys
<1>8. ASSUME Restart PROVE Shapes'
  BY <1>8, IdleIsWork DEF Restart, KeyPairs
<1>9. ASSUME fetchNotices \/ markRead \/ UNCHANGED vars PROVE Shapes'
  BY <1>9 DEF fetchNotices, markRead, vars, keys
<1> QED
  BY <1>1, <1>2, <1>3, <1>4, <1>5, <1>6, <1>7, <1>8, <1>9 DEF Next, Given

\* The score keeps its argument, whatever is interrupted or overlaps.
LEMMA ScoreStep == ASSUME Shapes, ScoreInd, [Next]_vars PROVE ScoreInd'
<1> USE DEF Shapes
<1>a. ASSUME NEW m \in Milestones, UNCHANGED <<state, rating, record, trustScore, suspect>>,
             \A o \in Milestones \ {m} : work'[o] = work[o],
             ~Recomputing(m), work'[m].step \notin {"reads", "write"}
      PROVE  ScoreInd'
  <2>1. \A o \in Milestones : /\ Recomputing(o)' => Recomputing(o) /\ work'[o] = work[o]
                              /\ Recomputing(o) => Recomputing(o)' \/ suspect'
    BY <1>a DEF Recomputing
  <2> QED
    BY <1>a, <2>1, Calm
<1>1. ASSUME NEW m \in Milestones, NEW r \in Given, approve(m, r) PROVE ScoreInd'
  <2>1. /\ ~Recomputing(m) /\ \A o \in Milestones \ {m} : work'[o] = work[o]
        /\ UNCHANGED <<state, rating, record, trustScore, suspect>>
    BY <1>1 DEF approve, Recomputing
  <2>2. work'[m].step \in {"sign", "keys"}
    BY <1>1, Arrived
  <2> QED
    BY <1>a, <2>1, <2>2
<1>2. ASSUME NEW m \in Milestones, KeysReady(m) \/ PemReady(m) PROVE ScoreInd'
  BY <1>a, <1>2, Stepped DEF KeysReady, PemReady, Recomputing
<1>3. ASSUME NEW m \in Milestones, signWorkRecord(m) \/ resolveDispute(m) PROVE ScoreInd'
  BY <1>3, Commits DEF signWorkRecord, resolveDispute, Recomputing
<1>4. ASSUME NEW m \in Milestones, NEW b \in BOOLEAN, openDispute(m, b) PROVE ScoreInd'
  <2>1. /\ state' = [state EXCEPT ![m] = "disputed"] /\ UNCHANGED <<rating, record, suspect>>
        /\ \A o \in Milestones \ {m} : work'[o] = work[o]
        /\ work[m].step = "idle" /\ work'[m].step \in {"idle", "notify"}
    BY <1>4, Stepped DEF openDispute
  <2>2. /\ completed' = completed /\ ratingSum' = ratingSum /\ state'[m] = "disputed"
        /\ \A o \in Milestones : Recomputing(o)' = Recomputing(o)
        /\ ~Recomputing(m) /\ ~Recomputing(m)'
    BY <2>1 DEF completed, ratingSum, Recomputing
  <2>3. ~Settled' /\ ~(\A o \in Milestones : state'[o] # "disputed")
    BY <2>2 DEF Settled
  <2>4. \A o \in Milestones : Recomputing(o)' /\ work'[o].alone => ReadIsCurrent(o)'
    BY <2>1, <2>2, <2>3 DEF ScoreInd, ReadIsCurrent
  <2>5. ScoreFollowsHistory'
    BY <2>3 DEF ScoreFollowsHistory
  <2> QED
    BY <2>1, <2>2, <2>4, <2>5 DEF ScoreInd
<1>5. ASSUME NEW m \in Milestones, ReadRecords(m) \/ ReadDisputes(m) PROVE ScoreInd'
  <2> DEFINE w == [work[m] EXCEPT !.records = completed, !.sum = ratingSum]
             v == [work[m] EXCEPT !.disputes = disputeCount]
  <2>0. \A x \in Work :
          /\ bothRead(x).step \in {x.step, "write"} /\ bothRead(x).alone = x.alone
          /\ bothRead(x).records = x.records /\ bothRead(x).sum = x.sum
          /\ bothRead(x).disputes = x.disputes
          /\ bothRead(x).step = x.step \/ (x.records # Unread /\ x.disputes # Unread)
    BY DEF bothRead, Work
  <2>1. /\ w \in Work /\ w.records = completed /\ w.sum = ratingSum /\ w.step = work[m].step
        /\ w.disputes = work[m].disputes /\ w.alone = work[m].alone
        /\ v \in Work /\ v.disputes = disputeCount /\ v.records = work[m].records
        /\ v.sum = work[m].sum /\ v.step = work[m].step /\ v.alone = work[m].alone
    BY CountsAndSums DEF Work
  <2>2. /\ work' = [work EXCEPT ![m] = bothRead(w)] \/ work' = [work EXCEPT ![m] = bothRead(v)]
        /\ work[m].step = "reads" /\ UNCHANGED <<state, rating, record, trustScore, suspect>>
    BY <1>5 DEF ReadRecords, ReadDisputes
  <2> HIDE DEF w, v
  <2>3. /\ \A o \in Milestones \ {m} : work'[o] = work[o]
        /\ work'[m] = bothRead(w) \/ work'[m] = bothRead(v)
    BY <2>2
  <2>4. /\ work'[m].alone = work[m].alone /\ work'[m].step \in {"reads", "write"}
        /\ \/ work'[m].records = completed /\ work'[m].sum = ratingSum
           \/ work'[m].records = work[m].records /\ work'[m].sum = work[m].sum
        /\ work'[m].disputes \in {work[m].disputes, disputeCount}
        /\ work'[m].step = "write" => work'[m].records # Unread /\ work'[m].disputes # Unread
    BY <2>0, <2>1, <2>2, <2>3
  <2>5. /\ \A o \in Milestones : Recomputing(o)' = Recomputing(o)
        /\ completed' = completed /\ ratingSum' = ratingSum /\ disputeCount' = disputeCount
        /\ Settled' = Settled /\ Recomputing(m)
    BY <2>2, <2>3, <2>4 DEF completed, ratingSum, disputeCount, Recomputing, Settled
  <2>6. \A o \in Milestones : Recomputing(o)' /\ work'[o].alone => ReadIsCurrent(o)'
    BY <2>3, <2>4, <2>5 DEF ScoreInd, ReadIsCurrent
  <2>7. ScoreFollowsHistory'
    BY <2>5 DEF ScoreFollowsHistory
  <2> QED
    BY <2>2, <2>3, <2>4, <2>5, <2>6, <2>7 DEF ScoreInd
<1>6. ASSUME NEW m \in Milestones, WriteScore(m) PROVE ScoreInd'
  <2>1. /\ work[m].step = "write" /\ UNCHANGED <<state, rating, record>>
        /\ trustScore' = score(work[m].records, work[m].sum, work[m].disputes)
        /\ suspect' = (suspect /\ ~work[m].alone)
        /\ \A o \in Milestones \ {m} : work'[o] = work[o]
        /\ work'[m].step = "notify"
    BY <1>6 DEF WriteScore, Idle
  <2>2. /\ completed' = completed /\ ratingSum' = ratingSum /\ disputeCount' = disputeCount
        /\ Settled' = Settled /\ Recomputing(m) /\ ~Recomputing(m)'
        /\ \A o \in Milestones \ {m} : Recomputing(o)' = Recomputing(o)
    BY <2>1 DEF completed, ratingSum, disputeCount, Recomputing, Settled
  <2>3. /\ ~suspect' => work[m].alone
        /\ work[m].alone => ReadIsCurrent(m)
        /\ work[m].records # Unread /\ work[m].disputes # Unread
    BY <2>1, <2>2 DEF ScoreInd
  <2>4. ScoreFollowsHistory'
    BY <2>1, <2>2, <2>3 DEF ScoreFollowsHistory, ReadIsCurrent, Settled
  <2>5. \A o \in Milestones : Recomputing(o)' /\ work'[o].alone => ReadIsCurrent(o)'
    BY <2>1, <2>2 DEF ScoreInd, ReadIsCurrent
  <2>6. \A o \in Milestones : Recomputing(o)' /\ ~suspect' => work'[o].alone
    BY <2>1, <2>2, <2>3 DEF ScoreInd, ReadIsCurrent
  <2> QED
    BY <2>1, <2>4, <2>5, <2>6 DEF ScoreInd
<1>7. ASSUME NEW m \in Milestones, notify(m) PROVE ScoreInd'
  BY <1>a, <1>7 DEF notify, Recomputing, Idle
<1>8. ASSUME NEW m \in Milestones, StatementFails(m) PROVE ScoreInd'
  <2>1. /\ UNCHANGED <<state, rating, record, trustScore>> /\ suspect' = (suspect \/ Recomputing(m))
        /\ \A o \in Milestones \ {m} : work'[o] = work[o]
        /\ work'[m].step = "idle"
    BY <1>8 DEF StatementFails, Idle
  <2>2. \A o \in Milestones : /\ Recomputing(o)' => Recomputing(o) /\ work'[o] = work[o]
                              /\ Recomputing(o) => Recomputing(o)' \/ suspect'
    BY <2>1 DEF Recomputing
  <2> QED
    BY <2>1, <2>2, Calm
<1>9. ASSUME Restart PROVE ScoreInd'
  <2>1. /\ UNCHANGED <<state, rating, record, trustScore>>
        /\ suspect' = (suspect \/ \E m \in Milestones : Recomputing(m))
        /\ \A o \in Milestones : work'[o].step = "idle"
    BY <1>9 DEF Restart, Idle
  <2>2. \A o \in Milestones : /\ Recomputing(o)' => Recomputing(o) /\ work'[o] = work[o]
                              /\ Recomputing(o) => Recomputing(o)' \/ suspect'
    BY <2>1 DEF Recomputing
  <2> QED
    BY <2>1, <2>2, Calm
<1>10. ASSUME fetchNotices \/ markRead \/ UNCHANGED vars PROVE ScoreInd'
  <2>1. UNCHANGED <<state, rating, record, trustScore, suspect, work>>
    BY <1>10 DEF fetchNotices, markRead, vars
  <2> QED
    BY <2>1, Calm DEF Recomputing
<1> QED
  BY <1>1, <1>2, <1>3, <1>4, <1>5, <1>6, <1>7, <1>8, <1>9, <1>10 DEF Next, Given

-----------------------------------------------------------------------------
(* The signatures *)

\* With keys in the environment there is that pair or none; without, and no cold start
\* raced or lost, what signed is the pair in memory, which one call alone generates.
OnePair ==
  /\ private = public
  /\ \A m \in Milestones : work[m].step \in {"export", "sign"} => private # NoPair
  /\ \A m \in Milestones : work[m].step \in {"keys", "export"} => work[m].pair # NoPair
  /\ keysInEnv =>
       /\ private \in {NoPair, EnvPair} /\ pem = public
       /\ \A m \in Milestones :
            /\ record[m] \in {NoPair, EnvPair} /\ work[m].step # "export"
            /\ work[m].step = "keys" => work[m].pair = EnvPair
  /\ ~keysInEnv /\ ~coldRaced =>
       /\ pem \in {NoPair, private}
       /\ \A m \in Milestones :
            /\ record[m] \in {NoPair, private}
            /\ work[m].step = "export" => work[m].pair = private
            /\ work[m].step = "keys" =>
                 private = NoPair /\ \A o \in Milestones : work[o].step = "keys" => o = m

\* No step signs with a second key pair.
LEMMA SignaturesStep == ASSUME Shapes, OnePair, [Next]_vars PROVE OnePair'
<1> USE ReputationAssumption DEF OnePair, Shapes
<1>a. ASSUME UNCHANGED <<keysInEnv, keys, record, coldRaced>>,
             \A m \in Milestones :
               \/ work'[m].step = work[m].step /\ work'[m].pair = work[m].pair
               \/ work'[m].step \notin {"keys", "export", "sign"}
      PROVE  OnePair'
  BY <1>a DEF keys
<1>1. ASSUME NEW m \in Milestones, NEW r \in Given, approve(m, r) PROVE OnePair'
  <2>1. /\ UNCHANGED <<keysInEnv, keys, record>>
        /\ coldRaced' = (\/ coldRaced
                         \/ ~keysInEnv /\ ~haveKeys /\ \E o \in Milestones : work[o].step = "keys")
        /\ \A o \in Milestones \ {m} : work'[o] = work[o]
        /\ work[m].step = "idle"
    BY <1>1 DEF approve
  <2>2. \/ haveKeys /\ work'[m].step = "sign"
        \/ /\ ~haveKeys /\ work'[m].step = "keys"
           /\ IF keysInEnv THEN work'[m].pair = EnvPair ELSE work'[m].pair \in Pairs
    BY <1>1, Arrived
  <2> QED
    BY <2>1, <2>2 DEF haveKeys, keys
<1>2. ASSUME NEW m \in Milestones, KeysReady(m) PROVE OnePair'
  <2>1. /\ work[m].step = "keys" /\ private' = work[m].pair /\ public' = work[m].pair
        /\ pem' = IF keysInEnv THEN work[m].pair ELSE pem
        /\ UNCHANGED <<keysInEnv, record, coldRaced>>
        /\ \A o \in Milestones \ {m} : work'[o] = work[o]
        /\ work'[m].step = IF keysInEnv THEN "sign" ELSE "export"
        /\ work'[m].pair = work[m].pair
    BY <1>2, Stepped DEF KeysReady
  <2> QED
    BY <2>1
<1>3. ASSUME NEW m \in Milestones, PemReady(m) PROVE OnePair'
  <2>1. /\ work[m].step = "export" /\ pem' = work[m].pair
        /\ UNCHANGED <<keysInEnv, private, public, record, coldRaced>>
        /\ \A o \in Milestones \ {m} : work'[o] = work[o]
        /\ work'[m].step = "sign"
    BY <1>3, Stepped DEF PemReady
  <2> QED
    BY <2>1
<1>4. ASSUME NEW m \in Milestones, signWorkRecord(m) PROVE OnePair'
  <2>1. /\ record' = [record EXCEPT ![m] = private] /\ UNCHANGED <<keysInEnv, keys, coldRaced>>
        /\ work'[m].step = "reads"
        /\ \A o \in Milestones \ {m} : work'[o].step = work[o].step /\ work'[o].pair = work[o].pair
    BY <1>4, Begun DEF signWorkRecord
  <2> QED
    BY <2>1 DEF keys
<1>5. ASSUME NEW m \in Milestones, resolveDispute(m) PROVE OnePair'
  <2>1. /\ UNCHANGED <<keysInEnv, keys, record, coldRaced>> /\ work'[m].step = "reads"
        /\ \A o \in Milestones \ {m} : work'[o].step = work[o].step /\ work'[o].pair = work[o].pair
    BY <1>5, Begun DEF resolveDispute
  <2> QED
    BY <1>a, <2>1
<1>6. ASSUME NEW m \in Milestones, NEW b \in BOOLEAN, openDispute(m, b) PROVE OnePair'
  <2>1. /\ UNCHANGED <<keysInEnv, keys, record, coldRaced>>
        /\ work'[m].step \in {"idle", "notify"}
        /\ \A o \in Milestones \ {m} : work'[o] = work[o]
    BY <1>6, Stepped DEF openDispute
  <2> QED
    BY <1>a, <2>1
<1>7. ASSUME NEW m \in Milestones, ReadRecords(m) \/ ReadDisputes(m) PROVE OnePair'
  <2>1. PICK w \in Work :
          work' = [work EXCEPT ![m] = bothRead(w)] /\ w.step = "reads"
    <3>1. /\ [work[m] EXCEPT !.records = completed, !.sum = ratingSum] \in Work
          /\ [work[m] EXCEPT !.disputes = disputeCount] \in Work
          /\ work[m].step = "reads"
      BY <1>7, CountsAndSums DEF Work, ReadRecords, ReadDisputes
    <3> QED
      BY <1>7, <3>1 DEF ReadRecords, ReadDisputes, Work
  <2>2. bothRead(w).step \in {"reads", "write"}
    BY <2>1 DEF bothRead, Work
  <2>3. /\ UNCHANGED <<keysInEnv, keys, record, coldRaced>>
        /\ work'[m].step \in {"reads", "write"}
        /\ \A o \in Milestones \ {m} : work'[o] = work[o]
    BY <1>7, <2>1, <2>2 DEF ReadRecords, ReadDisputes
  <2> QED
    BY <1>a, <2>3
<1>8. ASSUME NEW m \in Milestones, WriteScore(m) \/ notify(m) \/ StatementFails(m) PROVE OnePair'
  <2>1. /\ UNCHANGED <<keysInEnv, keys, record, coldRaced>>
        /\ work'[m].step \in {"idle", "notify"}
        /\ \A o \in Milestones \ {m} : work'[o] = work[o]
    BY <1>8 DEF WriteScore, notify, StatementFails, Idle
  <2> QED
    BY <1>a, <2>1
<1>9. ASSUME Restart PROVE OnePair'
  <2>1. /\ private' = NoPair /\ public' = NoPair /\ pem' = NoPair
        /\ coldRaced' = (coldRaced \/ (~keysInEnv /\ private # NoPair))
        /\ \A m \in Milestones : work'[m].step = "idle"
        /\ UNCHANGED <<keysInEnv, record>>
    BY <1>9 DEF Restart, Idle
  <2> QED
    BY <2>1
<1>10. ASSUME fetchNotices \/ markRead \/ UNCHANGED vars PROVE OnePair'
  <2>1. UNCHANGED <<keysInEnv, keys, record, coldRaced, work>>
    BY <1>10 DEF fetchNotices, markRead, vars
  <2> QED
    BY <1>a, <2>1
<1> QED
  BY <1>1, <1>2, <1>3, <1>4, <1>5, <1>6, <1>7, <1>8, <1>9, <1>10 DEF Next, Given

-----------------------------------------------------------------------------
(* The theorems *)

\* The inductive invariant: types, recomputations that know of each other, and one pair.
THEOREM ReputationInvariance == Spec => [](Shapes /\ ScoreInd /\ OnePair)
<1>1. Init => Shapes /\ ScoreInd /\ OnePair
  <2> SUFFICES ASSUME Init PROVE Shapes /\ ScoreInd /\ OnePair
    OBVIOUS
  <2>1. Shapes
    BY IdleIsWork DEF Init, Shapes, States, Given, KeyPairs
  <2>2. \A m \in Milestones : work[m].step = "idle" /\ work[m].pair = NoPair
    BY DEF Init, Idle
  <2>3. OnePair
    BY <2>2 DEF Init, OnePair
  <2>4. completed = 0 /\ disputeCount = 0
    <3>1. {m \in Milestones : record[m] # NoPair} = {}
          /\ {m \in Milestones : state[m] \in {"disputed", "resolved"}} = {}
      BY DEF Init
    <3> QED
      BY <3>1, FS_EmptySet DEF completed, disputeCount
  <2>5. ScoreFollowsHistory
    BY <2>4 DEF Init, ScoreFollowsHistory, score
  <2> QED
    BY <2>1, <2>2, <2>3, <2>5 DEF ScoreInd, Recomputing
<1>2. (Shapes /\ ScoreInd /\ OnePair) /\ [Next]_vars => (Shapes /\ ScoreInd /\ OnePair)'
  BY ShapesStep, ScoreStep, SignaturesStep
<1> QED
  BY <1>1, <1>2, PTL DEF Spec

\* Once no request is at work on the score and no dispute waits, it is the one that the
\* freelancer's records and disputes have earned, unless the last recomputation was lost
\* or overlapped (trust-score.service.ts:14-52): for any number of milestones and failures.
THEOREM ScoreIsEarned == Spec => []ScoreFollowsHistory
BY ReputationInvariance, PTL DEF ScoreInd

\* What was signed verifies with the published key (signing.service.ts:24-65): with keys
\* of the environment through any restarts, with a generated pair while its process lives
\* and no first calls overlapped.
THEOREM SignaturesVerify == Spec => []RecordsVerify
<1>1. Shapes /\ OnePair => RecordsVerify
  BY DEF Shapes, OnePair, RecordsVerify
<1> QED
  BY <1>1, ReputationInvariance, PTL


=============================================================================
