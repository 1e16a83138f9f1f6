--------------------------- MODULE WorkspaceProofs ---------------------------
(***************************************************************************)
(* The workspace for any number of contracts, requests, screens, failures  *)
(* and edits of rows.  The chain's lock leaves one request between reading *)
(* the last hash and appending to it, so what it read is still the last    *)
(* hash.  A chain that somebody touched is told by its depth: every hash   *)
(* is one deeper than the hash it was made over, and once a row is gone    *)
(* the chain is shorter than its last hash is deep, for ever.              *)
(***************************************************************************)
EXTENDS Workspace, FiniteSetTheorems, SequenceTheorems, WellFoundedInduction, TLAPS

-----------------------------------------------------------------------------
(* Requests and rows *)

IsSequence(s) == \E S : s \in Seq(S)

IsRequest(q) ==
  q = [op |-> q.op, step |-> q.step, contract |-> q.contract, by |-> q.by, item |-> q.item,
       seen |-> q.seen]

IsRow(e) ==
  e = [id |-> e.id, from |-> e.from, to |-> e.to, prev |-> e.prev, hash |-> e.hash,
       createdAt |-> e.createdAt]

Shapes ==
  /\ request = [r \in Requests |-> request[r]]
  /\ \A r \in Requests : IsRequest(request[r])
  /\ tab \in [Tabs -> [startedAt : 0..MaxTime \union {NoTime},
                       saving : Requests \union {NoRequest}]]
  /\ log = [c \in Contracts |-> log[c]]
  /\ \A c \in Contracts :
       IsSequence(log[c]) /\ \A i \in DOMAIN log[c] : IsRow(log[c][i])

\* A request takes its next step; what it asked for stays.
LEMMA Moved ==
  ASSUME Shapes, NEW r \in Requests, NEW step, To(r, step)
  PROVE  /\ request' = [q \in Requests |-> request'[q]]
         /\ \A q \in Requests : IsRequest(request'[q])
         /\ \A q \in Requests \ {r} : request'[q] = request[q]
         /\ request'[r].step = step /\ request'[r].seen = request[r].seen
         /\ \A q \in Requests :
              /\ request'[q].op = request[q].op /\ request'[q].by = request[q].by
              /\ request'[q].contract = request[q].contract
              /\ request'[q].item = request[q].item
<1>1. ASSUME NEW q \in Requests, NEW rec, IsRequest(rec), NEW s, NEW new,
             new = [rec EXCEPT !.step = s]
      PROVE  /\ IsRequest(new) /\ new.step = s /\ new.op = rec.op /\ new.by = rec.by
             /\ new.contract = rec.contract /\ new.item = rec.item /\ new.seen = rec.seen
  BY <1>1 DEF IsRequest
<1>2. IsRequest(request[r])
  BY DEF Shapes
<1>3. request' = [request EXCEPT ![r].step = step]
  BY DEF To
<1>4. request'[r] = [request[r] EXCEPT !.step = step]
  BY <1>3 DEF Shapes
<1>5. request' = [q \in Requests |-> request'[q]]
        /\ \A q \in Requests \ {r} : request'[q] = request[q]
  BY <1>3 DEF Shapes
<1>6. /\ IsRequest(request'[r]) /\ request'[r].step = step
      /\ request'[r].op = request[r].op /\ request'[r].by = request[r].by
      /\ request'[r].contract = request[r].contract /\ request'[r].item = request[r].item
      /\ request'[r].seen = request[r].seen
  BY <1>1, <1>2, <1>4
<1> QED
  BY <1>5, <1>6 DEF Shapes

\* A request moves on with what it has read; it stays what it is, and so do the others.
LEMMA MovedWith ==
  ASSUME Shapes, NEW r \in Requests, NEW step, NEW seen, ToWith(r, step, seen)
  PROVE  /\ request' = [q \in Requests |-> request'[q]]
         /\ \A q \in Requests : IsRequest(request'[q])
         /\ \A q \in Requests \ {r} : request'[q] = request[q]
         /\ request'[r].step = step /\ request'[r].seen = seen
         /\ \A q \in Requests :
              /\ request'[q].op = request[q].op /\ request'[q].by = request[q].by
              /\ request'[q].contract = request[q].contract
              /\ request'[q].item = request[q].item
<1>1. ASSUME NEW rec, IsRequest(rec), NEW new,
             new = [rec EXCEPT !.step = step, !.seen = seen]
      PROVE  /\ IsRequest(new) /\ new.step = step /\ new.op = rec.op /\ new.by = rec.by
             /\ new.contract = rec.contract /\ new.item = rec.item /\ new.seen = seen
  BY <1>1 DEF IsRequest
<1>2. IsRequest(request[r])
  BY DEF Shapes
<1>3. request' = [request EXCEPT ![r].step = step, ![r].seen = seen]
  BY DEF ToWith
<1>4. request'[r] = [request[r] EXCEPT !.step = step, !.seen = seen]
  BY <1>3 DEF Shapes
<1>5. request' = [q \in Requests |-> request'[q]]
        /\ \A q \in Requests \ {r} : request'[q] = request[q]
  BY <1>3 DEF Shapes
<1>6. /\ IsRequest(request'[r]) /\ request'[r].step = step
      /\ request'[r].op = request[r].op /\ request'[r].by = request[r].by
      /\ request'[r].contract = request[r].contract /\ request'[r].item = request[r].item
      /\ request'[r].seen = seen
  <2>1. PICK rec, new : rec = request[r] /\ new = request'[r]
    OBVIOUS
  <2>2. IsRequest(rec) /\ new = [rec EXCEPT !.step = step, !.seen = seen]
    BY <1>2, <1>4, <2>1
  <2>3. /\ IsRequest(new) /\ new.step = step /\ new.op = rec.op /\ new.by = rec.by
        /\ new.contract = rec.contract /\ new.item = rec.item /\ new.seen = seen
    BY <1>1, <2>2
  <2> QED
    BY <2>1, <2>3
<1> QED
  BY <1>5, <1>6 DEF Shapes

\* A request that is made is what was asked, and the others are as they were.
LEMMA Made ==
  ASSUME Shapes, NEW r \in Requests, NEW op, NEW step, NEW c, NEW t, NEW item, NEW seen,
         request' = [request EXCEPT ![r] =
           [op |-> op, step |-> step, contract |-> c, by |-> t, item |-> item, seen |-> seen]]
  PROVE  /\ request' = [q \in Requests |-> request'[q]]
         /\ \A q \in Requests : IsRequest(request'[q])
         /\ \A q \in Requests \ {r} : request'[q] = request[q]
         /\ request'[r].op = op /\ request'[r].step = step /\ request'[r].contract = c
         /\ request'[r].by = t /\ request'[r].item = item /\ request'[r].seen = seen
BY DEF Shapes, IsRequest

\* A sequence with one element more, one changed, one less.
LEMMA Appended ==
  ASSUME NEW s, IsSequence(s), NEW e
  PROVE  /\ IsSequence(Append(s, e))
         /\ Len(s) \in Nat /\ DOMAIN s = 1..Len(s)
         /\ Len(Append(s, e)) = Len(s) + 1 /\ DOMAIN Append(s, e) = 1..(Len(s) + 1)
         /\ \A i \in 1..Len(s) : Append(s, e)[i] = s[i]
         /\ Append(s, e)[Len(s) + 1] = e
<1>1. PICK S : s \in Seq(S)
  BY DEF IsSequence
<1>2. s \in Seq(S \union {e})
  BY <1>1, SeqMonotonic
<1>3. Append(s, e) \in Seq(S \union {e}) /\ Len(Append(s, e)) = Len(s) + 1
  BY <1>2
<1>4. Len(s) \in Nat /\ DOMAIN s = 1..Len(s) /\ DOMAIN Append(s, e) = 1..(Len(s) + 1)
  BY <1>2, <1>3, LenProperties
<1>5. /\ \A i \in 1..Len(s) : Append(s, e)[i] = s[i]
      /\ Append(s, e)[Len(s) + 1] = e
  BY <1>2, <1>4
<1> QED
  BY <1>3, <1>4, <1>5 DEF IsSequence

\* A sequence of which one entry is replaced.
LEMMA Changed ==
  ASSUME NEW s, IsSequence(s), NEW i \in DOMAIN s, NEW e
  PROVE  /\ IsSequence([s EXCEPT ![i] = e])
         /\ Len(s) \in Nat /\ DOMAIN s = 1..Len(s)
         /\ Len([s EXCEPT ![i] = e]) = Len(s) /\ DOMAIN [s EXCEPT ![i] = e] = DOMAIN s
         /\ [s EXCEPT ![i] = e][i] = e
         /\ \A j \in DOMAIN s \ {i} : [s EXCEPT ![i] = e][j] = s[j]
<1>1. PICK S : s \in Seq(S)
  BY DEF IsSequence
<1>2. s \in Seq(S \union {e})
  BY <1>1, SeqMonotonic
<1>3. Len(s) \in Nat /\ DOMAIN s = 1..Len(s)
  BY <1>1, LenProperties
<1>4. /\ [s EXCEPT ![i] = e] \in Seq(S \union {e})
      /\ Len([s EXCEPT ![i] = e]) = Len(s)
      /\ \A j \in 1..Len(s) : [s EXCEPT ![i] = e][j] = IF j = i THEN e ELSE s[j]
  BY <1>2, <1>3, ExceptSeq
<1>5. DOMAIN [s EXCEPT ![i] = e] = DOMAIN s
  OBVIOUS
<1> QED
  BY <1>3, <1>4, <1>5 DEF IsSequence

\* A sequence of which one entry is cut out.
LEMMA Removed ==
  ASSUME NEW s, IsSequence(s), NEW i \in DOMAIN s, NEW t,
         t = SubSeq(s, 1, i - 1) \o SubSeq(s, i + 1, Len(s))
  PROVE  /\ IsSequence(t)
         /\ Len(s) \in Nat /\ DOMAIN s = 1..Len(s)
         /\ Len(t) = Len(s) - 1 /\ DOMAIN t = 1..(Len(s) - 1)
         /\ \A j \in 1..(Len(s) - 1) : t[j] = s[IF j < i THEN j ELSE j + 1]
<1>0. PICK S : s \in Seq(S)
  BY DEF IsSequence
<1> DEFINE head == SubSeq(s, 1, i - 1)
           tail == SubSeq(s, i + 1, Len(s))
<1>1. Len(s) \in Nat /\ DOMAIN s = 1..Len(s) /\ \A j \in 1..Len(s) : s[j] \in S
  BY <1>0, LenProperties, ElementOfSeq
<1>2. head \in Seq(S) /\ Len(head) = i - 1 /\ \A j \in 1..(i - 1) : head[j] = s[j]
  <2>1. i - 1 \in Int /\ \A j \in 1..(i - 1) : s[j] \in S
    BY <1>1
  <2> QED
    BY <1>1, <2>1, SubSeqProperties
<1>3. /\ tail \in Seq(S) /\ Len(tail) = Len(s) - i
      /\ \A j \in 1..(Len(s) - i) : tail[j] = s[j + i]
  <2>1. i + 1 \in Int /\ \A j \in (i + 1)..Len(s) : s[j] \in S
    BY <1>1
  <2>2. \A j \in 1..(Len(s) - (i + 1) + 1) : tail[j] = s[(i + 1) + j - 1]
    BY <1>1, <2>1, SubSeqProperties
  <2>3. tail \in Seq(S) /\ Len(tail) = Len(s) - i
    BY <1>1, <2>1, SubSeqProperties
  <2>4. ASSUME NEW j \in 1..(Len(s) - i)
        PROVE  tail[j] = s[j + i]
    <3>1. j \in 1..(Len(s) - (i + 1) + 1) /\ (i + 1) + j - 1 = j + i
      BY <1>1
    <3> QED
      BY <2>2, <3>1
  <2> QED
    BY <2>3, <2>4
<1> HIDE DEF head, tail
<1>4. /\ t \in Seq(S) /\ Len(t) = (i - 1) + (Len(s) - i)
      /\ \A j \in 1..((i - 1) + (Len(s) - i)) :
           t[j] = IF j <= i - 1 THEN head[j] ELSE tail[j - (i - 1)]
  <2>1. t = head \o tail
    BY DEF head, tail
  <2>2. /\ head \o tail \in Seq(S) /\ Len(head \o tail) = Len(head) + Len(tail)
        /\ \A j \in 1..(Len(head) + Len(tail)) :
             (head \o tail)[j] = IF j <= Len(head) THEN head[j] ELSE tail[j - Len(head)]
    BY <1>2, <1>3, ConcatProperties
  <2> QED
    BY <1>2, <1>3, <2>1, <2>2
<1>5. ASSUME NEW j \in 1..(Len(s) - 1)
      PROVE  t[j] = s[IF j < i THEN j ELSE j + 1]
  <2>1. t[j] = IF j <= i - 1 THEN head[j] ELSE tail[j - (i - 1)]
    <3>1. j \in 1..((i - 1) + (Len(s) - i))
      BY <1>1
    <3> QED
      BY <1>4, <3>1
  <2>2. CASE j < i
    <3>1. j \in 1..(i - 1) /\ j <= i - 1
      BY <1>1, <2>2
    <3>2. t[j] = head[j]
      BY <2>1, <3>1
    <3>3. head[j] = s[j]
      BY <1>2, <3>1
    <3> QED
      BY <2>2, <3>2, <3>3
  <2>3. CASE ~(j < i)
    <3> DEFINE k == j - (i - 1)
    <3>1. k \in 1..(Len(s) - i) /\ k + i = j + 1
      BY <1>1, <2>3
    <3>2. t[j] = tail[k]
      <4>1. ~(j <= i - 1)
        BY <1>1, <2>3
      <4> QED
        BY <2>1, <4>1
    <3> HIDE DEF k
    <3> QED
      BY <1>3, <2>3, <3>1, <3>2
  <2> QED
    BY <2>2, <2>3
<1>6. Len(t) = Len(s) - 1
  BY <1>1, <1>4
<1>7. DOMAIN t = 1..(Len(s) - 1)
  BY <1>4, <1>6, LenProperties
<1> QED
  BY <1>1, <1>4, <1>5, <1>6, <1>7 DEF IsSequence

-----------------------------------------------------------------------------
(* What requests, rows and files are *)

Bounds ==
  /\ now \in 0..MaxTime /\ failures \in 0..MaxFailures
  /\ disk \subseteq Requests /\ unsure \subseteq Tabs /\ touched \subseteq Contracts
  /\ raced \subseteq Contracts \X Names

KindFits(r) ==
  /\ request[r].op = "none" => request[r].step = "unsent"
  /\ request[r].op # "none" => request[r].contract \in Contracts
  /\ request[r].op = "time" =>
       /\ request[r].by \in Tabs
       /\ request[r].item[1] \in 0..MaxTime /\ request[r].item[2] \in 0..MaxTime
       /\ request[r].step \in {"sent", "locked", "read", "created", "failed"}
  /\ request[r].op = "file" =>
       /\ r \in disk
       /\ request[r].item[1] \in Names /\ request[r].item = <<request[r].item[1]>>
       /\ request[r].step \in {"sent", "counted", "created", "failed"}

KindsFit ==
  \A r \in Requests : request[r].op \in {"none", "time", "file"} /\ KindFits(r)

\* A row, as the request that made it left it; whoever edits it makes it longer.
RowFits(e, c) ==
  /\ e.id \in Requests /\ At(e.id, "time", "created") /\ request[e.id].contract = c
  /\ e.createdAt \in 0..MaxTime
  /\ e.from \in Nat /\ e.to \in Nat

RowsFit ==
  \A c \in Contracts : \A i \in DOMAIN log[c] : \A e : e = log[c][i] => RowFits(e, c)

FilesFit ==
  \A f \in files : f.id \in Requests /\ At(f.id, "file", "created") /\ f.contract \in Contracts

\* The hash that the next entry of a contract continues.
lastHash(c) == IF log[c] = <<>> THEN GENESIS ELSE log[c][Len(log[c])].hash

Excluded ==
  \A r, q \in Requests :
    inChainLock(r) /\ inChainLock(q) /\ request[q].contract = request[r].contract => q = r

\* Also of a contract whose rows were touched: the last row stays the last, and its hash.
SeenIsLast ==
  \A r \in Requests :
    At(r, "time", "read") /\ clockMoved(request[r].contract) =>
      request[r].seen = lastHash(request[r].contract)

Base == Shapes /\ Bounds /\ KindsFit /\ RowsFit /\ FilesFit /\ Excluded

\* The shapes, the lock and the order of the timestamps hold initially.
LEMMA BaseInit == Init => Base
<1> SUFFICES ASSUME Init PROVE Base
  OBVIOUS
<1>1. IsSequence(<<>>) /\ DOMAIN <<>> = {}
  BY EmptySeq DEF IsSequence
<1>2. Shapes
  BY <1>1 DEF Init, Shapes, Unsent, IsRequest, IsRow
<1>3. Bounds
  BY WorkspaceAssumption DEF Init, Bounds
<1>4. KindsFit /\ Excluded
  BY DEF Init, KindsFit, KindFits, Excluded, inChainLock, Unsent
<1>5. RowsFit /\ FilesFit
  BY <1>1 DEF Init, RowsFit, FilesFit
<1> QED
  BY <1>2, <1>3, <1>4, <1>5 DEF Base

\* One request takes a step that its kind allows; rows and files are what they were.
LEMMA Stepped ==
  ASSUME Base, NEW r \in Requests, NEW step, NEW seen,
         To(r, step) \/ ToWith(r, step, seen),
         request[r].step \notin {"unsent", "created"},
         \/ request[r].op = "time" /\ step \in {"locked", "read", "created", "failed"}
         \/ request[r].op = "file" /\ step \in {"counted", "created", "failed"},
         UNCHANGED <<tab, disk>>
  PROVE  /\ request' = [q \in Requests |-> request'[q]]
         /\ \A q \in Requests : IsRequest(request'[q])
         /\ KindsFit'
         /\ \A q \in Requests \ {r} : request'[q] = request[q]
         /\ request'[r].step = step /\ request'[r].contract = request[r].contract
         /\ request'[r].op = request[r].op /\ request'[r].item = request[r].item
         /\ request'[r].by = request[r].by
         /\ \A e, c : RowFits(e, c) => RowFits(e, c)'
         /\ UNCHANGED files => FilesFit'
<1>1. /\ request' = [q \in Requests |-> request'[q]]
      /\ \A q \in Requests : IsRequest(request'[q])
      /\ \A q \in Requests \ {r} : request'[q] = request[q]
      /\ request'[r].step = step
      /\ \A q \in Requests :
           /\ request'[q].op = request[q].op /\ request'[q].by = request[q].by
           /\ request'[q].contract = request[q].contract
           /\ request'[q].item = request[q].item
  BY Moved, MovedWith DEF Base
<1>2. KindsFit'
  BY <1>1 DEF Base, KindsFit, KindFits
<1>3. \A e, c : RowFits(e, c) => RowFits(e, c)'
  BY <1>1 DEF RowFits, At
<1>4. UNCHANGED files => FilesFit'
  BY <1>1 DEF Base, FilesFit, At
<1> QED
  BY <1>1, <1>2, <1>3, <1>4

\* The rows are as they were.
LEMMA SameRows ==
  ASSUME Base, UNCHANGED log, \A e, c : RowFits(e, c) => RowFits(e, c)'
  PROVE  RowsFit'
BY DEF Base, RowsFit

\* The shapes stand in a step that only moves requests on.
LEMMA SameShapes ==
  ASSUME Base, UNCHANGED <<tab, log>>, request' = [q \in Requests |-> request'[q]],
         \A q \in Requests : IsRequest(request'[q])
  PROVE  Shapes'
BY DEF Base, Shapes

\* A request that only moves on, into the lock when that is free.
LEMMA RequestStep ==
  ASSUME Base, NEW r \in Requests, NEW step, NEW seen,
         To(r, step) \/ ToWith(r, step, seen),
         request[r].step \notin {"unsent", "created"},
         \/ request[r].op = "time" /\ step \in {"locked", "read", "failed"}
         \/ request[r].op = "file" /\ step \in {"counted", "failed"},
         step \in {"locked", "read"} =>
           inChainLock(r) \/ chainFree(request[r].contract),
         UNCHANGED <<log, files, disk, tab, now, raced, unsure, touched>>,
         failures' \in 0..MaxFailures
  PROVE  Base'
<1>1. /\ request' = [q \in Requests |-> request'[q]]
      /\ \A q \in Requests : IsRequest(request'[q])
      /\ KindsFit' /\ FilesFit'
      /\ \A q \in Requests \ {r} : request'[q] = request[q]
      /\ request'[r].step = step /\ request'[r].contract = request[r].contract
      /\ request'[r].op = request[r].op
      /\ \A e, c : RowFits(e, c) => RowFits(e, c)'
  BY Stepped
<1>2. Shapes' /\ RowsFit'
  BY <1>1, SameShapes, SameRows
<1>3. Bounds'
  BY DEF Base, Bounds
<1>4. Excluded'
  BY <1>1 DEF Base, Excluded, inChainLock, chainFree
<1> QED
  BY <1>1, <1>2, <1>3, <1>4 DEF Base

\* A new request: nothing that is there refers to it.
LEMMA Sent ==
  ASSUME Base, NEW r \in Requests, request[r] = Unsent,
         NEW op \in {"time", "file"}, NEW step, NEW c \in Contracts, NEW t, NEW item, NEW seen,
         request' = [request EXCEPT ![r] =
           [op |-> op, step |-> step, contract |-> c, by |-> t, item |-> item, seen |-> seen]],
         step \in {"sent", "failed"}, disk \subseteq disk',
         op = "time" => t \in Tabs /\ item[1] \in 0..MaxTime /\ item[2] \in 0..MaxTime,
         op = "file" => r \in disk' /\ item[1] \in Names /\ item = <<item[1]>>,
         UNCHANGED <<log, files>>
  PROVE  /\ request' = [q \in Requests |-> request'[q]]
         /\ \A q \in Requests : IsRequest(request'[q])
         /\ KindsFit' /\ RowsFit' /\ FilesFit' /\ Excluded'
         /\ \A q \in Requests \ {r} : request'[q] = request[q]
         /\ request'[r].op = op /\ request'[r].step = step /\ request'[r].contract = c
         /\ request'[r].by = t /\ request'[r].item = item
<1>1. /\ request' = [q \in Requests |-> request'[q]]
      /\ \A q \in Requests : IsRequest(request'[q])
      /\ \A q \in Requests \ {r} : request'[q] = request[q]
      /\ request'[r].op = op /\ request'[r].step = step /\ request'[r].contract = c
      /\ request'[r].by = t /\ request'[r].item = item
  <2>1. Shapes
    BY DEF Base
  <2>2. /\ request' = [q \in Requests |-> request'[q]]
        /\ \A q \in Requests : IsRequest(request'[q])
    BY <2>1 DEF Shapes, IsRequest
  <2>3. /\ request'[r] = [op |-> op, step |-> step, contract |-> c, by |-> t, item |-> item,
                         seen |-> seen]
        /\ \A q \in Requests \ {r} : request'[q] = request[q]
    BY <2>1 DEF Shapes
  <2> QED
    BY <2>2, <2>3
<1>2. request[r].op = "none" /\ request[r].step = "unsent"
  BY DEF Unsent
<1>3. KindsFit'
  <2>1. ASSUME NEW q \in Requests
        PROVE  request'[q].op \in {"none", "time", "file"} /\ KindFits(q)'
    <3>1. CASE q = r
      BY <1>1, <3>1 DEF KindFits
    <3>2. CASE q # r
      BY <1>1, <3>2 DEF Base, KindsFit, KindFits
    <3> QED
      BY <3>1, <3>2
  <2> QED
    BY <2>1 DEF KindsFit
<1>4. RowsFit'
  <2>1. \A e, d : RowFits(e, d) => RowFits(e, d)'
    BY <1>1, <1>2 DEF RowFits, At
  <2> QED
    BY <2>1, SameRows
<1>5. FilesFit'
  BY <1>1, <1>2 DEF Base, FilesFit, At
<1>6. Excluded'
  BY <1>1, <1>2 DEF Base, Excluded, inChainLock
<1> QED
  BY <1>1, <1>3, <1>4, <1>5, <1>6

\* The trackers on the screens.
LEMMA TabStep ==
  ASSUME Base, NEW t \in Tabs, start(t) \/ Answer(t) \/ AnswerLost(t) \/ Leave(t)
  PROVE  Base'
<1>1. tab' \in [Tabs -> [startedAt : 0..MaxTime \union {NoTime},
                         saving : Requests \union {NoRequest}]]
  <2> DEFINE T == [startedAt : 0..MaxTime \union {NoTime}, saving : Requests \union {NoRequest}]
             none == [startedAt |-> NoTime, saving |-> NoRequest]
  <2>1. tab \in [Tabs -> T] /\ now \in 0..MaxTime
    BY DEF Base, Shapes, Bounds
  <2>2. none \in T
    OBVIOUS
  <2> QED
    BY <2>1, <2>2 DEF start, Answer, AnswerLost, Leave, saved
<1>2. UNCHANGED <<log, files, disk, request, now, raced, touched>>
  BY DEF start, Answer, AnswerLost, Leave
<1>3. Shapes'
  BY <1>1, <1>2 DEF Base, Shapes
<1>4. Bounds'
  BY <1>2, WorkspaceAssumption DEF Base, Bounds, start, Answer, AnswerLost, Leave
<1>5. KindsFit' /\ RowsFit' /\ FilesFit' /\ Excluded'
  BY <1>2 DEF Base, KindsFit, KindFits, RowsFit, RowFits, FilesFit, Excluded, At, inChainLock
<1> QED
  BY <1>3, <1>4, <1>5 DEF Base

\* What the log of a contract is after a row was appended, changed or taken out.
LEMMA LogAppended ==
  ASSUME Shapes, NEW c \in Contracts, NEW e, log' = [log EXCEPT ![c] = Append(@, e)]
  PROVE  /\ log' = [d \in Contracts |-> log'[d]]
         /\ \A d \in Contracts \ {c} : log'[d] = log[d]
         /\ IsSequence(log'[c])
         /\ Len(log[c]) \in Nat /\ DOMAIN log[c] = 1..Len(log[c])
         /\ Len(log'[c]) = Len(log[c]) + 1 /\ DOMAIN log'[c] = 1..(Len(log[c]) + 1)
         /\ \A i \in 1..Len(log[c]) : log'[c][i] = log[c][i]
         /\ log'[c][Len(log[c]) + 1] = e
<1>1. /\ log' = [d \in Contracts |-> log'[d]]
      /\ \A d \in Contracts \ {c} : log'[d] = log[d]
      /\ log'[c] = Append(log[c], e)
  BY DEF Shapes
<1>2. IsSequence(log[c])
  BY DEF Shapes
<1> QED
  BY <1>1, <1>2, Appended

\* An edit outside the application changes the end of one row.
LEMMA LogEdited ==
  ASSUME Shapes, NEW c \in Contracts, NEW i \in DOMAIN log[c],
         log' = [log EXCEPT ![c][i].to = @ + 1]
  PROVE  /\ log' = [d \in Contracts |-> log'[d]]
         /\ \A d \in Contracts \ {c} : log'[d] = log[d]
         /\ IsSequence(log'[c])
         /\ Len(log[c]) \in Nat /\ DOMAIN log[c] = 1..Len(log[c])
         /\ Len(log'[c]) = Len(log[c]) /\ DOMAIN log'[c] = DOMAIN log[c]
         /\ \A j \in DOMAIN log[c] \ {i} : log'[c][j] = log[c][j]
         /\ IsRow(log'[c][i]) /\ log'[c][i].to = log[c][i].to + 1
         /\ log'[c][i].id = log[c][i].id /\ log'[c][i].from = log[c][i].from
         /\ log'[c][i].prev = log[c][i].prev /\ log'[c][i].hash = log[c][i].hash
         /\ log'[c][i].createdAt = log[c][i].createdAt
<1>1. PICK e : e = [log[c][i] EXCEPT !.to = @ + 1]
  OBVIOUS
<1>2. /\ log' = [d \in Contracts |-> log'[d]]
      /\ \A d \in Contracts \ {c} : log'[d] = log[d]
      /\ log'[c] = [log[c] EXCEPT ![i] = e]
  BY <1>1 DEF Shapes
<1>3. IsSequence(log[c]) /\ IsRow(log[c][i])
  BY DEF Shapes
<1>4. /\ IsRow(e) /\ e.to = log[c][i].to + 1
      /\ e.id = log[c][i].id /\ e.from = log[c][i].from
      /\ e.prev = log[c][i].prev /\ e.hash = log[c][i].hash
      /\ e.createdAt = log[c][i].createdAt
  <2>1. ASSUME NEW old, IsRow(old), e = [old EXCEPT !.to = @ + 1]
        PROVE  /\ IsRow(e) /\ e.to = old.to + 1
               /\ e.id = old.id /\ e.from = old.from
               /\ e.prev = old.prev /\ e.hash = old.hash /\ e.createdAt = old.createdAt
    BY <2>1 DEF IsRow
  <2> QED
    BY <1>1, <1>3, <2>1
<1>5. /\ IsSequence(log'[c])
      /\ Len(log[c]) \in Nat /\ DOMAIN log[c] = 1..Len(log[c])
      /\ Len(log'[c]) = Len(log[c]) /\ DOMAIN log'[c] = DOMAIN log[c]
      /\ \A j \in DOMAIN log[c] \ {i} : log'[c][j] = log[c][j]
      /\ log'[c][i] = e
  BY <1>2, <1>3, Changed
<1> QED
  BY <1>2, <1>4, <1>5

\* A deletion outside the application takes one row out of one log.
LEMMA LogDeleted ==
  ASSUME Shapes, NEW c \in Contracts, NEW i \in DOMAIN log[c],
         log' = [log EXCEPT ![c] = SubSeq(@, 1, i - 1) \o SubSeq(@, i + 1, Len(@))]
  PROVE  /\ log' = [d \in Contracts |-> log'[d]]
         /\ \A d \in Contracts \ {c} : log'[d] = log[d]
         /\ IsSequence(log'[c])
         /\ Len(log[c]) \in Nat /\ DOMAIN log[c] = 1..Len(log[c])
         /\ Len(log'[c]) = Len(log[c]) - 1 /\ DOMAIN log'[c] = 1..(Len(log[c]) - 1)
         /\ \A j \in 1..(Len(log[c]) - 1) : log'[c][j] = log[c][IF j < i THEN j ELSE j + 1]
<1>1. /\ log' = [d \in Contracts |-> log'[d]]
      /\ \A d \in Contracts \ {c} : log'[d] = log[d]
      /\ log'[c] = SubSeq(log[c], 1, i - 1) \o SubSeq(log[c], i + 1, Len(log[c]))
  BY DEF Shapes
<1>2. IsSequence(log[c])
  BY DEF Shapes
<1>3. PICK t : t = SubSeq(log[c], 1, i - 1) \o SubSeq(log[c], i + 1, Len(log[c]))
  OBVIOUS
<1>4. /\ IsSequence(t)
      /\ Len(log[c]) \in Nat /\ DOMAIN log[c] = 1..Len(log[c])
      /\ Len(t) = Len(log[c]) - 1 /\ DOMAIN t = 1..(Len(log[c]) - 1)
      /\ \A j \in 1..(Len(log[c]) - 1) : t[j] = log[c][IF j < i THEN j ELSE j + 1]
  BY <1>2, <1>3, Removed
<1>5. log'[c] = t
  BY <1>1, <1>3
<1> QED
  BY <1>1, <1>4, <1>5

\* A new row keeps the shapes.
LEMMA AppendStep ==
  ASSUME Base, NEW r \in Requests, ChainAppend(r)
  PROVE  Base'
<1>0. PICK c : c = request[r].contract
  OBVIOUS
<1>1. PICK e : e = Entry(r, c, request[r].seen)
  OBVIOUS
<1>2. /\ At(r, "time", "read") /\ To(r, "created") /\ log' = [log EXCEPT ![c] = Append(@, e)]
      /\ UNCHANGED <<files, disk, tab, now, failures, raced, unsure, touched>>
  BY <1>0, <1>1 DEF ChainAppend
<1>3. /\ request[r].op = "time" /\ request[r].step = "read" /\ c \in Contracts
      /\ request[r].item[1] \in 0..MaxTime /\ request[r].item[2] \in 0..MaxTime
      /\ now \in 0..MaxTime
  BY <1>0, <1>2 DEF Base, KindsFit, KindFits, At, Bounds
<1>4. /\ request' = [q \in Requests |-> request'[q]]
      /\ \A q \in Requests : IsRequest(request'[q])
      /\ KindsFit' /\ FilesFit'
      /\ \A q \in Requests \ {r} : request'[q] = request[q]
      /\ request'[r].step = "created" /\ request'[r].contract = c
      /\ request'[r].op = "time"
      /\ \A x, d : RowFits(x, d) => RowFits(x, d)'
  BY <1>0, <1>2, <1>3, Stepped
<1>5. /\ e.id = r /\ e.createdAt = now /\ IsRow(e)
      /\ e.from = request[r].item[1] /\ e.to = request[r].item[2]
  BY <1>1 DEF Entry, IsRow
<1>6. /\ log' = [d \in Contracts |-> log'[d]]
      /\ \A d \in Contracts \ {c} : log'[d] = log[d]
      /\ IsSequence(log'[c])
      /\ Len(log[c]) \in Nat /\ DOMAIN log[c] = 1..Len(log[c])
      /\ DOMAIN log'[c] = 1..(Len(log[c]) + 1)
      /\ \A i \in 1..Len(log[c]) : log'[c][i] = log[c][i]
      /\ log'[c][Len(log[c]) + 1] = e
  BY <1>2, <1>3, LogAppended DEF Base
<1>7. Shapes'
  <2>1. ASSUME NEW d \in Contracts
        PROVE  IsSequence(log'[d]) /\ \A i \in DOMAIN log'[d] : IsRow(log'[d][i])
    <3>1. CASE d = c
      BY <1>5, <1>6, <3>1 DEF Base, Shapes
    <3>2. CASE d # c
      BY <1>6, <3>2 DEF Base, Shapes
    <3> QED
      BY <3>1, <3>2
  <2> QED
    BY <1>2, <1>4, <1>6, <2>1 DEF Base, Shapes
<1>8. RowsFit'
  <2>1. RowFits(e, c)'
    <3>1. request'[r].op = "time" /\ request'[r].step = "created" /\ request'[r].contract = c
      BY <1>4
    <3>2. now \in 0..MaxTime /\ e.from \in Nat /\ e.to \in Nat
      BY <1>3, <1>5, WorkspaceAssumption
    <3> QED
      BY <1>5, <3>1, <3>2 DEF RowFits, At
  <2>2. ASSUME NEW d \in Contracts, NEW i \in DOMAIN log'[d], NEW x, x = log'[d][i]
        PROVE  RowFits(x, d)'
    <3>1. CASE d = c
      <4>1. CASE i = Len(log[c]) + 1
        BY <1>6, <2>1, <2>2, <3>1, <4>1
      <4>2. CASE i \in 1..Len(log[c])
        <5>1. i \in DOMAIN log[c] /\ x = log[c][i]
          BY <1>6, <2>2, <3>1, <4>2
        <5>2. RowFits(x, c)
          BY <1>3, <5>1 DEF Base, RowsFit
        <5> QED
          BY <1>4, <3>1, <5>2
      <4> QED
        BY <1>6, <2>2, <3>1, <4>1, <4>2
    <3>2. CASE d # c
      BY <1>4, <1>6, <2>2, <3>2 DEF Base, RowsFit
    <3> QED
      BY <3>1, <3>2
  <2> QED
    BY <2>2 DEF RowsFit
<1>9. Bounds' /\ Excluded'
  <2>1. Excluded'
    BY <1>4 DEF Base, Excluded, inChainLock
  <2> QED
    BY <1>2, <2>1 DEF Base, Bounds
<1> QED
  BY <1>4, <1>7, <1>8, <1>9 DEF Base

\* An edit keeps the shapes.
LEMMA EditStep ==
  ASSUME Base, NEW c \in Contracts, NEW i \in DOMAIN log[c], Edit(c, i)
  PROVE  Base'
<1>1. /\ log' = [d \in Contracts |-> log'[d]]
      /\ \A d \in Contracts \ {c} : log'[d] = log[d]
      /\ IsSequence(log'[c]) /\ DOMAIN log'[c] = DOMAIN log[c]
      /\ \A j \in DOMAIN log[c] \ {i} : log'[c][j] = log[c][j]
      /\ IsRow(log'[c][i]) /\ log'[c][i].to = log[c][i].to + 1
      /\ log'[c][i].id = log[c][i].id /\ log'[c][i].from = log[c][i].from
      /\ log'[c][i].createdAt = log[c][i].createdAt
  BY LogEdited DEF Base, Edit
<1>2. /\ UNCHANGED <<files, disk, request, tab, now, raced, unsure>>
      /\ touched' = touched \union {c} /\ failures' \in 0..MaxFailures
  BY WorkspaceAssumption DEF Edit, Base, Bounds
<1>3. Shapes'
  <2>1. ASSUME NEW d \in Contracts
        PROVE  IsSequence(log'[d]) /\ \A j \in DOMAIN log'[d] : IsRow(log'[d][j])
    BY <1>1 DEF Base, Shapes
  <2> QED
    BY <1>1, <1>2, <2>1 DEF Base, Shapes
<1>4. RowsFit'
  <2>1. ASSUME NEW d \in Contracts, NEW j \in DOMAIN log'[d], NEW x, x = log'[d][j]
        PROVE  RowFits(x, d)'
    <3>1. j \in DOMAIN log[d] /\ RowFits(log[d][j], d)
      BY <1>1, <2>1 DEF Base, RowsFit
    <3>2. CASE d = c /\ j = i
      BY <1>1, <1>2, <2>1, <3>1, <3>2 DEF RowFits, At
    <3>3. CASE ~(d = c /\ j = i)
      <4>1. x = log[d][j]
        BY <1>1, <2>1, <3>1, <3>3
      <4> QED
        BY <1>2, <3>1, <4>1 DEF RowFits, At
    <3> QED
      BY <3>2, <3>3
  <2> QED
    BY <2>1 DEF RowsFit
<1>5. Bounds' /\ KindsFit' /\ FilesFit' /\ Excluded'
  BY <1>2 DEF Base, Bounds, KindsFit, KindFits, FilesFit, Excluded, At, inChainLock
<1> QED
  BY <1>3, <1>4, <1>5 DEF Base

\* A deletion keeps the shapes.
LEMMA DeleteStep ==
  ASSUME Base, NEW c \in Contracts, NEW i \in DOMAIN log[c], Delete(c, i)
  PROVE  Base'
<1>1. /\ log' = [d \in Contracts |-> log'[d]]
      /\ \A d \in Contracts \ {c} : log'[d] = log[d]
      /\ IsSequence(log'[c])
      /\ Len(log[c]) \in Nat /\ DOMAIN log[c] = 1..Len(log[c])
      /\ DOMAIN log'[c] = 1..(Len(log[c]) - 1)
      /\ \A j \in 1..(Len(log[c]) - 1) : log'[c][j] = log[c][IF j < i THEN j ELSE j + 1]
  BY LogDeleted DEF Base, Delete
<1>2. /\ UNCHANGED <<files, disk, request, tab, now, raced, unsure>>
      /\ touched' = touched \union {c} /\ failures' \in 0..MaxFailures
  BY WorkspaceAssumption DEF Delete, Base, Bounds
<1>3. \A d \in Contracts : \A j \in DOMAIN log'[d] :
        \E k \in DOMAIN log[d] : log'[d][j] = log[d][k]
  BY <1>1
<1>4. Shapes'
  BY <1>1, <1>2, <1>3 DEF Base, Shapes
<1>5. RowsFit'
  <2>1. \A e, d : RowFits(e, d) => RowFits(e, d)'
    BY <1>2 DEF RowFits, At
  <2> QED
    BY <1>3, <2>1 DEF Base, RowsFit
<1>6. Bounds' /\ KindsFit' /\ FilesFit' /\ Excluded'
  BY <1>2 DEF Base, Bounds, KindsFit, KindFits, FilesFit, Excluded, At, inChainLock
<1> QED
  BY <1>4, <1>5, <1>6 DEF Base

\* A stopped timer makes one request to log its time.
LEMMA StopStep ==
  ASSUME Base, NEW t \in Tabs, NEW r \in Requests, stop(t, r)
  PROVE  Base' /\ \A q \in Requests \ {r} : request'[q] = request[q]
<1>1. tab[t].startedAt \in 0..MaxTime /\ now \in 0..MaxTime /\ TabContract[t] \in Contracts
  BY WorkspaceAssumption DEF Base, Shapes, Bounds, stop
<1>2. tab' \in [Tabs -> [startedAt : 0..MaxTime \union {NoTime},
                         saving : Requests \union {NoRequest}]]
  BY DEF stop, Base, Shapes
<1>3. PICK item : item = <<tab[t].startedAt, now>>
  OBVIOUS
<1>4. PICK c : c = TabContract[t]
  OBVIOUS
<1>5. /\ request' = [q \in Requests |-> request'[q]]
      /\ \A q \in Requests : IsRequest(request'[q])
      /\ KindsFit' /\ RowsFit' /\ FilesFit' /\ Excluded'
      /\ \A q \in Requests \ {r} : request'[q] = request[q]
  <2>1. request' = [request EXCEPT ![r] =
          [op |-> "time", step |-> "sent", contract |-> c, by |-> t, item |-> item,
           seen |-> GENESIS]]
    BY <1>3, <1>4 DEF stop
  <2>2. item[1] \in 0..MaxTime /\ item[2] \in 0..MaxTime
    BY <1>1, <1>3
  <2>3. request[r] = Unsent /\ UNCHANGED <<log, files, disk>>
    BY DEF stop
  <2> QED
    BY <1>1, <1>4, <2>1, <2>2, <2>3, Sent
<1>6. Shapes' /\ Bounds'
  BY <1>2, <1>5 DEF Base, Shapes, Bounds, stop
<1> QED
  BY <1>5, <1>6 DEF Base

\* An upload makes one request, which is refused or on its way.
LEMMA UploadStep ==
  ASSUME Base, NEW u \in Users, NEW c \in Contracts, NEW n \in Names, NEW r \in Requests,
         upload(u, c, n, r)
  PROVE  /\ Base' /\ request'[r].op = "file" /\ request'[r].step \in {"sent", "failed"}
         /\ \A q \in Requests \ {r} : request'[q] = request[q]
<1>1. PICK step : step = IF isParty(u, c) THEN "sent" ELSE "failed"
  OBVIOUS
<1>2. PICK item : item = <<n>>
  OBVIOUS
<1>3. /\ request' = [q \in Requests |-> request'[q]]
      /\ \A q \in Requests : IsRequest(request'[q])
      /\ KindsFit' /\ RowsFit' /\ FilesFit' /\ Excluded'
      /\ \A q \in Requests \ {r} : request'[q] = request[q]
      /\ request'[r].op = "file" /\ request'[r].step = step
  <2>1. request' = [request EXCEPT ![r] =
          [op |-> "file", step |-> step, contract |-> c, by |-> NoTab, item |-> item,
           seen |-> GENESIS]]
    BY <1>1, <1>2 DEF upload
  <2>2. item[1] \in Names /\ item = <<item[1]>> /\ step \in {"sent", "failed"}
    BY <1>1, <1>2
  <2>3. request[r] = Unsent /\ UNCHANGED <<log, files>> /\ disk' = disk \union {r}
    BY DEF upload
  <2> QED
    BY <2>1, <2>2, <2>3, Sent
<1>4. Shapes' /\ Bounds'
  BY <1>3 DEF Base, Shapes, Bounds, upload
<1> QED
  BY <1>1, <1>3, <1>4 DEF Base

\* A file that is stored ends its request.
LEMMA CreateStep ==
  ASSUME Base, NEW r \in Requests, CreateFile(r)
  PROVE  /\ Base' /\ request'[r].step = "created"
         /\ \A q \in Requests \ {r} : request'[q] = request[q]
<1>1. PICK c, n : c = request[r].contract /\ n = request[r].item[1]
  OBVIOUS
<1>2. PICK f : f = [id |-> r, contract |-> c, name |-> n, version |-> request[r].seen[1] + 1]
  OBVIOUS
<1>3. /\ At(r, "file", "counted") /\ To(r, "created") /\ files' = files \union {f}
      /\ raced' \subseteq raced \union {<<c, n>>}
      /\ UNCHANGED <<log, disk, tab, now, failures, unsure, touched>>
  BY <1>1, <1>2 DEF CreateFile
<1>4. c \in Contracts /\ n \in Names
  BY <1>1, <1>3 DEF Base, KindsFit, KindFits, At
<1>5. /\ request' = [q \in Requests |-> request'[q]]
      /\ \A q \in Requests : IsRequest(request'[q])
      /\ KindsFit'
      /\ \A q \in Requests \ {r} : request'[q] = request[q]
      /\ request'[r].step = "created" /\ request'[r].op = "file"
      /\ \A e, d : RowFits(e, d) => RowFits(e, d)'
  BY <1>3, Stepped DEF At
<1>6. Shapes' /\ RowsFit'
  BY <1>3, <1>5, SameShapes, SameRows
<1>7. FilesFit'
  BY <1>2, <1>3, <1>4, <1>5 DEF Base, FilesFit, At
<1>8. Bounds' /\ Excluded'
  BY <1>3, <1>4, <1>5 DEF Base, Bounds, Excluded, inChainLock
<1> QED
  BY <1>5, <1>6, <1>7, <1>8 DEF Base

\* The steps of a request that store nothing.
LEMMA SmallStep ==
  ASSUME Base, NEW r \in Requests,
         TimeRefused(r) \/ ChainLock(r) \/ ChainLast(r) \/ CountVersions(r) \/ RequestFails(r)
  PROVE  Base'
<1>1. CASE TimeRefused(r)
  BY <1>1, RequestStep DEF TimeRefused, At, Base, Bounds
<1>2. CASE ChainLock(r)
  BY <1>2, RequestStep DEF ChainLock, At, Base, Bounds
<1>3. CASE ChainLast(r)
  <2>1. PICK h : ToWith(r, "read", h)
    BY <1>3 DEF ChainLast
  <2> QED
    BY <1>3, <2>1, RequestStep DEF ChainLast, At, Base, Bounds, inChainLock
<1>4. CASE CountVersions(r)
  BY <1>4, RequestStep DEF CountVersions, At, Base, Bounds
<1>5. CASE RequestFails(r)
  <2>1. failures' \in 0..MaxFailures
    BY <1>5, WorkspaceAssumption DEF RequestFails, Base, Bounds
  <2>2. request[r].op \in {"time", "file"}
    BY <1>5 DEF RequestFails, Base, KindsFit, KindFits
  <2> QED
    BY <1>5, <2>1, <2>2, RequestStep DEF RequestFails
<1> QED
  BY <1>1, <1>2, <1>3, <1>4, <1>5

\* Every step keeps the shapes, the lock and the order of the timestamps.
LEMMA BaseStep == Base /\ [Next]_vars => Base'
<1> SUFFICES ASSUME Base, [Next]_vars PROVE Base'
  OBVIOUS
<1>1. CASE \E t \in Tabs : start(t) \/ Answer(t) \/ AnswerLost(t) \/ Leave(t)
  BY <1>1, TabStep
<1>2. CASE \E t \in Tabs, r \in Requests : stop(t, r)
  BY <1>2, StopStep
<1>3. CASE \E u \in Users, c \in Contracts, n \in Names, r \in Requests : upload(u, c, n, r)
  BY <1>3, UploadStep
<1>4. CASE \E r \in Requests :
             TimeRefused(r) \/ ChainLock(r) \/ ChainLast(r) \/ CountVersions(r) \/ RequestFails(r)
  BY <1>4, SmallStep
<1>5. CASE \E r \in Requests : ChainAppend(r) \/ CreateFile(r)
  BY <1>5, AppendStep, CreateStep
<1>6. CASE \E c \in Contracts : \E i \in DOMAIN log[c] : Edit(c, i) \/ Delete(c, i)
  BY <1>6, EditStep, DeleteStep
<1>7. CASE Tick \/ ClockBack \/ UNCHANGED vars
  <2>1. UNCHANGED <<log, files, disk, request, tab, raced, touched>>
    BY <1>7 DEF Tick, ClockBack, vars
  <2>2. Bounds'
    BY <1>7, <2>1, WorkspaceAssumption DEF Base, Bounds, Tick, ClockBack, vars
  <2>3. Shapes' /\ KindsFit' /\ RowsFit' /\ FilesFit' /\ Excluded'
    BY <2>1 DEF Base, Shapes, KindsFit, KindFits, RowsFit, RowFits, FilesFit, Excluded, At,
                inChainLock
  <2> QED
    BY <2>2, <2>3 DEF Base
<1> QED
  BY <1>1, <1>2, <1>3, <1>4, <1>5, <1>6, <1>7 DEF Next

-----------------------------------------------------------------------------
(* What a request in the lock has read *)

\* The length and the positions of a log.
LEMMA SequenceFacts ==
  ASSUME Base, NEW c \in Contracts
  PROVE  /\ Len(log[c]) \in Nat /\ DOMAIN log[c] = 1..Len(log[c])
         /\ log[c] = <<>> <=> Len(log[c]) = 0
<1>1. PICK S : log[c] \in Seq(S)
  BY DEF Base, Shapes, IsSequence
<1> QED
  BY <1>1, LenProperties, EmptySeq

\* While the clock moves, the row with the newest timestamp is the last of the log.
LEMMA NewestIsLast ==
  ASSUME Base, NEW c \in Contracts, clockMoved(c), NEW h \in newestHashes(c)
  PROVE  h = lastHash(c)
<1> DEFINE rows == {log[c][i] : i \in DOMAIN log[c]}
           n == Len(log[c])
<1>1. n \in Nat /\ DOMAIN log[c] = 1..n /\ (log[c] = <<>> <=> n = 0)
  BY SequenceFacts
<1>2. CASE n = 0
  <2>1. rows = {}
    BY <1>1, <1>2
  <2> QED
    BY <1>1, <1>2, <2>1 DEF newestHashes, lastHash
<1>3. CASE n # 0
  <2>1. log[c][n] \in rows
    BY <1>1, <1>3
  <2>2. PICK e \in rows : h = e.hash /\ \A y \in rows : y.createdAt <= e.createdAt
    BY <2>1 DEF newestHashes
  <2>3. PICK i \in 1..n : e = log[c][i]
    BY <1>1, <2>2
  <2>4. log[c][n].createdAt <= log[c][i].createdAt
    BY <2>1, <2>2, <2>3
  <2>5. log[c][n].createdAt \in Nat /\ log[c][i].createdAt \in Nat
    BY <1>1, <1>3, WorkspaceAssumption DEF Base, RowsFit, RowFits
  <2>6. ~(i < n)
    BY <1>1, <1>3, <2>4, <2>5 DEF clockMoved
  <2>7. i = n
    BY <1>1, <2>6
  <2> QED
    BY <1>1, <1>3, <2>2, <2>3, <2>7 DEF lastHash
<1> QED
  BY <1>2, <1>3

\* Two entries of one millisecond stay that.
LEMMA ClockStays ==
  ASSUME Base, [Next]_vars, NEW c \in Contracts, clockMoved(c)'
  PROVE  clockMoved(c)
<1>1. CASE UNCHANGED log
  BY <1>1 DEF clockMoved
<1>2. ASSUME NEW r \in Requests, ChainAppend(r) PROVE clockMoved(c)
  <2>1. request[r].contract \in Contracts
    BY <1>2 DEF ChainAppend, At, Base, KindsFit, KindFits
  <2>2. CASE request[r].contract # c
    <3>1. log'[c] = log[c]
      BY <1>2, <2>1, <2>2, LogAppended DEF ChainAppend, Base
    <3> QED
      BY <3>1 DEF clockMoved
  <2>3. CASE request[r].contract = c
    <3>1. PICK e : log' = [log EXCEPT ![c] = Append(@, e)]
      BY <1>2, <2>3 DEF ChainAppend
    <3>2. /\ Len(log[c]) \in Nat /\ DOMAIN log[c] = 1..Len(log[c])
          /\ DOMAIN log'[c] = 1..(Len(log[c]) + 1)
          /\ \A i \in 1..Len(log[c]) : log'[c][i] = log[c][i]
      BY <3>1, LogAppended DEF Base
    <3> QED
      BY <3>2 DEF clockMoved
  <2> QED
    BY <2>2, <2>3
<1>3. ASSUME NEW d \in Contracts, NEW i \in DOMAIN log[d], Edit(d, i) \/ Delete(d, i)
      PROVE  clockMoved(c)
  <2>1. clockMoved(d)
    BY <1>3 DEF Edit, Delete
  <2>2. CASE d # c
    <3>1. log'[c] = log[c]
      BY <1>3, <2>2, LogEdited, LogDeleted DEF Edit, Delete, Base
    <3> QED
      BY <3>1 DEF clockMoved
  <2> QED
    BY <2>1, <2>2
<1>4. UNCHANGED log \/ (\E r \in Requests : ChainAppend(r))
        \/ (\E d \in Contracts : \E i \in DOMAIN log[d] : Edit(d, i) \/ Delete(d, i))
  BY DEF Next, vars, start, Answer, AnswerLost, Leave, stop, upload, TimeRefused, ChainLock,
         ChainLast, CountVersions, CreateFile, RequestFails, Tick, ClockBack
<1> QED
  BY <1>1, <1>2, <1>3, <1>4

\* A request that has read, after a step: it had, or has just read.
LEMMA Readers ==
  ASSUME Base, [Next]_vars, NEW q \in Requests, At(q, "time", "read")'
  PROVE  \/ ChainLast(q) /\ UNCHANGED log
         \/ At(q, "time", "read") /\ request'[q] = request[q]
<1>1. CASE UNCHANGED request
  BY <1>1 DEF At
<1>2. ASSUME NEW r \in Requests, NEW step, NEW seen, To(r, step) \/ ToWith(r, step, seen),
             step # "read"
      PROVE  At(q, "time", "read") /\ request'[q] = request[q]
  BY <1>2, Moved, MovedWith DEF At, Base
<1>3. ASSUME NEW r \in Requests, ChainLast(r)
      PROVE  \/ ChainLast(q) /\ UNCHANGED log
             \/ At(q, "time", "read") /\ request'[q] = request[q]
  <2>1. PICK h : ToWith(r, "read", h)
    BY <1>3 DEF ChainLast
  <2> QED
    BY <1>3, <2>1, MovedWith DEF At, Base, ChainLast
<1>4. ASSUME NEW t \in Tabs, NEW r \in Requests, stop(t, r)
      PROVE  At(q, "time", "read") /\ request'[q] = request[q]
  <2>1. request' = [request EXCEPT ![r] =
          [op |-> "time", step |-> "sent", contract |-> TabContract[t], by |-> t,
           item |-> <<tab[t].startedAt, now>>, seen |-> GENESIS]]
    BY <1>4 DEF stop
  <2>2. request'[r].step = "sent" /\ \A x \in Requests \ {r} : request'[x] = request[x]
    BY <2>1 DEF Base, Shapes
  <2> QED
    BY <2>2 DEF At
<1>5. ASSUME NEW u \in Users, NEW c \in Contracts, NEW n \in Names, NEW r \in Requests,
             upload(u, c, n, r)
      PROVE  At(q, "time", "read") /\ request'[q] = request[q]
  BY <1>5, UploadStep DEF At
<1>6. \/ UNCHANGED request
      \/ \E r \in Requests : ChainLast(r)
      \/ \E r \in Requests, step \in Steps : To(r, step) /\ step # "read"
      \/ \E r \in Requests : CountVersions(r)
      \/ \E t \in Tabs, r \in Requests : stop(t, r)
      \/ \E u \in Users, c \in Contracts, n \in Names, r \in Requests : upload(u, c, n, r)
  BY DEF Next, vars, start, Answer, AnswerLost, Leave, TimeRefused, ChainLock,
         ChainAppend, CreateFile, RequestFails, Tick, ClockBack, Edit, Delete, Steps
<1>7. ASSUME NEW r \in Requests, CountVersions(r)
      PROVE  At(q, "time", "read") /\ request'[q] = request[q]
  BY <1>2, <1>7 DEF CountVersions
<1> QED
  BY <1>1, <1>2, <1>3, <1>4, <1>5, <1>6, <1>7

\* Initially nobody has read a hash.
LEMMA SeenInit == Init => SeenIsLast
BY DEF Init, SeenIsLast, At, Unsent

\* Whoever holds the lock has read the last hash, after every step.
LEMMA SeenStep == Base /\ SeenIsLast /\ [Next]_vars => SeenIsLast'
<1> SUFFICES ASSUME Base, SeenIsLast, [Next]_vars PROVE SeenIsLast'
  OBVIOUS
<1> SUFFICES ASSUME NEW q \in Requests, At(q, "time", "read")', NEW c,
                    c = request'[q].contract, clockMoved(c)'
             PROVE  request'[q].seen = lastHash(c)'
  BY DEF SeenIsLast
<1>1. Base'
  BY BaseStep
<1>2. c \in Contracts
  BY <1>1 DEF Base, KindsFit, KindFits, At
<1>3. clockMoved(c)
  BY <1>2, ClockStays
<1>4. CASE ChainLast(q) /\ UNCHANGED log
  <2>1. PICK h \in newestHashes(request[q].contract) : ToWith(q, "read", h)
    BY <1>4 DEF ChainLast
  <2>2. request'[q].seen = h /\ request[q].contract = c
    BY <2>1, MovedWith DEF Base
  <2>3. h = lastHash(c)
    BY <1>2, <1>3, <2>1, <2>2, NewestIsLast
  <2> QED
    BY <1>4, <2>2, <2>3 DEF lastHash
<1>5. CASE At(q, "time", "read") /\ request'[q] = request[q]
  <2>1. request'[q].seen = lastHash(c)
    BY <1>3, <1>5 DEF SeenIsLast
  <2>2. CASE log'[c] = log[c]
    BY <2>1, <2>2 DEF lastHash
  <2>3. ASSUME NEW r \in Requests, ChainAppend(r), log'[c] # log[c]
        PROVE  FALSE
    <3>1. request[r].contract \in Contracts /\ At(r, "time", "read")
      BY <2>3 DEF ChainAppend, At, Base, KindsFit, KindFits
    <3>2. request[r].contract = c
      BY <1>2, <2>3, <3>1, LogAppended DEF ChainAppend, Base
    <3>3. r = q
      BY <1>5, <3>1, <3>2 DEF Base, Excluded, inChainLock, At
    <3>4. request'[r].step = "created"
      BY <2>3, Moved DEF ChainAppend, Base
    <3> QED
      BY <1>5, <3>3, <3>4 DEF At
  <2>4. ASSUME NEW d \in Contracts, NEW i \in DOMAIN log[d], Edit(d, i), log'[c] # log[c]
        PROVE  lastHash(c)' = lastHash(c)
    <3>1. d = c
      BY <1>2, <2>4, LogEdited DEF Edit, Base
    <3>2. /\ Len(log[c]) \in Nat /\ Len(log'[c]) = Len(log[c])
          /\ DOMAIN log[c] = 1..Len(log[c])
          /\ \A j \in DOMAIN log[c] : log'[c][j].hash = log[c][j].hash
      <4>1. i \in DOMAIN log[c] /\ log' = [log EXCEPT ![c][i].to = @ + 1]
        BY <2>4, <3>1 DEF Edit
      <4>2. /\ Len(log[c]) \in Nat /\ Len(log'[c]) = Len(log[c])
            /\ DOMAIN log[c] = 1..Len(log[c])
            /\ \A j \in DOMAIN log[c] \ {i} : log'[c][j] = log[c][j]
            /\ log'[c][i].hash = log[c][i].hash
        BY <1>2, <4>1, LogEdited DEF Base
      <4> QED
        BY <4>2
    <3>3. Len(log[c]) # 0 /\ log[c] # <<>> /\ log'[c] # <<>>
      BY <1>1, <1>2, <2>4, <3>1, <3>2, SequenceFacts
    <3> QED
      BY <3>2, <3>3 DEF lastHash
  <2>5. ASSUME NEW d \in Contracts, NEW i \in DOMAIN log[d], Delete(d, i), log'[c] # log[c]
        PROVE  lastHash(c)' = lastHash(c)
    <3>1. d = c
      BY <1>2, <2>5, LogDeleted DEF Delete, Base
    <3>2. /\ Len(log[c]) \in Nat /\ Len(log'[c]) = Len(log[c]) - 1
          /\ DOMAIN log[c] = 1..Len(log[c])
          /\ \A j \in 1..(Len(log[c]) - 1) :
               log'[c][j] = log[c][IF j < i THEN j ELSE j + 1]
          /\ i < Len(log[c]) /\ i \in 1..Len(log[c])
      <4>1. /\ i \in DOMAIN log[c] /\ i < Len(log[c])
            /\ log' = [log EXCEPT ![c] = SubSeq(@, 1, i - 1) \o SubSeq(@, i + 1, Len(@))]
        BY <2>5, <3>1 DEF Delete
      <4>2. Shapes
        BY DEF Base
      <4>3. /\ Len(log[c]) \in Nat /\ DOMAIN log[c] = 1..Len(log[c])
            /\ Len(log'[c]) = Len(log[c]) - 1
            /\ \A j \in 1..(Len(log[c]) - 1) :
                 log'[c][j] = log[c][IF j < i THEN j ELSE j + 1]
        BY ONLY <1>2, <4>1, <4>2, LogDeleted
      <4> QED
        BY <4>1, <4>3
    <3>3. log'[c][Len(log'[c])] = log[c][Len(log[c])]
      <4> DEFINE n == Len(log[c]) - 1
      <4>0. Len(log[c]) \in Nat /\ i < Len(log[c]) /\ i \in 1..Len(log[c])
        BY <3>2
      <4>1. n = Len(log'[c]) /\ n \in 1..n /\ ~(n < i)
        BY <3>2, <4>0
      <4>2. n + 1 = Len(log[c])
        BY <3>2, <4>1
      <4> QED
        BY <3>2, <4>1, <4>2
    <3>4. log[c] # <<>> /\ log'[c] # <<>>
      <4>1. Len(log[c]) # 0 /\ Len(log'[c]) # 0
        BY <3>2
      <4> QED
        BY <1>1, <1>2, <3>2, <4>1, SequenceFacts, EmptySeq
    <3> QED
      BY <3>3, <3>4 DEF lastHash
  <2>6. \/ log'[c] = log[c]
        \/ \E r \in Requests : ChainAppend(r)
        \/ \E d \in Contracts : \E i \in DOMAIN log[d] : Edit(d, i)
        \/ \E d \in Contracts : \E i \in DOMAIN log[d] : Delete(d, i)
    BY DEF Next, vars, start, Answer, AnswerLost, Leave, stop, upload, TimeRefused, ChainLock,
           ChainLast, CountVersions, CreateFile, RequestFails, Tick, ClockBack
  <2> QED
    BY <2>1, <2>2, <2>3, <2>4, <2>5, <2>6
<1> QED
  BY <1>4, <1>5, Readers

\* What a contract's chain rests on.
WorkspaceInd == Base /\ SeenIsLast

\* What a run checks as the shape of the workspace follows from the invariant.
LEMMA BaseImpliesInv == WorkspaceInd => Inv
<1> SUFFICES ASSUME WorkspaceInd PROVE Inv
  OBVIOUS
<1>1. TypeOK
  <2>1. DOMAIN log = Contracts
    BY DEF WorkspaceInd, Base, Shapes
  <2>2. \A c \in Contracts : \A i \in DOMAIN log[c] :
          log[c][i].id \in Requests /\ log[c][i].createdAt \in 0..MaxTime
    BY DEF WorkspaceInd, Base, RowsFit, RowFits
  <2>3. \A r \in Requests : request[r].step \in Steps
    BY DEF WorkspaceInd, Base, KindsFit, KindFits, Steps
  <2>4. \A t \in Tabs : tab[t].saving \in Requests \union {NoRequest}
    BY DEF WorkspaceInd, Base, Shapes
  <2> QED
    BY <2>1, <2>2, <2>3, <2>4 DEF WorkspaceInd, Base, Bounds, TypeOK
<1>2. Continues
  BY DEF WorkspaceInd, Base, Excluded, SeenIsLast, Continues, lastHash
<1>3. Stored
  BY DEF WorkspaceInd, Base, FilesFit, KindsFit, KindFits, At, Stored
<1> QED
  BY <1>1, <1>2, <1>3 DEF Inv

\* The invariant on which the rest stands.
THEOREM WorkspaceInvariance == Spec => []WorkspaceInd
<1>1. Init => WorkspaceInd
  BY BaseInit, SeenInit DEF WorkspaceInd
<1>2. WorkspaceInd /\ [Next]_vars => WorkspaceInd'
  BY BaseStep, SeenStep DEF WorkspaceInd
<1> QED
  BY <1>1, <1>2, PTL DEF Spec

\* Types, the lock's exclusion and its use, and stored content, in every reachable state
\* (workspace.routes.ts:178-202, 221-296).
THEOREM WorkspaceStands == Spec => []Inv
BY WorkspaceInvariance, BaseImpliesInv, PTL

-----------------------------------------------------------------------------
(* Versions of a file *)

\* What an upload that was not overtaken has counted is what there is.
CountedFits(r) ==
  At(r, "file", "counted") /\ <<request[r].contract, request[r].item[1]>> \notin raced =>
    request[r].seen = <<priorVersions(request[r].contract, request[r].item[1])>>

VersionsInd ==
  /\ IsFiniteSet(files)
  /\ VersionsCount
  /\ \A r \in Requests : CountedFits(r)

\* Initially there are no versions.
LEMMA VersionsInit == Init => VersionsInd
<1> SUFFICES ASSUME Init PROVE VersionsInd
  OBVIOUS
<1>1. files = {} /\ IsFiniteSet(files)
  BY FS_EmptySet DEF Init
<1>2. \A c, n : versionsOf(c, n) = {} /\ Cardinality(versionsOf(c, n)) = 0
  BY <1>1, FS_EmptySet DEF versionsOf
<1>3. VersionsCount
  BY <1>2 DEF VersionsCount
<1>4. \A r \in Requests : CountedFits(r)
  BY DEF Init, CountedFits, At, Unsent
<1> QED
  BY <1>1, <1>3, <1>4 DEF VersionsInd

\* An upload that has counted, after a step: it had, or has just counted.
LEMMA Counters ==
  ASSUME Base, [Next]_vars, NEW q \in Requests, At(q, "file", "counted")'
  PROVE  \/ CountVersions(q)
         \/ At(q, "file", "counted") /\ request'[q] = request[q]
<1>1. CASE UNCHANGED request
  BY <1>1 DEF At
<1>2. ASSUME NEW r \in Requests, NEW step, NEW seen, To(r, step) \/ ToWith(r, step, seen),
             step # "counted"
      PROVE  At(q, "file", "counted") /\ request'[q] = request[q]
  BY <1>2, Moved, MovedWith DEF At, Base
<1>3. ASSUME NEW r \in Requests, CountVersions(r)
      PROVE  \/ CountVersions(q)
             \/ At(q, "file", "counted") /\ request'[q] = request[q]
  <2>1. PICK h : ToWith(r, "counted", h)
    BY <1>3 DEF CountVersions
  <2> QED
    BY <1>3, <2>1, MovedWith DEF At, Base
<1>4. ASSUME NEW t \in Tabs, NEW r \in Requests, stop(t, r)
      PROVE  At(q, "file", "counted") /\ request'[q] = request[q]
  <2>1. request' = [request EXCEPT ![r] =
          [op |-> "time", step |-> "sent", contract |-> TabContract[t], by |-> t,
           item |-> <<tab[t].startedAt, now>>, seen |-> GENESIS]]
    BY <1>4 DEF stop
  <2>2. request'[r].step = "sent" /\ \A x \in Requests \ {r} : request'[x] = request[x]
    BY <2>1 DEF Base, Shapes
  <2> QED
    BY <2>2 DEF At
<1>5. ASSUME NEW u \in Users, NEW c \in Contracts, NEW n \in Names, NEW r \in Requests,
             upload(u, c, n, r)
      PROVE  At(q, "file", "counted") /\ request'[q] = request[q]
  BY <1>5, UploadStep DEF At
<1>6. ASSUME NEW r \in Requests, ChainLast(r)
      PROVE  At(q, "file", "counted") /\ request'[q] = request[q]
  <2>1. PICK h : ToWith(r, "read", h)
    BY <1>6 DEF ChainLast
  <2> QED
    BY <1>2, <2>1
<1>7. \/ UNCHANGED request
      \/ \E r \in Requests : ChainLast(r) \/ CountVersions(r)
      \/ \E r \in Requests, step \in Steps : To(r, step) /\ step # "counted"
      \/ \E t \in Tabs, r \in Requests : stop(t, r)
      \/ \E u \in Users, c \in Contracts, n \in Names, r \in Requests : upload(u, c, n, r)
  BY DEF Next, vars, start, Answer, AnswerLost, Leave, TimeRefused, ChainLock,
         ChainAppend, CreateFile, RequestFails, Tick, ClockBack, Edit, Delete, Steps
<1> QED
  BY <1>1, <1>2, <1>3, <1>4, <1>5, <1>6, <1>7

\* One more version of a name, numbered by a count of what is there.
LEMMA OneVersionMore ==
  ASSUME IsFiniteSet(files), NEW c, NEW n, NEW f, f \notin files, files' = files \union {f},
         f.contract = c, f.name = n, f.version = priorVersions(c, n) + 1,
         {g.version : g \in versionsOf(c, n)} = 1..Cardinality(versionsOf(c, n))
  PROVE  {g.version : g \in versionsOf(c, n)'} = 1..Cardinality(versionsOf(c, n)')
<1>1. PICK V : V = versionsOf(c, n)
  OBVIOUS
<1>2. PICK k : k = Cardinality(V)
  OBVIOUS
<1>3. IsFiniteSet(V) /\ k \in Nat
  <2>1. V \subseteq files
    BY <1>1 DEF versionsOf
  <2> QED
    BY <1>2, <2>1, FS_Subset, FS_CardinalityType
<1>4. f \notin V /\ versionsOf(c, n)' = V \union {f}
  BY <1>1 DEF versionsOf
<1>5. Cardinality(V \union {f}) = k + 1
  BY <1>2, <1>3, <1>4, FS_AddElement
<1>6. f.version = k + 1 /\ {g.version : g \in V} = 1..k
  BY <1>1, <1>2 DEF priorVersions
<1>7. {g.version : g \in V \union {f}} = {g.version : g \in V} \union {k + 1}
  BY <1>6
<1>8. (1..k) \union {k + 1} = 1..(k + 1)
  BY <1>3
<1> QED
  BY <1>4, <1>5, <1>6, <1>7, <1>8

\* Every step keeps what is said of versions.
LEMMA VersionsStep == Base /\ VersionsInd /\ [Next]_vars => VersionsInd'
<1> SUFFICES ASSUME Base, VersionsInd, [Next]_vars PROVE VersionsInd'
  OBVIOUS
<1>0. Base'
  BY BaseStep
<1>1. CASE UNCHANGED <<files, raced>>
  <2>1. \A c, n : versionsOf(c, n)' = versionsOf(c, n) /\ priorVersions(c, n)' = priorVersions(c, n)
    BY <1>1 DEF versionsOf, priorVersions
  <2>2. IsFiniteSet(files)' /\ VersionsCount'
    BY <1>1, <2>1 DEF VersionsInd, VersionsCount
  <2>3. ASSUME NEW q \in Requests PROVE CountedFits(q)'
    <3> SUFFICES ASSUME At(q, "file", "counted")',
                        NEW c, NEW n, c = request'[q].contract, n = request'[q].item[1],
                        <<c, n>> \notin raced
                 PROVE  request'[q].seen = <<priorVersions(c, n)>>
      BY <1>1, <2>1 DEF CountedFits
    <3>1. CASE CountVersions(q)
      BY <3>1, MovedWith DEF CountVersions, Base
    <3>2. CASE At(q, "file", "counted") /\ request'[q] = request[q]
      BY <3>2 DEF VersionsInd, CountedFits
    <3> QED
      BY <3>1, <3>2, Counters
  <2> QED
    BY <2>2, <2>3 DEF VersionsInd
<1>2. ASSUME NEW r \in Requests, CreateFile(r) PROVE VersionsInd'
  <2>1. PICK c, n : c = request[r].contract /\ n = request[r].item[1]
    OBVIOUS
  <2>2. PICK f : f = [id |-> r, contract |-> c, name |-> n, version |-> request[r].seen[1] + 1]
    OBVIOUS
  <2>3. PICK A : A = {q \in Requests \ {r} : At(q, "file", "counted")
                        /\ request[q].contract = c /\ request[q].item = <<n>>}
    OBVIOUS
  <2>4. /\ At(r, "file", "counted") /\ files' = files \union {f}
        /\ raced' = IF A = {} THEN raced ELSE raced \union {<<c, n>>}
    BY <1>2, <2>1, <2>2, <2>3 DEF CreateFile
  <2>5. IsFiniteSet(files) /\ IsFiniteSet(files')
    BY <2>4, FS_AddElement DEF VersionsInd
  <2>6. f \notin files
    BY <2>2, <2>4 DEF Base, FilesFit, At
  <2>7. ASSUME NEW d, NEW m, ~(d = c /\ m = n)
        PROVE  versionsOf(d, m)' = versionsOf(d, m) /\ priorVersions(d, m)' = priorVersions(d, m)
    <3>1. ~(f.contract = d /\ f.name = m)
      BY <2>2, <2>7
    <3>2. versionsOf(d, m)' = versionsOf(d, m)
      BY <2>4, <3>1 DEF versionsOf
    <3> QED
      BY <3>2 DEF versionsOf, priorVersions
  <2>8. ASSUME NEW q \in Requests, At(q, "file", "counted")'
        PROVE  /\ q # r /\ At(q, "file", "counted") /\ request'[q] = request[q]
               /\ request[q].contract = c /\ request[q].item[1] = n => q \in A
    <3>1. q # r /\ At(q, "file", "counted") /\ request'[q] = request[q]
      BY <1>2, <2>8, CreateStep DEF At
    <3>2. request[q].item = <<request[q].item[1]>>
      BY <3>1 DEF Base, KindsFit, KindFits, At
    <3> QED
      BY <2>3, <3>1, <3>2
  <2>9. VersionsCount'
    <3> SUFFICES ASSUME NEW d \in Contracts, NEW m \in Names, <<d, m>> \notin raced'
                 PROVE  {g.version : g \in versionsOf(d, m)'}
                          = 1..Cardinality(versionsOf(d, m)')
      BY DEF VersionsCount
    <3>1. <<d, m>> \notin raced
      BY <2>4
    <3>2. {g.version : g \in versionsOf(d, m)} = 1..Cardinality(versionsOf(d, m))
      BY <3>1 DEF VersionsInd, VersionsCount
    <3>3. CASE d = c /\ m = n
      <4>1. request[r].seen = <<priorVersions(c, n)>>
        BY <2>1, <2>4, <3>1, <3>3 DEF VersionsInd, CountedFits
      <4>2. f.contract = c /\ f.name = n /\ f.version = priorVersions(c, n) + 1
        BY <2>2, <4>1
      <4> QED
        BY <2>4, <2>5, <2>6, <3>2, <3>3, <4>2, OneVersionMore
    <3>4. CASE ~(d = c /\ m = n)
      BY <2>7, <3>2, <3>4
    <3> QED
      BY <3>3, <3>4
  <2>10. ASSUME NEW q \in Requests PROVE CountedFits(q)'
    <3> SUFFICES ASSUME At(q, "file", "counted")',
                        NEW d, NEW m, d = request'[q].contract, m = request'[q].item[1],
                        <<d, m>> \notin raced'
                 PROVE  request'[q].seen = <<priorVersions(d, m)'>>
      BY DEF CountedFits
    <3>1. request'[q] = request[q] /\ At(q, "file", "counted") /\ ~(d = c /\ m = n)
      BY <2>4, <2>8
    <3>2. <<d, m>> \notin raced
      BY <2>4
    <3> QED
      BY <2>7, <3>1, <3>2 DEF VersionsInd, CountedFits
  <2> QED
    BY <2>5, <2>9, <2>10 DEF VersionsInd
<1>3. UNCHANGED <<files, raced>> \/ \E r \in Requests : CreateFile(r)
  BY DEF Next, vars, start, Answer, AnswerLost, Leave, stop, upload, TimeRefused, ChainLock,
         ChainLast, ChainAppend, CountVersions, RequestFails, Tick, ClockBack, Edit, Delete
<1> QED
  BY <1>1, <1>2, <1>3

\* The versions of a file name on a contract are 1, 2, 3 without a gap or a repetition, as
\* long as no two of its uploads overlapped between count and create
\* (workspace.routes.ts:268-286).
THEOREM VersionsAreNumbered == Spec => []VersionsCount
<1>1. Init => VersionsInd
  BY VersionsInit
<1>2. WorkspaceInd /\ VersionsInd /\ [Next]_vars => VersionsInd'
  BY VersionsStep DEF WorkspaceInd
<1>3. VersionsInd => VersionsCount
  BY DEF VersionsInd
<1> QED
  BY <1>1, <1>2, <1>3, WorkspaceInvariance, PTL DEF Spec

-----------------------------------------------------------------------------
(* Timers *)

Apart(a, b) == a[2] <= b[1] \/ b[2] <= a[1]

\* An interval of a tracker that is logged or still may be.
tracked(r, t) == request[r].op = "time" /\ request[r].by = t /\ request[r].step # "failed"

\* A tracker's intervals lie apart and end before a timer that runs was started, but for
\* the one that is being saved.
TimerFits(t) ==
  /\ \A r \in Requests : tracked(r, t) => request[r].item[2] <= now
  /\ tab[t].startedAt # NoTime =>
       \A r \in Requests : tracked(r, t) /\ r # tab[t].saving =>
         request[r].item[2] <= tab[t].startedAt
  /\ \A r, q \in Requests : r # q /\ tracked(r, t) /\ tracked(q, t) =>
       Apart(request[r].item, request[q].item)

\* A row that nobody touched is what its request said; a request makes one row.
RowsTell(c) ==
  /\ \A i \in DOMAIN log[c] : \A e : e = log[c][i] =>
       e.from = request[e.id].item[1] /\ e.to = request[e.id].item[2]
  /\ \A i, j \in DOMAIN log[c] : i # j => log[c][i].id # log[c][j].id

TimersInd ==
  /\ \A t \in Tabs \ unsure : TimerFits(t)
  /\ \A c \in Contracts \ touched : RowsTell(c)

\* Initially no time is logged.
LEMMA TimersInit == Init => TimersInd
<1> SUFFICES ASSUME Init PROVE TimersInd
  OBVIOUS
<1>1. \A t \in Tabs \ unsure : TimerFits(t)
  BY DEF Init, TimerFits, tracked, Unsent
<1>2. DOMAIN <<>> = {}
  BY EmptySeq
<1>3. \A c \in Contracts \ touched : RowsTell(c)
  BY <1>2 DEF Init, RowsTell
<1> QED
  BY <1>1, <1>3 DEF TimersInd

\* A request about time after a step: a stop button sent it, or it was there.
LEMMA TimeRequests ==
  ASSUME Base, [Next]_vars, NEW q \in Requests, request'[q].op = "time"
  PROVE  \/ \E t \in Tabs : stop(t, q)
         \/ /\ request[q].op = "time" /\ request'[q].by = request[q].by
            /\ request'[q].item = request[q].item
            /\ request[q].step = "failed" => request'[q].step = "failed"
<1> DEFINE Old == /\ request[q].op = "time" /\ request'[q].by = request[q].by
                  /\ request'[q].item = request[q].item
                  /\ request[q].step = "failed" => request'[q].step = "failed"
           Goal == (\E t \in Tabs : stop(t, q)) \/ Old
<1>1. CASE UNCHANGED request
  BY <1>1
<1>2. ASSUME NEW r \in Requests, NEW step, NEW seen, To(r, step) \/ ToWith(r, step, seen),
             request[r].step # "failed"
      PROVE  Goal
  BY <1>2, Moved, MovedWith DEF Base
<1>3. ASSUME NEW t \in Tabs, NEW r \in Requests, stop(t, r) PROVE Goal
  BY <1>3, StopStep
<1>4. ASSUME NEW u \in Users, NEW c \in Contracts, NEW n \in Names, NEW r \in Requests,
             upload(u, c, n, r)
      PROVE  Goal
  BY <1>4, UploadStep
<1>5. ASSUME NEW r \in Requests, ChainLast(r) PROVE Goal
  <2>1. PICK h : ToWith(r, "read", h) /\ request[r].step = "locked"
    BY <1>5 DEF ChainLast, At
  <2> QED
    BY <1>2, <2>1
<1>6. \/ UNCHANGED request
      \/ \E r \in Requests : ChainLast(r)
      \/ \E r \in Requests, step \in Steps : To(r, step) /\ request[r].step # "failed"
      \/ \E r \in Requests : CountVersions(r)
      \/ \E t \in Tabs, r \in Requests : stop(t, r)
      \/ \E u \in Users, c \in Contracts, n \in Names, r \in Requests : upload(u, c, n, r)
  BY DEF Next, vars, start, Answer, AnswerLost, Leave, TimeRefused, ChainLock, At,
         ChainAppend, CreateFile, RequestFails, Tick, ClockBack, Edit, Delete, Steps
<1>7. ASSUME NEW r \in Requests, CountVersions(r) PROVE Goal
  BY <1>2, <1>7 DEF CountVersions, At
<1>8. ASSUME NEW r \in Requests, NEW step \in Steps, To(r, step), request[r].step # "failed"
      PROVE  Goal
  BY <1>2, <1>8
<1>9. Goal
  BY <1>1, <1>3, <1>4, <1>5, <1>6, <1>7, <1>8
<1> QED
  BY <1>9

\* The clock goes on, but for a correction, which makes every tracker unsure.
LEMMA ClockGoesOn ==
  ASSUME Base, [Next]_vars, NEW t \in Tabs \ unsure'
  PROVE  t \notin unsure /\ now <= now' /\ now \in Nat
<1>1. now \in Nat /\ unsure \subseteq Tabs
  BY WorkspaceAssumption DEF Base, Bounds
<1>2. Tick \/ ClockBack \/ (UNCHANGED now /\ unsure \subseteq unsure')
  BY DEF Next, vars, start, Answer, AnswerLost, Leave, stop, upload, TimeRefused, ChainLock,
         ChainLast, ChainAppend, CountVersions, CreateFile, RequestFails, Edit, Delete
<1> QED
  BY <1>1, <1>2 DEF Tick, ClockBack

\* What a tracker's own step does to it.
LEMMA TabChanges ==
  ASSUME Base, [Next]_vars, NEW t \in Tabs \ unsure', \A r \in Requests : ~stop(t, r)
  PROVE  \/ tab'[t] = tab[t]
         \/ tab'[t].startedAt = now
         \/ tab'[t].startedAt = NoTime
         \/ /\ tab'[t].startedAt = tab[t].startedAt /\ UNCHANGED request
            /\ tab[t].saving \in Requests /\ request[tab[t].saving].step = "failed"
<1> DEFINE T == [startedAt : 0..MaxTime \union {NoTime}, saving : Requests \union {NoRequest}]
           none == [startedAt |-> NoTime, saving |-> NoRequest]
           Goal == \/ tab'[t] = tab[t]
                   \/ tab'[t].startedAt = now
                   \/ tab'[t].startedAt = NoTime
                   \/ /\ tab'[t].startedAt = tab[t].startedAt /\ UNCHANGED request
                      /\ tab[t].saving \in Requests /\ request[tab[t].saving].step = "failed"
<1>1. tab \in [Tabs -> T] /\ none \in T
  BY DEF Base, Shapes
<1>2. CASE UNCHANGED tab
  BY <1>2
<1>3. ASSUME NEW o \in Tabs, start(o) PROVE Goal
  BY <1>1, <1>3 DEF start
<1>4. ASSUME NEW o \in Tabs, Answer(o) PROVE Goal
  <2>1. CASE o # t
    BY <1>1, <1>4, <2>1 DEF Answer, saved
  <2>2. CASE o = t
    BY <1>1, <1>4, <2>2 DEF Answer, saved
  <2> QED
    BY <2>1, <2>2
<1>5. ASSUME NEW o \in Tabs, AnswerLost(o) PROVE Goal
  BY <1>1, <1>5 DEF AnswerLost
<1>6. ASSUME NEW o \in Tabs, Leave(o) PROVE Goal
  BY <1>1, <1>6 DEF Leave
<1>7. ASSUME NEW o \in Tabs, NEW r \in Requests, stop(o, r) PROVE Goal
  BY <1>1, <1>7 DEF stop
<1>8. UNCHANGED tab \/ (\E o \in Tabs : start(o) \/ Answer(o) \/ AnswerLost(o) \/ Leave(o))
        \/ (\E o \in Tabs, r \in Requests : stop(o, r))
  BY DEF Next, vars, upload, TimeRefused, ChainLock, ChainLast, ChainAppend, CountVersions,
         CreateFile, RequestFails, Tick, ClockBack, Edit, Delete
<1>9. Goal
  BY <1>2, <1>3, <1>4, <1>5, <1>6, <1>7, <1>8
<1> QED
  BY <1>9

\* Every step keeps what is said of the timer of a tab nobody is unsure about.
LEMMA TimerStep ==
  ASSUME Base, TimersInd, [Next]_vars, NEW t \in Tabs \ unsure'
  PROVE  TimerFits(t)'
<1>1. /\ t \notin unsure /\ now <= now' /\ now \in Nat /\ now' \in Nat
      /\ TimerFits(t) /\ Base'
  <2>1. Base'
    BY BaseStep
  <2> QED
    BY <2>1, ClockGoesOn, WorkspaceAssumption DEF TimersInd, Base, Bounds
<1>2. ASSUME NEW q \in Requests, tracked(q, t), NEW k \in {1, 2}
      PROVE  request[q].item[k] \in Nat
  BY <1>2, WorkspaceAssumption DEF Base, KindsFit, KindFits, tracked
<1>3. ASSUME NEW q \in Requests, tracked(q, t)'
      PROVE  \/ \E o \in Tabs : stop(o, q)
             \/ tracked(q, t) /\ request'[q].item = request[q].item
  BY <1>3, TimeRequests DEF tracked
<1>4. CASE \E r \in Requests : stop(t, r)
  <2>1. PICK r \in Requests : stop(t, r)
    BY <1>4
  <2>2. /\ tab[t].startedAt # NoTime /\ tab[t].saving = NoRequest
        /\ tab'[t].startedAt = tab[t].startedAt /\ tab'[t].saving = r
        /\ tab[t].startedAt \in Nat
    <3>1. tab[t] \in [startedAt : 0..MaxTime \union {NoTime}, saving : Requests \union {NoRequest}]
      BY DEF Base, Shapes
    <3> QED
      BY <2>1, <3>1, WorkspaceAssumption DEF stop, Base, Shapes
  <2>3. request'[r].item = <<tab[t].startedAt, now>>
    <3>1. request' = [request EXCEPT ![r] =
            [op |-> "time", step |-> "sent", contract |-> TabContract[t], by |-> t,
             item |-> <<tab[t].startedAt, now>>, seen |-> GENESIS]]
      BY <2>1 DEF stop
    <3> QED
      BY <3>1, Made DEF Base
  <2>4. ASSUME NEW q \in Requests \ {r}, tracked(q, t)'
        PROVE  /\ tracked(q, t) /\ request'[q].item = request[q].item
               /\ request[q].item[2] <= tab[t].startedAt
    <3>1. request'[q] = request[q]
      BY <2>1, StopStep
    <3>2. tracked(q, t)
      BY <2>4, <3>1 DEF tracked
    <3>3. q # tab[t].saving
      BY <2>2, WorkspaceAssumption
    <3> QED
      BY <1>1, <2>2, <3>1, <3>2, <3>3 DEF TimerFits
  <2>5. UNCHANGED now
    BY <2>1 DEF stop
  <2>6. \A q \in Requests : tracked(q, t)' => request'[q].item[2] <= now'
    BY <1>1, <2>3, <2>4, <2>5 DEF TimerFits
  <2>7. ASSUME NEW p \in Requests, NEW q \in Requests, p # q, tracked(p, t)', tracked(q, t)'
        PROVE  Apart(request'[p].item, request'[q].item)
    <3>1. CASE p = r
      BY <2>3, <2>4, <2>7, <3>1 DEF Apart
    <3>2. CASE q = r
      BY <2>3, <2>4, <2>7, <3>2 DEF Apart
    <3>3. CASE p # r /\ q # r
      BY <1>1, <2>4, <2>7, <3>3 DEF TimerFits
    <3> QED
      BY <3>1, <3>2, <3>3
  <2> QED
    BY <2>2, <2>4, <2>6, <2>7 DEF TimerFits
<1>5. CASE \A r \in Requests : ~stop(t, r)
  <2>1. ASSUME NEW q \in Requests, tracked(q, t)'
        PROVE  tracked(q, t) /\ request'[q].item = request[q].item
    <3>1. ASSUME NEW o \in Tabs, stop(o, q) PROVE FALSE
      <4>1. request' = [request EXCEPT ![q] =
              [op |-> "time", step |-> "sent", contract |-> TabContract[o], by |-> o,
               item |-> <<tab[o].startedAt, now>>, seen |-> GENESIS]]
        BY <3>1 DEF stop
      <4>2. request'[q].by = o
        BY <4>1, Made DEF Base
      <4> QED
        BY <1>5, <2>1, <3>1, <4>2 DEF tracked
    <3> QED
      BY <1>3, <2>1, <3>1
  <2>2. \A q \in Requests : tracked(q, t)' => request'[q].item[2] <= now'
    BY <1>1, <1>2, <2>1 DEF TimerFits
  <2>3. \A r, q \in Requests : r # q /\ tracked(r, t)' /\ tracked(q, t)' =>
          Apart(request'[r].item, request'[q].item)
    BY <1>1, <2>1 DEF TimerFits
  <2>4. tab'[t].startedAt # NoTime =>
          \A q \in Requests : tracked(q, t)' /\ q # tab'[t].saving =>
            request'[q].item[2] <= tab'[t].startedAt
    <3>1. CASE tab'[t] = tab[t]
      BY <1>1, <2>1, <3>1 DEF TimerFits
    <3>2. CASE tab'[t].startedAt = now
      BY <1>1, <2>1, <3>2 DEF TimerFits
    <3>3. CASE /\ tab'[t].startedAt = tab[t].startedAt /\ UNCHANGED request
               /\ tab[t].saving \in Requests /\ request[tab[t].saving].step = "failed"
      <4>1. \A q \in Requests : tracked(q, t) => q # tab[t].saving
        BY <3>3 DEF tracked
      <4> QED
        BY <1>1, <2>1, <3>3, <4>1 DEF TimerFits
    <3> QED
      BY <1>5, <3>1, <3>2, <3>3, TabChanges
  <2> QED
    BY <2>2, <2>3, <2>4 DEF TimerFits
<1> QED
  BY <1>4, <1>5

\* What may happen to the rows of a contract.
LEMMA LogChanges ==
  ASSUME Base, [Next]_vars, NEW c \in Contracts
  PROVE  \/ log'[c] = log[c]
         \/ \E r \in Requests : ChainAppend(r) /\ request[r].contract = c
         \/ \E i \in DOMAIN log[c] : Edit(c, i) \/ Delete(c, i)
<1> DEFINE Goal == \/ log'[c] = log[c]
                   \/ \E r \in Requests : ChainAppend(r) /\ request[r].contract = c
                   \/ \E i \in DOMAIN log[c] : Edit(c, i) \/ Delete(c, i)
<1>1. ASSUME NEW r \in Requests, ChainAppend(r) PROVE Goal
  <2>1. PICK e : log' = [log EXCEPT ![request[r].contract] = Append(@, e)]
    BY <1>1 DEF ChainAppend
  <2>2. request[r].contract \in Contracts
    BY <1>1 DEF ChainAppend, At, Base, KindsFit, KindFits
  <2> QED
    BY <1>1, <2>1, <2>2, LogAppended DEF Base
<1>2. ASSUME NEW d \in Contracts, NEW i \in DOMAIN log[d], Edit(d, i) PROVE Goal
  <2>1. log' = [log EXCEPT ![d][i].to = @ + 1]
    BY <1>2 DEF Edit
  <2>2. CASE d = c
    BY <1>2, <2>2
  <2>3. CASE d # c
    BY <2>1, <2>3, LogEdited DEF Base
  <2> QED
    BY <2>2, <2>3
<1>3. ASSUME NEW d \in Contracts, NEW i \in DOMAIN log[d], Delete(d, i) PROVE Goal
  <2>1. log' = [log EXCEPT ![d] = SubSeq(@, 1, i - 1) \o SubSeq(@, i + 1, Len(@))]
    BY <1>3 DEF Delete
  <2>2. CASE d = c
    BY <1>3, <2>2
  <2>3. CASE d # c
    BY <2>1, <2>3, LogDeleted DEF Base
  <2> QED
    BY <2>2, <2>3
<1>4. UNCHANGED log \/ (\E r \in Requests : ChainAppend(r))
        \/ (\E d \in Contracts : \E i \in DOMAIN log[d] : Edit(d, i) \/ Delete(d, i))
  BY DEF Next, vars, start, Answer, AnswerLost, Leave, stop, upload, TimeRefused, ChainLock,
         ChainLast, CountVersions, CreateFile, RequestFails, Tick, ClockBack
<1>5. Goal
  BY <1>1, <1>2, <1>3, <1>4
<1> QED
  BY <1>5

\* Every step keeps what is said of the rows of a log nobody has touched.
LEMMA RowsStep ==
  ASSUME Base, TimersInd, [Next]_vars, NEW c \in Contracts \ touched'
  PROVE  RowsTell(c)'
<1>0. Base'
  BY BaseStep
<1>1. c \in Contracts /\ c \notin touched /\ RowsTell(c)
  <2>1. touched \subseteq touched'
    BY DEF Next, vars, start, Answer, AnswerLost, Leave, stop, upload, TimeRefused, ChainLock,
           ChainLast, ChainAppend, CountVersions, CreateFile, RequestFails, Tick, ClockBack,
           Edit, Delete
  <2> QED
    BY <2>1 DEF TimersInd
<1>2. ASSUME NEW i \in DOMAIN log[c], NEW e, e = log[c][i]
      PROVE  request'[e.id].item = request[e.id].item
  <2>1. e.id \in Requests /\ request[e.id].op = "time" /\ request[e.id].step = "created"
    BY <1>1, <1>2 DEF Base, RowsFit, RowFits, At
  <2>2. request[e.id] # Unsent
    BY <2>1 DEF Unsent
  <2>3. ASSUME NEW t \in Tabs, NEW r \in Requests, stop(t, r) PROVE request'[e.id] = request[e.id]
    BY <2>1, <2>2, <2>3, StopStep DEF stop
  <2>4. ASSUME NEW u \in Users, NEW d \in Contracts, NEW n \in Names, NEW r \in Requests,
               upload(u, d, n, r)
        PROVE  request'[e.id] = request[e.id]
    BY <2>1, <2>2, <2>4, UploadStep DEF upload
  <2>5. ASSUME NEW r \in Requests, NEW step, NEW seen, To(r, step) \/ ToWith(r, step, seen)
        PROVE  request'[e.id].item = request[e.id].item
    BY <2>1, <2>5, Moved, MovedWith DEF Base
  <2>6. ASSUME NEW r \in Requests, ChainLast(r) \/ CountVersions(r)
        PROVE  request'[e.id].item = request[e.id].item
    BY <2>5, <2>6 DEF ChainLast, CountVersions
  <2>7. \/ UNCHANGED request
        \/ \E r \in Requests : ChainLast(r) \/ CountVersions(r)
        \/ \E r \in Requests, step \in Steps : To(r, step)
        \/ \E t \in Tabs, r \in Requests : stop(t, r)
        \/ \E u \in Users, d \in Contracts, n \in Names, r \in Requests : upload(u, d, n, r)
    BY DEF Next, vars, start, Answer, AnswerLost, Leave, TimeRefused, ChainLock,
           ChainAppend, CreateFile, RequestFails, Tick, ClockBack, Edit, Delete, Steps
  <2> QED
    BY <2>3, <2>4, <2>5, <2>6, <2>7
<1>3. CASE log'[c] = log[c]
  BY <1>1, <1>2, <1>3 DEF RowsTell
<1>4. ASSUME NEW r \in Requests, ChainAppend(r), request[r].contract = c
      PROVE  RowsTell(c)'
  <2>1. PICK e : e = Entry(r, c, request[r].seen)
    OBVIOUS
  <2>2. /\ e.id = r /\ e.from = request[r].item[1] /\ e.to = request[r].item[2]
        /\ log' = [log EXCEPT ![c] = Append(@, e)]
    BY <1>4, <2>1 DEF ChainAppend, Entry
  <2>3. request'[r].item = request[r].item
    BY <1>4, Moved DEF ChainAppend, Base
  <2>4. /\ Len(log[c]) \in Nat /\ DOMAIN log[c] = 1..Len(log[c])
        /\ DOMAIN log'[c] = 1..(Len(log[c]) + 1)
        /\ \A i \in 1..Len(log[c]) : log'[c][i] = log[c][i]
        /\ log'[c][Len(log[c]) + 1] = e
    BY <1>1, <2>2, LogAppended DEF Base
  <2>5. ASSUME NEW i \in DOMAIN log[c] PROVE log[c][i].id # r
    BY <1>1, <1>4 DEF ChainAppend, At, Base, RowsFit, RowFits
  <2>6. \A i \in DOMAIN log'[c] : i \in DOMAIN log[c] \/ i = Len(log[c]) + 1
    BY <2>4
  <2>7. \A i \in DOMAIN log'[c] : \A x : x = log'[c][i] =>
          x.from = request'[x.id].item[1] /\ x.to = request'[x.id].item[2]
    BY <1>1, <1>2, <2>2, <2>3, <2>4, <2>6 DEF RowsTell
  <2>8. \A i, j \in DOMAIN log'[c] : i # j => log'[c][i].id # log'[c][j].id
    BY <1>1, <2>2, <2>4, <2>5, <2>6 DEF RowsTell
  <2> QED
    BY <2>7, <2>8 DEF RowsTell
<1>5. ASSUME NEW i \in DOMAIN log[c], Edit(c, i) \/ Delete(c, i) PROVE FALSE
  BY <1>5 DEF Edit, Delete
<1> QED
  BY <1>1, <1>3, <1>4, <1>5, LogChanges

\* The timers and the rows being as they are, no time is logged twice.
LEMMA TimersImply == Base /\ TimersInd => NoTimeTwice
<1> SUFFICES ASSUME Base, TimersInd, NEW c \in Contracts \ touched,
                    NEW i \in DOMAIN log[c], NEW j \in DOMAIN log[c], i # j,
                    NEW t, t = request[log[c][i].id].by, request[log[c][j].id].by = t,
                    t \notin unsure
             PROVE  log[c][i].to <= log[c][j].from \/ log[c][j].to <= log[c][i].from
  BY DEF NoTimeTwice
<1>1. PICK d, e : d = log[c][i] /\ e = log[c][j]
  OBVIOUS
<1>2. /\ d.id \in Requests /\ e.id \in Requests
      /\ tracked(d.id, t) /\ tracked(e.id, t) /\ t \in Tabs
  BY <1>1 DEF Base, RowsFit, RowFits, KindsFit, KindFits, At, tracked
<1>3. d.id # e.id
  BY <1>1 DEF TimersInd, RowsTell
<1>4. Apart(request[d.id].item, request[e.id].item)
  BY <1>2, <1>3 DEF TimersInd, TimerFits
<1>5. /\ d.from = request[d.id].item[1] /\ d.to = request[d.id].item[2]
      /\ e.from = request[e.id].item[1] /\ e.to = request[e.id].item[2]
  BY <1>1 DEF TimersInd, RowsTell
<1> QED
  BY <1>1, <1>4, <1>5 DEF Apart

\* No moment of a timer is logged twice, however often its stop button is pressed, unless
\* an answer was lost on the way or the clock went back (time-tracker.tsx:38-55).
THEOREM TimeLoggedOnce == Spec => []NoTimeTwice
<1>1. Init => TimersInd
  BY TimersInit
<1>2. WorkspaceInd /\ TimersInd /\ [Next]_vars => TimersInd'
  BY TimerStep, RowsStep DEF WorkspaceInd, TimersInd
<1>3. WorkspaceInd /\ TimersInd => NoTimeTwice
  BY TimersImply DEF WorkspaceInd
<1> QED
  BY <1>1, <1>2, <1>3, WorkspaceInvariance, PTL DEF Spec

-----------------------------------------------------------------------------
(* The chain *)

\* A set of naturals that is not empty has a least element.
LEMMA LeastExists ==
  ASSUME NEW B, B \subseteq Nat, B # {}
  PROVE  \E m \in B : \A k \in B : m <= k
<1>1. \E m \in B : \A k \in B : <<k, m>> \notin OpToRel(<, Nat)
  BY WFMin, NatLessThanWellFounded
<1>2. PICK m \in B : \A k \in B : <<k, m>> \notin OpToRel(<, Nat)
  BY <1>1
<1>3. ASSUME NEW k \in B PROVE m <= k
  <2>1. ~(k < m)
    BY <1>2 DEF OpToRel
  <2> QED
    BY <2>1
<1> QED
  BY <1>3

\* How deep a hash is: one more than the hash it was made over.
Depths(d) ==
  /\ GENESIS \in DOMAIN d /\ d = [h \in DOMAIN d |-> d[h]] /\ d[GENESIS] = 0
  /\ \A h \in DOMAIN d : d[h] \in Nat
  /\ \A h \in DOMAIN d \ {GENESIS} : h[4] \in DOMAIN d /\ d[h] = d[h[4]] + 1

\* A row's hash tells what the row was when it was made; an edit only makes it longer.
HashFits(e, c, d) ==
  /\ e.hash \in DOMAIN d /\ e.hash # GENESIS
  /\ e.hash = entryHash(c, e.from, e.hash[3], e.prev)
  /\ e.hash[3] \in Nat /\ e.hash[3] <= e.to

Depth(c, d) == d[log[c][Len(log[c])].hash]

ChainOf(c, d) ==
  /\ Depths(d)
  /\ \A i \in DOMAIN log[c] : HashFits(log[c][i], c, d)
  /\ Len(log[c]) # 0 => Depth(c, d) >= Len(log[c])
  /\ c \notin touched => chainValid(c, log[c])
  /\ c \in touched =>
       /\ Len(log[c]) # 0
       /\ \/ Depth(c, d) > Len(log[c])
          \/ \E i \in DOMAIN log[c] : log[c][i].to > log[c][i].hash[3]

ChainsInd == \A c \in Contracts : clockMoved(c) => \E d : ChainOf(c, d)

\* The first previous hash is the hash of no row.
LEMMA GenesisIsNone == \A a, b, x, y : GENESIS # <<a, b, x, y>>
<1> SUFFICES ASSUME NEW a, NEW b, NEW x, NEW y, GENESIS = <<a, b, x, y>> PROVE FALSE
  OBVIOUS
<1>1. Len(<<a, b, x, y>>) = 4 /\ Len(GENESIS) = 0
  BY DEF GENESIS
<1> QED
  BY <1>1

\* Initially the logs are empty chains.
LEMMA ChainsInit == Init => ChainsInd
<1> SUFFICES ASSUME Init, NEW c \in Contracts PROVE \E d : ChainOf(c, d)
  BY DEF ChainsInd
<1>1. log[c] = <<>> /\ DOMAIN log[c] = {} /\ Len(log[c]) = 0 /\ c \notin touched
  BY EmptySeq DEF Init
<1>2. PICK d : d = [h \in {GENESIS} |-> 0]
  OBVIOUS
<1>3. Depths(d)
  BY <1>2 DEF Depths
<1>4. chainValid(c, log[c])
  BY <1>1 DEF chainValid
<1> QED
  BY <1>1, <1>3, <1>4 DEF ChainOf

\* A new row is one deeper than the row it continues.
LEMMA OneDeeper ==
  ASSUME NEW d, Depths(d), NEW c, NEW from, NEW to, NEW seen \in DOMAIN d, NEW h,
         h = entryHash(c, from, to, seen)
  PROVE  \E x : /\ Depths(x) /\ DOMAIN d \subseteq DOMAIN x /\ h \in DOMAIN x
                /\ \A g \in DOMAIN d : x[g] = d[g]
                /\ x[h] = d[seen] + 1
<1>1. h # GENESIS /\ h[4] = seen
  BY GenesisIsNone DEF entryHash
<1>2. CASE h \in DOMAIN d
  <2>1. d[h] = d[seen] + 1
    BY <1>1, <1>2 DEF Depths
  <2> QED
    BY <1>2, <2>1
<1>3. CASE h \notin DOMAIN d
  <2>1. PICK x : x = [g \in DOMAIN d \union {h} |-> IF g = h THEN d[seen] + 1 ELSE d[g]]
    OBVIOUS
  <2>2. /\ DOMAIN x = DOMAIN d \union {h} /\ x[h] = d[seen] + 1
        /\ \A g \in DOMAIN d : x[g] = d[g]
    BY <1>3, <2>1
  <2>3. x = [g \in DOMAIN x |-> x[g]]
    BY <2>1
  <2>4. \A g \in DOMAIN x : x[g] \in Nat
    BY <2>2 DEF Depths
  <2>5. GENESIS \in DOMAIN x /\ x[GENESIS] = 0
    BY <2>2 DEF Depths
  <2>6. \A g \in DOMAIN x \ {GENESIS} : g[4] \in DOMAIN x /\ x[g] = x[g[4]] + 1
    BY <1>1, <2>2 DEF Depths
  <2>7. Depths(x)
    BY <2>3, <2>4, <2>5, <2>6 DEF Depths
  <2> QED
    BY <2>2, <2>7
<1> QED
  BY <1>2, <1>3

\* A new row makes its log a longer chain.
LEMMA AppendChain ==
  ASSUME Base, SeenIsLast, NEW c \in Contracts, clockMoved(c), NEW d, ChainOf(c, d),
         NEW r \in Requests, ChainAppend(r), request[r].contract = c,
         c \in touched' <=> c \in touched
  PROVE  \E x : ChainOf(c, x)'
<1>1. PICK e : e = Entry(r, c, request[r].seen)
  OBVIOUS
<1>2. PICK n : n = Len(log[c])
  OBVIOUS
<1>3. PICK seen : seen = request[r].seen
  OBVIOUS
<1>4. /\ n \in Nat /\ DOMAIN log[c] = 1..n /\ (log[c] = <<>> <=> n = 0)
      /\ Len(log'[c]) = n + 1 /\ DOMAIN log'[c] = 1..(n + 1)
      /\ \A i \in 1..n : log'[c][i] = log[c][i]
      /\ log'[c][n + 1] = e
  <2>1. log' = [log EXCEPT ![c] = Append(@, e)]
    BY <1>1 DEF ChainAppend
  <2> QED
    BY <1>2, <2>1, LogAppended, SequenceFacts DEF Base
<1>5. /\ e.from = request[r].item[1] /\ e.to = request[r].item[2] /\ e.prev = seen
      /\ e.hash = entryHash(c, e.from, e.to, seen)
  BY <1>1, <1>3 DEF Entry
<1>6. e.to \in Nat
  BY <1>5, WorkspaceAssumption DEF ChainAppend, At, Base, KindsFit, KindFits
<1>7. seen = IF n = 0 THEN GENESIS ELSE log[c][n].hash
  BY <1>2, <1>3, <1>4 DEF SeenIsLast, ChainAppend, lastHash
<1>8. seen \in DOMAIN d
  BY <1>4, <1>7 DEF ChainOf, Depths, HashFits
<1>9. d[seen] \in Nat /\ d[seen] >= n /\ (n # 0 => d[seen] = Depth(c, d))
  BY <1>2, <1>4, <1>7, <1>8 DEF ChainOf, Depths, Depth
<1>10. PICK x : /\ Depths(x) /\ DOMAIN d \subseteq DOMAIN x /\ e.hash \in DOMAIN x
                /\ \A g \in DOMAIN d : x[g] = d[g]
                /\ x[e.hash] = d[seen] + 1
  <2>1. Depths(d)
    BY DEF ChainOf
  <2> QED
    BY <1>5, <1>8, <2>1, OneDeeper
<1>11. \A i \in DOMAIN log'[c] : i \in 1..n \/ i = n + 1
  BY <1>4
<1>12. \A i \in DOMAIN log'[c] : HashFits(log'[c][i], c, x)
  <2>1. HashFits(e, c, x)
    BY <1>5, <1>6, <1>10, GenesisIsNone DEF HashFits, entryHash
  <2>2. ASSUME NEW i \in 1..n PROVE HashFits(log[c][i], c, x)
    BY <1>4, <1>10 DEF ChainOf, HashFits
  <2> QED
    BY <1>4, <1>11, <2>1, <2>2
<1>13. x[log'[c][n + 1].hash] >= n + 1
  BY <1>4, <1>9, <1>10
<1>14. ASSUME c \notin touched PROVE chainValid(c, log'[c])
  <2>1. chainValid(c, log[c])
    BY <1>14 DEF ChainOf
  <2>2. ASSUME NEW i \in 1..n
        PROVE  LET prev == IF i = 1 THEN GENESIS ELSE log'[c][i - 1].hash
               IN log'[c][i].prev = prev
                    /\ log'[c][i].hash = entryHash(c, log'[c][i].from, log'[c][i].to, prev)
    <3>1. i = 1 \/ i - 1 \in 1..n
      BY <1>4
    <3>2. i # 1 => log'[c][i - 1] = log[c][i - 1]
      BY <1>4, <3>1
    <3> QED
      BY <1>4, <2>1, <3>2 DEF chainValid
  <2>3. LET prev == IF n + 1 = 1 THEN GENESIS ELSE log'[c][(n + 1) - 1].hash
        IN log'[c][n + 1].prev = prev
             /\ log'[c][n + 1].hash =
                  entryHash(c, log'[c][n + 1].from, log'[c][n + 1].to, prev)
    <3>1. (n + 1) - 1 = n /\ (n + 1 = 1 <=> n = 0)
      BY <1>4
    <3>2. n # 0 => n \in 1..n
      BY <1>4
    <3> QED
      BY <1>4, <1>5, <1>7, <3>1, <3>2
  <2> QED
    BY <1>11, <2>2, <2>3 DEF chainValid
<1>15. ASSUME c \in touched
       PROVE  \/ x[log'[c][n + 1].hash] > n + 1
              \/ \E i \in DOMAIN log'[c] : log'[c][i].to > log'[c][i].hash[3]
  <2>1. n # 0
    BY <1>2, <1>15 DEF ChainOf
  <2>2. CASE Depth(c, d) > n
    BY <1>4, <1>9, <1>10, <2>1, <2>2
  <2>3. CASE \E i \in DOMAIN log[c] : log[c][i].to > log[c][i].hash[3]
    BY <1>4, <2>3
  <2> QED
    BY <1>2, <1>15, <2>2, <2>3 DEF ChainOf
<1> QED
  BY <1>4, <1>10, <1>12, <1>13, <1>14, <1>15 DEF ChainOf, Depth

\* An edit leaves the hashes and so the chain.
LEMMA EditChain ==
  ASSUME Base, NEW c \in Contracts, NEW d, ChainOf(c, d),
         NEW i \in DOMAIN log[c], Edit(c, i)
  PROVE  ChainOf(c, d)'
<1>1. /\ Len(log[c]) \in Nat /\ Len(log'[c]) = Len(log[c]) /\ DOMAIN log'[c] = DOMAIN log[c]
      /\ DOMAIN log[c] = 1..Len(log[c])
      /\ \A j \in DOMAIN log[c] \ {i} : log'[c][j] = log[c][j]
      /\ log'[c][i].to = log[c][i].to + 1
      /\ log'[c][i].from = log[c][i].from
      /\ log'[c][i].prev = log[c][i].prev /\ log'[c][i].hash = log[c][i].hash
  BY LogEdited DEF Base, Edit
<1>2. log[c][i].to \in Nat
  BY DEF Base, RowsFit, RowFits
<1>3. \A j \in DOMAIN log'[c] : HashFits(log'[c][j], c, d)
  <2>1. HashFits(log'[c][i], c, d)
    BY <1>1, <1>2 DEF ChainOf, HashFits
  <2> QED
    BY <1>1, <2>1 DEF ChainOf
<1>4. Depth(c, d)' = Depth(c, d) /\ Len(log[c]) # 0
  <2>1. Len(log[c]) # 0
    BY <1>1
  <2>2. Len(log[c]) \in DOMAIN log[c]
    BY <1>1, <2>1
  <2>3. log'[c][Len(log[c])].hash = log[c][Len(log[c])].hash
    BY <1>1, <2>2
  <2> QED
    BY <1>1, <2>1, <2>3 DEF Depth
<1>5. log'[c][i].to > log'[c][i].hash[3]
  BY <1>1, <1>2 DEF ChainOf, HashFits
<1>6. c \in touched'
  BY DEF Edit
<1> QED
  BY <1>1, <1>3, <1>4, <1>5, <1>6 DEF ChainOf

\* A deletion takes its row out of the chain that was written.
LEMMA DeleteChain ==
  ASSUME Base, NEW c \in Contracts, NEW d, ChainOf(c, d),
         NEW i \in DOMAIN log[c], Delete(c, i)
  PROVE  ChainOf(c, d)'
<1>1. /\ Len(log[c]) \in Nat /\ Len(log'[c]) = Len(log[c]) - 1
      /\ DOMAIN log[c] = 1..Len(log[c]) /\ DOMAIN log'[c] = 1..(Len(log[c]) - 1)
      /\ \A j \in 1..(Len(log[c]) - 1) : log'[c][j] = log[c][IF j < i THEN j ELSE j + 1]
      /\ i < Len(log[c]) /\ c \in touched'
  BY LogDeleted DEF Base, Delete
<1>2. \A j \in DOMAIN log'[c] : HashFits(log'[c][j], c, d)
  <2> SUFFICES ASSUME NEW j \in 1..(Len(log[c]) - 1) PROVE HashFits(log'[c][j], c, d)
    BY <1>1
  <2>1. PICK k : k = IF j < i THEN j ELSE j + 1
    OBVIOUS
  <2>2. log'[c][j] = log[c][k] /\ Len(log[c]) \in Nat
    BY <1>1, <2>1
  <2>3. k \in 1..Len(log[c])
    BY <2>1, <2>2
  <2> QED
    BY <1>1, <2>2, <2>3 DEF ChainOf
<1>3. Len(log'[c]) # 0 /\ Len(log'[c]) \in 1..(Len(log[c]) - 1)
        /\ Len(log'[c]) + 1 = Len(log[c]) /\ ~(Len(log'[c]) < i)
  <2>1. Len(log[c]) \in Nat /\ Len(log'[c]) = Len(log[c]) - 1 /\ i < Len(log[c])
          /\ i \in 1..Len(log[c])
    BY <1>1
  <2>2. PICK k, m : k = Len(log[c]) /\ m = Len(log'[c])
    OBVIOUS
  <2>3. k \in Nat /\ m = k - 1 /\ i < k /\ i \in 1..k
    BY <2>1, <2>2
  <2>4. m # 0 /\ m \in 1..(k - 1) /\ m + 1 = k /\ ~(m < i)
    BY <2>3
  <2> QED
    BY <2>2, <2>4
<1>4. Depth(c, d)' = Depth(c, d)
  BY <1>1, <1>3 DEF Depth
<1>5. Depth(c, d) >= Len(log[c]) /\ Depth(c, d) \in Nat
  <2>1. Len(log[c]) \in DOMAIN log[c] /\ Len(log[c]) # 0
    BY <1>1, <1>3
  <2>2. HashFits(log[c][Len(log[c])], c, d) /\ Depths(d) /\ Depth(c, d) >= Len(log[c])
    BY <2>1 DEF ChainOf
  <2> QED
    BY <2>2 DEF Depth, HashFits, Depths
<1>6. Depth(c, d) > Len(log'[c]) /\ Depth(c, d) >= Len(log'[c])
  BY <1>1, <1>3, <1>5
<1> QED
  BY <1>1, <1>2, <1>3, <1>4, <1>6 DEF ChainOf

\* Every step keeps every log part of the chain that was written.
LEMMA ChainsStep == Base /\ SeenIsLast /\ ChainsInd /\ [Next]_vars => ChainsInd'
<1> SUFFICES ASSUME Base, SeenIsLast, ChainsInd, [Next]_vars,
                    NEW c \in Contracts, clockMoved(c)'
             PROVE  \E x : ChainOf(c, x)'
  BY DEF ChainsInd
<1>1. clockMoved(c)
  BY ClockStays
<1>2. PICK d : ChainOf(c, d)
  BY <1>1 DEF ChainsInd
<1>3. CASE \E i \in DOMAIN log[c] : Edit(c, i) \/ Delete(c, i)
  BY <1>2, <1>3, EditChain, DeleteChain
<1>4. CASE ~\E i \in DOMAIN log[c] : Edit(c, i) \/ Delete(c, i)
  <2>1. c \in touched' <=> c \in touched
    BY <1>4 DEF Next, vars, start, Answer, AnswerLost, Leave, stop, upload, TimeRefused, ChainLock,
           ChainLast, ChainAppend, CountVersions, CreateFile, RequestFails, Tick, ClockBack,
           Edit, Delete
  <2>2. CASE \E r \in Requests : ChainAppend(r) /\ request[r].contract = c
    BY <1>1, <1>2, <2>1, <2>2, AppendChain
  <2>3. CASE log'[c] = log[c]
    BY <1>2, <2>1, <2>3 DEF ChainOf, Depth
  <2> QED
    BY <1>4, <2>2, <2>3, LogChanges
<1> QED
  BY <1>3, <1>4

\* While the clock moved between any two entries, GET reads them in the one order.
LEMMA OneReading ==
  ASSUME Base, NEW c \in Contracts, clockMoved(c), NEW s \in readings(c)
  PROVE  s = log[c]
<1>1. PICK n : n = Len(log[c])
  OBVIOUS
<1>2. n \in Nat /\ DOMAIN log[c] = 1..n
  BY <1>1, SequenceFacts
<1>3. PICK p \in [1..n -> 1..n] :
        /\ s = [i \in 1..n |-> log[c][p[i]]]
        /\ \A i, j \in 1..n : p[i] = p[j] => i = j
        /\ \A i, j \in 1..n : i < j => log[c][p[i]].createdAt <= log[c][p[j]].createdAt
  BY <1>1 DEF readings
<1>4. \A i \in 1..n : log[c][i].createdAt \in Nat
  <2> SUFFICES ASSUME NEW i \in 1..n PROVE log[c][i].createdAt \in Nat
    OBVIOUS
  <2>1. PICK e : e = log[c][i]
    OBVIOUS
  <2>2. RowFits(e, c)
    BY <1>2, <2>1 DEF Base, RowsFit
  <2>3. e.createdAt \in 0..MaxTime
    BY <2>2 DEF RowFits
  <2> QED
    BY <2>1, <2>3
<1>5. ASSUME NEW i \in 1..n, NEW j \in 1..n, i < j PROVE p[i] < p[j]
  <2>1. p[i] \in 1..n /\ p[j] \in 1..n /\ p[i] # p[j]
    BY <1>2, <1>3, <1>5
  <2>2. log[c][p[i]].createdAt <= log[c][p[j]].createdAt
    BY <1>3, <1>5
  <2>3. ~(p[j] < p[i])
    <3>1. p[j] < p[i] => log[c][p[j]].createdAt < log[c][p[i]].createdAt
      BY <1>2, <2>1 DEF clockMoved
    <3> QED
      BY <1>4, <2>1, <2>2, <3>1
  <2> QED
    BY <1>2, <2>1, <2>3
<1>6. \A i \in 1..n : p[i] >= i
  <2> SUFFICES ASSUME NEW i \in 1..n, p[i] < i PROVE FALSE
    BY <1>2, <1>3
  <2> DEFINE B == {k \in 1..n : p[k] < k}
  <2>0. B \subseteq Nat /\ i \in B
    BY <1>2
  <2>1. PICK m \in B : \A k \in B : m <= k
    BY <2>0, LeastExists
  <2>2. m \in 1..n /\ p[m] < m /\ p[m] \in 1..n
    BY <1>3, <2>1
  <2>3. p[p[m]] < p[m]
    BY <1>5, <2>2
  <2>4. p[m] \in B
    BY <2>2, <2>3
  <2> QED
    BY <1>2, <2>1, <2>2, <2>4
<1>7. \A i \in 1..n : p[i] <= i
  <2> SUFFICES ASSUME NEW i \in 1..n, p[i] > i PROVE FALSE
    BY <1>2, <1>3
  <2> DEFINE B == {k \in Nat : k \in 1..n /\ p[n + 1 - k] > n + 1 - k}
  <2>1. n + 1 - i \in 1..n /\ n + 1 - (n + 1 - i) = i
    BY <1>2
  <2>2. n + 1 - i \in B
    BY <1>2, <2>1
  <2>3. PICK m \in B : \A k \in B : m <= k
    BY <2>2, LeastExists
  <2>4. PICK j : j = n + 1 - m
    OBVIOUS
  <2>5. m \in Nat /\ m \in 1..n /\ p[j] > j /\ j \in 1..n /\ p[j] \in 1..n
    BY <1>2, <1>3, <2>3, <2>4
  <2>6. PICK q : q = p[j]
    OBVIOUS
  <2>7. q \in 1..n /\ q > j /\ p[q] > q
    BY <1>2, <1>5, <2>5, <2>6
  <2>8. n + 1 - q \in 1..n /\ n + 1 - (n + 1 - q) = q
    BY <1>2, <2>7
  <2>9. n + 1 - q \in B
    BY <1>2, <2>7, <2>8
  <2>10. n + 1 - q < m
    BY <1>2, <2>4, <2>5, <2>7
  <2> HIDE DEF B
  <2> QED
    BY <1>2, <2>3, <2>5, <2>8, <2>9, <2>10
<1>8. \A i \in 1..n : p[i] = i
  BY <1>2, <1>3, <1>6, <1>7
<1>9. log[c] = [i \in 1..n |-> log[c][i]]
  <2>1. PICK S : log[c] \in Seq(S)
    BY DEF Base, Shapes, IsSequence
  <2>2. log[c] \in [1..n -> S]
    BY <1>1, <2>1, LenProperties
  <2> QED
    BY <2>2
<1> QED
  BY <1>3, <1>8, <1>9

\* A chain that verifies is as long as its last hash is deep.
LEMMA ValidDepth ==
  ASSUME Base, NEW c \in Contracts, NEW d, ChainOf(c, d), chainValid(c, log[c]),
         Len(log[c]) # 0
  PROVE  Depth(c, d) = Len(log[c])
<1>1. PICK n : n = Len(log[c])
  OBVIOUS
<1>2. n \in Nat /\ n # 0 /\ DOMAIN log[c] = 1..n
  BY <1>1, SequenceFacts
<1>3. ASSUME NEW i \in 1..n
      PROVE  /\ log[c][i].hash \in DOMAIN d
             /\ d[log[c][i].hash] = d[log[c][i].prev] + 1
             /\ log[c][i].prev = IF i = 1 THEN GENESIS ELSE log[c][i - 1].hash
  <2>1. HashFits(log[c][i], c, d) /\ Depths(d)
    BY <1>2 DEF ChainOf
  <2>2. log[c][i].hash[4] = log[c][i].prev
    BY <2>1 DEF HashFits, entryHash
  <2>3. log[c][i].prev = IF i = 1 THEN GENESIS ELSE log[c][i - 1].hash
    BY <1>2 DEF chainValid
  <2> QED
    BY <2>1, <2>2, <2>3 DEF HashFits, Depths
<1>4. \A i \in 1..n : d[log[c][i].hash] = i
  <2> SUFFICES ASSUME NEW i \in 1..n, d[log[c][i].hash] # i PROVE FALSE
    OBVIOUS
  <2> DEFINE B == {k \in 1..n : d[log[c][k].hash] # k}
  <2>1. B \subseteq Nat /\ i \in B
    BY <1>2
  <2>2. PICK m \in B : \A k \in B : m <= k
    BY <2>1, LeastExists
  <2>3. m \in 1..n /\ m \in Nat /\ d[log[c][m].hash] # m
    BY <2>1, <2>2
  <2>4. CASE m = 1
    <3>1. d[GENESIS] = 0
      BY DEF ChainOf, Depths
    <3> QED
      BY <1>3, <2>3, <2>4, <3>1
  <2>5. CASE m # 1
    <3>1. m - 1 \in 1..n /\ m - 1 < m
      BY <1>2, <2>3, <2>5
    <3>2. m - 1 \notin B
      BY <2>2, <3>1
    <3>3. d[log[c][m - 1].hash] = m - 1
      BY <3>1, <3>2
    <3>4. d[log[c][m].hash] = d[log[c][m - 1].hash] + 1
      BY <1>3, <2>3, <2>5
    <3> QED
      BY <2>3, <3>3, <3>4
  <2> QED
    BY <2>4, <2>5
<1> QED
  BY <1>1, <1>2, <1>4 DEF Depth

\* The log being what is left of one chain, its check tells the truth.
LEMMA ChainsImply == Base /\ ChainsInd => ChainTellsTheTruth
<1> SUFFICES ASSUME Base, ChainsInd, NEW c \in Contracts, clockMoved(c), NEW s \in readings(c)
             PROVE  chainValid(c, s) <=> c \notin touched
  BY DEF ChainTellsTheTruth
<1>1. s = log[c]
  BY OneReading
<1>2. PICK d : ChainOf(c, d)
  BY DEF ChainsInd
<1>3. CASE c \notin touched
  BY <1>1, <1>2, <1>3 DEF ChainOf
<1>4. ASSUME c \in touched, chainValid(c, log[c]) PROVE FALSE
  <2>1. Len(log[c]) # 0
    BY <1>2, <1>4 DEF ChainOf
  <2>2. Depth(c, d) = Len(log[c]) /\ Len(log[c]) \in Nat
    BY <1>2, <1>4, <2>1, ValidDepth, SequenceFacts
  <2>3. PICK i \in DOMAIN log[c] : log[c][i].to > log[c][i].hash[3]
    BY <1>2, <1>4, <2>2 DEF ChainOf
  <2>4. log[c][i].hash[3] = log[c][i].to
    BY <1>4 DEF chainValid, entryHash
  <2>5. log[c][i].to \in Nat
    BY DEF Base, RowsFit, RowFits
  <2> QED
    BY <2>3, <2>4, <2>5
<1> QED
  BY <1>1, <1>3, <1>4

\* A chain nobody touched verifies whichever way GET reads it, and one with an edited row,
\* or without a row that others follow, never verifies again, whatever is appended later;
\* as long as no two entries were created in one millisecond (workspace.routes.ts:124-148).
THEOREM ChainIsEvidence == Spec => []ChainTellsTheTruth
<1>1. Init => ChainsInd
  BY ChainsInit
<1>2. WorkspaceInd /\ ChainsInd /\ [Next]_vars => ChainsInd'
  BY ChainsStep DEF WorkspaceInd
<1>3. WorkspaceInd /\ ChainsInd => ChainTellsTheTruth
  BY ChainsImply DEF WorkspaceInd
<1> QED
  BY <1>1, <1>2, <1>3, WorkspaceInvariance, PTL DEF Spec

=============================================================================
