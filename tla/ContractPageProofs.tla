-------------------------- MODULE ContractPageProofs --------------------------
(***************************************************************************)
(* The contract page for any number of changes, messages, failures and     *)
(* visits.  A query is covered while the page has heard everything since    *)
(* its answer was read: then what the answer lacks is told by an event that *)
(* is still on its way, and when nothing is on its way, it lacks nothing.   *)
(***************************************************************************)
EXTENDS ContractPage, FiniteSetTheorems, SequenceTheorems, TLAPS

-----------------------------------------------------------------------------
(* Shapes *)

States == {mv.from : mv \in MOVES} \union {mv.to : mv \in MOVES}

ContractData == [rev : Nat, state : States]

Query(D) ==
  [data : D \union {NoData}, got : D \union {NoData}, stale : BOOLEAN,
   fetch : {"idle", "sent", "back"}]

Events == [event : {"milestone:update", "chat:message"}, id : Nat]

Shapes ==
  /\ cache = [key \in Keys |-> cache[key]]
  /\ cache["contract"] \in Query(ContractData) /\ cache["messages"] \in Query(Seq(Nat))
  /\ sock \in [status : {"none", "connecting", "connected", "refused"},
               joining : BOOLEAN, joined : BOOLEAN, listening : BOOLEAN]
  /\ inbox \in Seq(Events) /\ unsent \subseteq Events
  /\ seat \in Seats /\ state \in States /\ rev \in Nat /\ posted \in Nat
  /\ open \in BOOLEAN /\ chatOpen \in BOOLEAN
  /\ covered \subseteq Keys

\* The socket is in the room and heard only while it is connected and the page is there;
\* only a page that hears is covered.
Hears ==
  /\ sock.joined \/ sock.joining => sock.status = "connected"
  /\ sock.listening => open
  /\ covered # {} => hears

\* Events tell of what was committed.
pending == Range(inbox) \union unsent

EventsFit == \A e \in pending : isChat(e) => e.id \in 1..posted

AnswersFit ==
  /\ cache["contract"].fetch = "back" =>
       cache["contract"].got \in ContractData /\ cache["contract"].got.rev <= rev
  /\ cache["messages"].fetch = "back" => cache["messages"].got \in Seq(Nat)

PageBase == Shapes /\ Hears /\ EventsFit /\ AnswersFit

\* What an answer lacks, an event on its way tells.
ContractInd ==
  "contract" \in covered =>
    /\ cache["contract"].fetch = "back" =>
         \/ cache["contract"].got = onServer("contract")
         \/ \E e \in pending : ~isChat(e) /\ e.id > cache["contract"].got.rev
    /\ cache["contract"].fetch = "idle" =>
         \/ cache["contract"].data = onServer("contract")
         \/ \E e \in pending : ~isChat(e)

\* The list has no message twice, and what it lacks of the first n is told.
Complete(list, n, told) ==
  /\ list \in Seq(Nat) /\ Range(list) \subseteq 1..n
  /\ \A i, j \in DOMAIN list : list[i] = list[j] => i = j
  /\ \A id \in 1..n : id \in Range(list) \/ ChatMessage(id) \in told

MessagesInd ==
  "messages" \in covered /\ posted <= Take =>
    /\ cache["messages"].fetch = "back" => Complete(cache["messages"].got, posted, pending)
    /\ cache["messages"].fetch = "idle" => Complete(cache["messages"].data, posted, pending)

PageInd == PageBase /\ ContractInd /\ MessagesInd

-----------------------------------------------------------------------------
(* Events *)

\* What is in a sequence to which an element is added.
LEMMA RangeOfAppend ==
  ASSUME NEW S, NEW s \in Seq(S), NEW e \in S
  PROVE  Append(s, e) \in Seq(S) /\ Range(Append(s, e)) = Range(s) \union {e}
<1>1. /\ Append(s, e) \in Seq(S) /\ Len(s) \in Nat
      /\ Len(Append(s, e)) = Len(s) + 1
      /\ \A i \in 1..Len(s) : Append(s, e)[i] = s[i]
      /\ Append(s, e)[Len(s) + 1] = e
  BY LenProperties
<1>2. DOMAIN s = 1..Len(s) /\ DOMAIN Append(s, e) = 1..(Len(s) + 1)
  BY <1>1, LenProperties
<1>3. \A i \in 1..(Len(s) + 1) : i \in 1..Len(s) \/ i = Len(s) + 1
  BY <1>1
<1>4. 1..Len(s) \subseteq 1..(Len(s) + 1) /\ Len(s) + 1 \in 1..(Len(s) + 1)
  BY <1>1
<1> QED
  BY <1>1, <1>2, <1>3, <1>4 DEF Range

\* What is in a sequence beside its first element.
LEMMA RangeOfTail ==
  ASSUME NEW S, NEW s \in Seq(S), s # <<>>
  PROVE  /\ Tail(s) \in Seq(S) /\ Head(s) \in S /\ Head(s) \in Range(s)
         /\ Range(s) = Range(Tail(s)) \union {Head(s)}
<1>1. /\ Tail(s) \in Seq(S) /\ Head(s) \in S /\ Len(s) \in Nat \ {0}
      /\ Len(Tail(s)) = Len(s) - 1 /\ \A i \in 1..Len(Tail(s)) : Tail(s)[i] = s[i + 1]
  BY HeadTailProperties, EmptySeq
<1>2. DOMAIN s = 1..Len(s) /\ DOMAIN Tail(s) = 1..(Len(s) - 1) /\ Head(s) = s[1]
  BY <1>1, LenProperties
<1>3. ASSUME NEW i \in 1..Len(s) PROVE s[i] \in Range(Tail(s)) \union {Head(s)}
  <2>1. CASE i = 1
    BY <1>2, <2>1
  <2>2. CASE i # 1
    <3>1. i - 1 \in 1..(Len(s) - 1) /\ (i - 1) + 1 = i
      BY <1>1, <2>2
    <3>2. Tail(s)[i - 1] = s[i]
      BY <1>1, <3>1
    <3> QED
      BY <1>2, <3>1, <3>2 DEF Range
  <2> QED
    BY <2>1, <2>2
<1>4. \A i \in 1..(Len(s) - 1) : i + 1 \in 1..Len(s) /\ Tail(s)[i] = s[i + 1]
  BY <1>1
<1>5. 1 \in DOMAIN s
  BY <1>1, <1>2
<1> QED
  BY <1>1, <1>2, <1>3, <1>4, <1>5 DEF Range

\* Nothing is in the empty sequence.
LEMMA RangeOfEmpty == Range(<<>>) = {}
BY EmptySeq DEF Range

\* What one entry of the cache becomes, the other stays.
LEMMA CacheEntry ==
  ASSUME Shapes, NEW key \in Keys, NEW q, cache' = [cache EXCEPT ![key] = q],
         q \in Query(IF key = "contract" THEN ContractData ELSE Seq(Nat))
  PROVE  /\ cache' = [k \in Keys |-> cache'[k]] /\ cache'[key] = q
         /\ \A k \in Keys \ {key} : cache'[k] = cache[k]
         /\ cache'["contract"] \in Query(ContractData)
         /\ cache'["messages"] \in Query(Seq(Nat))
BY DEF Shapes, Keys

\* Moves are from states to states.
LEMMA MovesFit ==
  /\ \A mv \in MOVES : mv.from \in States /\ mv.to \in States
BY DEF States

\* What the server answers for each of the two queries.
LEMMA ServerFits ==
  ASSUME Shapes
  PROVE  /\ onServer("contract") = [rev |-> rev, state |-> state]
         /\ onServer("contract") \in ContractData
         /\ onServer("messages") =
              [i \in 1..(IF posted < Take THEN posted ELSE Take) |-> i]
         /\ onServer("messages") \in Seq(Nat)
<1>1. onServer("contract") = [rev |-> rev, state |-> state]
  BY DEF onServer
<1>2. onServer("contract") \in ContractData
  BY <1>1 DEF Shapes, ContractData
<1>3. PICK n : n = IF posted < Take THEN posted ELSE Take
  OBVIOUS
<1>4. onServer("messages") = [i \in 1..n |-> i]
  BY <1>3 DEF onServer
<1>5. n \in Nat
  BY <1>3, ContractPageAssumption DEF Shapes
<1>6. [i \in 1..n |-> i] \in Seq(Nat)
  BY <1>5
<1> QED
  BY <1>1, <1>2, <1>3, <1>4, <1>6

-----------------------------------------------------------------------------
(* The base holds initially and is kept *)

\* The shapes hold initially.
LEMMA BaseInit == Init => PageBase
<1> SUFFICES ASSUME Init PROVE PageBase
  OBVIOUS
<1>1. inbox = <<>> /\ unsent = {} /\ inbox \in Seq(Events) /\ covered = {}
  BY EmptySeq DEF Init
<1>2. /\ cache["contract"] \in Query(ContractData) /\ cache["messages"] \in Query(Seq(Nat))
      /\ cache = [key \in Keys |-> cache[key]]
      /\ cache["contract"].fetch = "idle" /\ cache["messages"].fetch = "idle"
  BY DEF Init, Query, Keys
<1>3. /\ sock \in [status : {"none", "connecting", "connected", "refused"},
                   joining : BOOLEAN, joined : BOOLEAN, listening : BOOLEAN]
      /\ ~sock.joined /\ ~sock.joining /\ ~sock.listening
  BY DEF Init, NoSocket
<1>4. Shapes
  BY <1>1, <1>2, <1>3 DEF Init, Shapes, States
<1>5. pending = {}
  BY <1>1, RangeOfEmpty DEF pending
<1> QED
  BY <1>1, <1>2, <1>3, <1>4, <1>5 DEF PageBase, Hears, EventsFit, AnswersFit

\* A milestone changes: an event more, and answers are not newer than before.
LEMMA CommitBase ==
  ASSUME PageBase, NEW mv \in MOVES, commit(mv.to),
         UNCHANGED <<seat, sock, inbox, open, chatOpen, cache, covered>>
  PROVE  /\ PageBase' /\ rev' = rev + 1 /\ posted' = posted
         /\ pending' = pending \union {MilestoneUpdate(rev + 1)}
<1>1. PICK e : e = MilestoneUpdate(rev + 1)
  OBVIOUS
<1>2. /\ e.event = "milestone:update" /\ e.id = rev + 1 /\ rev' = rev + 1 /\ state' = mv.to
      /\ unsent' = unsent \union {e} /\ posted' = posted
  BY <1>1 DEF commit, MilestoneUpdate
<1>3. e \in Events
  BY <1>1 DEF MilestoneUpdate, Events, PageBase, Shapes
<1>4. Shapes'
  BY <1>2, <1>3, MovesFit DEF PageBase, Shapes
<1>5. pending' = pending \union {e}
  BY <1>2 DEF pending
<1>6. EventsFit'
  BY <1>2, <1>5 DEF PageBase, EventsFit, isChat
<1>7. Hears' /\ AnswersFit'
  BY <1>2 DEF PageBase, Hears, hears, AnswersFit, Shapes, ContractData
<1> QED
  BY <1>1, <1>2, <1>4, <1>5, <1>6, <1>7 DEF PageBase

\* A message that is stored has an event that will tell it.
LEMMA PostBase ==
  ASSUME PageBase, PostMessage
  PROVE  /\ PageBase' /\ posted' = posted + 1
         /\ pending' = pending \union {ChatMessage(posted + 1)}
<1>1. PICK e : e = ChatMessage(posted + 1)
  OBVIOUS
<1>2. /\ e.event = "chat:message" /\ e.id = posted + 1 /\ posted' = posted + 1
      /\ unsent' = unsent \union {e}
      /\ UNCHANGED <<seat, state, rev, sock, inbox, open, chatOpen, cache, covered>>
  BY <1>1 DEF PostMessage, ChatMessage, page
<1>3. e \in Events /\ posted \in Nat
  BY <1>1 DEF ChatMessage, Events, PageBase, Shapes
<1>4. Shapes'
  BY <1>2, <1>3 DEF PageBase, Shapes
<1>5. pending' = pending \union {e}
  BY <1>2 DEF pending
<1>6. EventsFit'
  BY <1>2, <1>3, <1>5 DEF PageBase, EventsFit, isChat
<1>7. Hears' /\ AnswersFit'
  BY <1>2 DEF PageBase, Hears, hears, AnswersFit
<1> QED
  BY <1>1, <1>2, <1>4, <1>5, <1>6, <1>7 DEF PageBase

\* While anything is covered, no event is lost by being sent.
LEMMA EmitBase ==
  ASSUME PageBase, NEW e \in unsent, emitToContract(e)
  PROVE  PageBase' /\ pending' \subseteq pending /\ (covered # {} => pending' = pending)
<1>1. /\ unsent' = unsent \ {e}
      /\ inbox' = IF sock.joined THEN Append(inbox, e) ELSE inbox
      /\ UNCHANGED <<seat, state, rev, posted, sock, open, chatOpen, cache, covered>>
  BY DEF emitToContract, page
<1>2. /\ inbox' \in Seq(Events)
      /\ Range(inbox') = IF sock.joined THEN Range(inbox) \union {e} ELSE Range(inbox)
  <2>1. e \in Events /\ inbox \in Seq(Events) /\ sock.joined \in BOOLEAN
    BY DEF PageBase, Shapes
  <2>2. Append(inbox, e) \in Seq(Events) /\ Range(Append(inbox, e)) = Range(inbox) \union {e}
    BY <2>1, RangeOfAppend
  <2>3. CASE sock.joined
    BY <1>1, <2>2, <2>3
  <2>4. CASE ~sock.joined
    BY <1>1, <2>1, <2>4
  <2> QED
    BY <2>3, <2>4
<1>3. Shapes'
  BY <1>1, <1>2 DEF PageBase, Shapes
<1>4. pending' \subseteq pending /\ (covered # {} => pending' = pending)
  BY <1>1, <1>2 DEF pending, PageBase, Hears, hears
<1>5. EventsFit'
  BY <1>1, <1>4 DEF PageBase, EventsFit
<1>6. Hears' /\ AnswersFit'
  BY <1>1 DEF PageBase, Hears, hears, AnswersFit
<1> QED
  BY <1>3, <1>4, <1>5, <1>6 DEF PageBase

\* An event that is not sent leaves uncovered what it is about.
LEMMA EmitFailsBase ==
  ASSUME PageBase, NEW e \in unsent, EmitFails(e)
  PROVE  PageBase' /\ covered' = covered \ about(e) /\ pending \ {e} \subseteq pending'
<1>1. /\ unsent' = unsent \ {e} /\ covered' = covered \ about(e)
      /\ UNCHANGED <<seat, state, rev, posted, sock, inbox, open, chatOpen, cache>>
  BY DEF EmitFails, page
<1>2. pending' \subseteq pending /\ pending \ {e} \subseteq pending'
  BY <1>1 DEF pending
<1>3. Shapes' /\ EventsFit' /\ Hears' /\ AnswersFit'
  BY <1>1, <1>2 DEF PageBase, Shapes, EventsFit, Hears, hears, AnswersFit
<1> QED
  BY <1>1, <1>2, <1>3 DEF PageBase

\* A request is answered with what the server holds.
LEMMA ReadBase ==
  ASSUME PageBase, NEW key \in Keys, Read(key)
  PROVE  /\ PageBase' /\ UNCHANGED <<inbox, unsent, rev, state, posted>>
         /\ cache'[key].fetch = "back" /\ cache'[key].got = onServer(key)
         /\ \A k \in Keys \ {key} : cache'[k] = cache[k]
         /\ covered' \subseteq covered \union {key}
<1>1. /\ cache' = [cache EXCEPT ![key].fetch = "back", ![key].got = onServer(key)]
      /\ covered' = IF hears THEN covered \union {key} ELSE covered \ {key}
      /\ UNCHANGED <<seat, sock, inbox, open, chatOpen, state, rev, posted, unsent>>
  BY DEF Read, page, server
<1>2. PICK q : q = [cache[key] EXCEPT !.fetch = "back", !.got = onServer(key)]
  OBVIOUS
<1>3. cache' = [cache EXCEPT ![key] = q]
  BY <1>1, <1>2 DEF PageBase, Shapes, Keys
<1>4. /\ q \in Query(IF key = "contract" THEN ContractData ELSE Seq(Nat))
      /\ q.fetch = "back" /\ q.got = onServer(key)
  BY <1>2, ServerFits DEF PageBase, Shapes, Query, Keys
<1>5. /\ cache' = [k \in Keys |-> cache'[k]] /\ cache'[key] = q
      /\ \A k \in Keys \ {key} : cache'[k] = cache[k]
      /\ cache'["contract"] \in Query(ContractData)
      /\ cache'["messages"] \in Query(Seq(Nat))
  BY <1>3, <1>4, CacheEntry DEF PageBase
<1>6. Shapes' /\ EventsFit' /\ pending' = pending
  BY <1>1, <1>5 DEF PageBase, Shapes, EventsFit, pending
<1>7. Hears'
  BY <1>1 DEF PageBase, Shapes, Hears, hears
<1>8. AnswersFit'
  <2>1. cache'["contract"].fetch = "back" =>
          cache'["contract"].got \in ContractData /\ cache'["contract"].got.rev <= rev
    <3>1. CASE key = "contract"
      <4>1. cache'["contract"].got = onServer("contract")
        BY <1>4, <1>5, <3>1
      <4>2. onServer("contract") \in ContractData /\ onServer("contract").rev = rev
        BY ServerFits DEF PageBase
      <4> QED
        BY <4>1, <4>2 DEF PageBase, Shapes
    <3>2. CASE key # "contract"
      BY <1>5, <3>2 DEF PageBase, AnswersFit, Keys
    <3> QED
      BY <3>1, <3>2
  <2>2. cache'["messages"].fetch = "back" => cache'["messages"].got \in Seq(Nat)
    BY <1>4, <1>5, ServerFits DEF PageBase, Shapes, AnswersFit, Keys
  <2> QED
    BY <1>1, <2>1, <2>2 DEF AnswersFit
<1> QED
  BY <1>1, <1>4, <1>5, <1>6, <1>7, <1>8 DEF PageBase

\* A step that changes one entry, and brings no answer.
LEMMA EntryFits ==
  ASSUME PageBase, NEW key \in Keys, NEW q, cache' = [cache EXCEPT ![key] = q],
         q \in Query(IF key = "contract" THEN ContractData ELSE Seq(Nat)),
         q.fetch = "back" => q.got = cache[key].got /\ cache[key].fetch = "back",
         UNCHANGED rev
  PROVE  /\ cache' = [k \in Keys |-> cache'[k]] /\ cache'[key] = q
         /\ \A k \in Keys \ {key} : cache'[k] = cache[k]
         /\ cache'["contract"] \in Query(ContractData)
         /\ cache'["messages"] \in Query(Seq(Nat))
         /\ AnswersFit'
<1>1. /\ cache' = [k \in Keys |-> cache'[k]] /\ cache'[key] = q
      /\ \A k \in Keys \ {key} : cache'[k] = cache[k]
      /\ cache'["contract"] \in Query(ContractData)
      /\ cache'["messages"] \in Query(Seq(Nat))
  BY CacheEntry DEF PageBase
<1>2. AnswersFit'
  BY <1>1 DEF PageBase, AnswersFit, Keys
<1> QED
  BY <1>1, <1>2

\* An answer that arrives is what the page has.
LEMMA ArriveBase ==
  ASSUME PageBase, NEW key \in Keys, Arrive(key)
  PROVE  /\ PageBase' /\ UNCHANGED <<inbox, unsent, rev, state, posted, covered>>
         /\ cache[key].fetch = "back"
         /\ cache'[key].fetch = "idle" /\ cache'[key].data = cache[key].got
         /\ \A k \in Keys \ {key} : cache'[k] = cache[k]
<1>1. PICK q : q = [data |-> cache[key].got, fetch |-> "idle", got |-> NoData, stale |-> FALSE]
  OBVIOUS
<1>2. /\ cache' = [cache EXCEPT ![key] = q] /\ cache[key].fetch = "back"
      /\ UNCHANGED <<seat, sock, inbox, open, chatOpen, state, rev, posted, unsent, covered>>
  BY <1>1 DEF Arrive, page, server, PageBase, Shapes, Keys
<1>3. /\ q \in Query(IF key = "contract" THEN ContractData ELSE Seq(Nat))
      /\ q.fetch = "idle" /\ q.data = cache[key].got
  BY <1>1 DEF PageBase, Shapes, Query, Keys
<1>4. /\ cache' = [k \in Keys |-> cache'[k]] /\ cache'[key] = q
      /\ \A k \in Keys \ {key} : cache'[k] = cache[k]
      /\ cache'["contract"] \in Query(ContractData)
      /\ cache'["messages"] \in Query(Seq(Nat))
      /\ AnswersFit'
  BY <1>2, <1>3, EntryFits
<1>5. Shapes' /\ EventsFit' /\ Hears'
  BY <1>2, <1>4 DEF PageBase, Shapes, EventsFit, pending, Hears, hears
<1> QED
  BY <1>2, <1>3, <1>4, <1>5 DEF PageBase

\* A request that fails leaves its query uncovered.
LEMMA FetchFailsBase ==
  ASSUME PageBase, NEW key \in Keys, FetchFails(key)
  PROVE  /\ PageBase' /\ UNCHANGED <<inbox, unsent, rev, state, posted>>
         /\ covered' = covered \ {key}
         /\ \A k \in Keys \ {key} : cache'[k] = cache[k]
<1>1. PICK q : q = [cache[key] EXCEPT !.fetch = "idle", !.got = NoData]
  OBVIOUS
<1>2. /\ cache' = [cache EXCEPT ![key] = q] /\ covered' = covered \ {key}
      /\ UNCHANGED <<seat, sock, inbox, open, chatOpen, state, rev, posted, unsent>>
  BY <1>1 DEF FetchFails, page, server, PageBase, Shapes, Keys
<1>3. q \in Query(IF key = "contract" THEN ContractData ELSE Seq(Nat)) /\ q.fetch = "idle"
  BY <1>1 DEF PageBase, Shapes, Query, Keys
<1>4. /\ cache' = [k \in Keys |-> cache'[k]] /\ cache'[key] = q
      /\ \A k \in Keys \ {key} : cache'[k] = cache[k]
      /\ cache'["contract"] \in Query(ContractData)
      /\ cache'["messages"] \in Query(Seq(Nat))
      /\ AnswersFit'
  BY <1>2, <1>3, EntryFits
<1>5. Shapes' /\ EventsFit' /\ Hears'
  BY <1>2, <1>4 DEF PageBase, Shapes, EventsFit, pending, Hears, hears
<1> QED
  BY <1>2, <1>4, <1>5 DEF PageBase

\* A query is asked for again.
LEMMA RefetchBase ==
  ASSUME PageBase, NEW key \in Keys, Refetch(key)
  PROVE  /\ PageBase' /\ UNCHANGED <<inbox, unsent, rev, state, posted, covered>>
         /\ cache'[key].fetch = "sent"
         /\ \A k \in Keys \ {key} : cache'[k] = cache[k]
<1>1. PICK q : q = [cache[key] EXCEPT !.fetch = "sent"]
  OBVIOUS
<1>2. /\ cache' = [cache EXCEPT ![key] = q]
      /\ UNCHANGED <<seat, sock, inbox, open, chatOpen, state, rev, posted, unsent, covered>>
  BY <1>1 DEF Refetch, page, server, PageBase, Shapes, Keys
<1>3. q \in Query(IF key = "contract" THEN ContractData ELSE Seq(Nat)) /\ q.fetch = "sent"
  BY <1>1 DEF PageBase, Shapes, Query, Keys
<1>4. /\ cache' = [k \in Keys |-> cache'[k]] /\ cache'[key] = q
      /\ \A k \in Keys \ {key} : cache'[k] = cache[k]
      /\ cache'["contract"] \in Query(ContractData)
      /\ cache'["messages"] \in Query(Seq(Nat))
      /\ AnswersFit'
  BY <1>2, <1>3, EntryFits
<1>5. Shapes' /\ EventsFit' /\ Hears'
  BY <1>2, <1>4 DEF PageBase, Shapes, EventsFit, pending, Hears, hears
<1> QED
  BY <1>2, <1>3, <1>4, <1>5 DEF PageBase

\* What a query that is shown becomes: asked for again, or as it was.
LEMMA ShownFits ==
  ASSUME PageBase, NEW key \in Keys, NEW aged, NEW q, q = shown(key, aged)
  PROVE  /\ q \in Query(IF key = "contract" THEN ContractData ELSE Seq(Nat))
         /\ q.fetch = "sent" \/ q = cache[key]
<1>1. /\ q = [cache[key] EXCEPT !.fetch = q.fetch]
      /\ q.fetch = "sent" \/ q.fetch = cache[key].fetch
  BY DEF shown, PageBase, Shapes, Query, Keys
<1>2. cache[key] \in Query(IF key = "contract" THEN ContractData ELSE Seq(Nat))
  BY DEF PageBase, Shapes, Keys
<1>3. \A D : \A r \in Query(D) : [r EXCEPT !.fetch = r.fetch] = r
               /\ [r EXCEPT !.fetch = "sent"] \in Query(D)
  BY DEF Query
<1>4. PICK D : D = IF key = "contract" THEN ContractData ELSE Seq(Nat)
  OBVIOUS
<1>5. PICK r : r = cache[key]
  OBVIOUS
<1>6. r \in Query(D) /\ q = [r EXCEPT !.fetch = q.fetch]
  BY <1>1, <1>2, <1>4, <1>5
<1>7. CASE q.fetch = "sent"
  BY <1>3, <1>4, <1>6, <1>7
<1>8. CASE q.fetch = r.fetch
  BY <1>3, <1>4, <1>5, <1>6, <1>8
<1> QED
  BY <1>1, <1>5, <1>7, <1>8

\* An invalidated query keeps its data and is asked for if it is shown.
LEMMA InvalidatedFits ==
  ASSUME PageBase, NEW q, q = invalidated("contract")
  PROVE  /\ q \in Query(ContractData)
         /\ q.data = cache["contract"].data /\ q.got = cache["contract"].got
         /\ q.fetch = IF open /\ ~firstLoad("contract") THEN "sent" ELSE cache["contract"].fetch
BY DEF invalidated, mounted, PageBase, Shapes, Query, Keys

\* A step of the page or of the socket alone: it covers nothing more, loses nothing while
\* a query is covered, and asks again or leaves the query as it was.
Keeps(key) ==
  key \in covered' =>
    /\ key \in covered
    /\ \/ cache'[key].fetch = "sent"
       \/ /\ cache'[key].fetch = cache[key].fetch
          /\ cache'[key].got = cache[key].got /\ cache'[key].data = cache[key].data

Harmless ==
  /\ UNCHANGED <<state, rev, posted>>
  /\ covered' # {} => pending' = pending
  /\ \A key \in Keys : Keeps(key)

\* Opening the page asks for what is old and nothing else.
LEMMA OpenPageBase ==
  ASSUME PageBase, NEW aged, OpenPage(aged)
  PROVE  PageBase' /\ Harmless
<1>1. PICK q : q = shown("contract", aged)
  OBVIOUS
<1>2. /\ cache' = [cache EXCEPT !["contract"] = q] /\ open' = TRUE /\ ~open
      /\ sock' = getSocket /\ inbox' = IF sock.status = "connected" THEN inbox ELSE <<>>
      /\ UNCHANGED <<seat, chatOpen, state, rev, posted, unsent, covered>>
  BY <1>1 DEF OpenPage, server
<1>3. "contract" \in Keys
  BY DEF Keys
<1>4. q \in Query(ContractData) /\ (q.fetch = "sent" \/ q = cache["contract"])
  BY <1>1, <1>3, ShownFits
<1>5. /\ cache' = [k \in Keys |-> cache'[k]]
      /\ cache'["contract"] \in Query(ContractData)
      /\ cache'["messages"] \in Query(Seq(Nat))
      /\ AnswersFit'
  BY <1>2, <1>3, <1>4, EntryFits
<1>6. /\ sock' \in [status : {"none", "connecting", "connected", "refused"},
                    joining : BOOLEAN, joined : BOOLEAN, listening : BOOLEAN]
      /\ sock'.joined \/ sock'.joining => sock'.status = "connected"
  BY <1>2 DEF getSocket, NoSocket, PageBase, Shapes, Hears
<1>7. covered = {} /\ covered' = {}
  BY <1>2 DEF PageBase, Hears, hears
<1>8. inbox' \in Seq(Events) /\ pending' \subseteq pending
  BY <1>2, RangeOfEmpty, EmptySeq DEF PageBase, Shapes, pending
<1>9. Shapes'
  BY <1>2, <1>5, <1>6, <1>8 DEF PageBase, Shapes
<1>10. Hears' /\ EventsFit'
  BY <1>2, <1>6, <1>7, <1>8 DEF PageBase, Hears, EventsFit
<1> QED
  BY <1>2, <1>5, <1>7, <1>9, <1>10 DEF PageBase, Harmless, Keeps

\* Opening the chat asks for what is old and nothing else.
LEMMA OpenChatBase ==
  ASSUME PageBase, NEW aged, OpenChat(aged)
  PROVE  PageBase' /\ Harmless
<1>1. PICK q : q = shown("messages", aged)
  OBVIOUS
<1>2. /\ cache' = [cache EXCEPT !["messages"] = q] /\ chatOpen' = TRUE
      /\ UNCHANGED <<seat, sock, inbox, open, state, rev, posted, unsent, covered>>
  BY <1>1 DEF OpenChat, server
<1>3. "messages" \in Keys
  BY DEF Keys
<1>4. q \in Query(Seq(Nat)) /\ (q.fetch = "sent" \/ q = cache["messages"])
  BY <1>1, <1>3, ShownFits
<1>5. /\ cache' = [k \in Keys |-> cache'[k]] /\ cache'["messages"] = q
      /\ \A k \in Keys \ {"messages"} : cache'[k] = cache[k]
      /\ cache'["contract"] \in Query(ContractData)
      /\ cache'["messages"] \in Query(Seq(Nat))
      /\ AnswersFit'
  BY <1>2, <1>3, <1>4, EntryFits
<1>6. Shapes' /\ Hears' /\ EventsFit' /\ pending' = pending
  BY <1>2, <1>5 DEF PageBase, Shapes, Hears, hears, EventsFit, pending
<1>7. \A key \in Keys : Keeps(key)
  BY <1>2, <1>4, <1>5 DEF Keeps, Keys
<1> QED
  BY <1>2, <1>5, <1>6, <1>7 DEF PageBase, Harmless

\* Steps that leave the cache as it is.
LEMMA SocketBase ==
  ASSUME PageBase, ClosePage \/ Connect \/ Join \/ Drop
  PROVE  PageBase' /\ Harmless
<1>1. UNCHANGED <<seat, state, rev, posted, unsent, cache>>
  BY DEF ClosePage, Connect, Join, Drop, server
<1>2. /\ sock' \in [status : {"none", "connecting", "connected", "refused"},
                    joining : BOOLEAN, joined : BOOLEAN, listening : BOOLEAN]
      /\ sock'.joined \/ sock'.joining => sock'.status = "connected"
      /\ sock'.listening => open'
      /\ open' \in BOOLEAN /\ chatOpen' \in BOOLEAN
  BY DEF ClosePage, Connect, Join, Drop, page, PageBase, Shapes, Hears
<1>3. covered' \subseteq covered /\ (covered' # {} => hears' /\ inbox' = inbox)
  BY DEF ClosePage, Connect, Join, Drop, page, PageBase, Shapes, Hears, hears
<1>4. inbox' = inbox \/ inbox' = <<>>
  BY DEF ClosePage, Connect, Join, Drop
<1>5. inbox' \in Seq(Events) /\ pending' \subseteq pending
  BY <1>1, <1>4, RangeOfEmpty, EmptySeq DEF PageBase, Shapes, pending
<1>6. Shapes'
  BY <1>1, <1>2, <1>3, <1>5 DEF PageBase, Shapes
<1>7. Hears' /\ EventsFit' /\ AnswersFit'
  BY <1>1, <1>2, <1>3, <1>5 DEF PageBase, Hears, EventsFit, AnswersFit
<1>8. covered' # {} => pending' = pending
  BY <1>1, <1>3 DEF pending
<1> QED
  BY <1>1, <1>3, <1>6, <1>7, <1>8 DEF PageBase, Harmless, Keeps

\* A step that at most closes or opens the chat without a request does no harm.
LEMMA IdleBase ==
  ASSUME PageBase,
         UNCHANGED <<seat, server, sock, inbox, open, cache, covered>>,
         chatOpen' \in BOOLEAN
  PROVE  PageBase' /\ Harmless
<1>1. UNCHANGED <<seat, state, rev, posted, unsent, sock, inbox, open, cache, covered>>
  BY DEF server
<1>2. Shapes' /\ pending' = pending
  BY <1>1 DEF PageBase, Shapes, pending
<1>3. Hears' /\ EventsFit' /\ AnswersFit'
  BY <1>1, <1>2 DEF PageBase, Hears, hears, EventsFit, AnswersFit
<1> QED
  BY <1>1, <1>2, <1>3 DEF PageBase, Harmless, Keeps

\* The answer to a button of the page at most has the contract asked for again.
LEMMA AnswerBase ==
  ASSUME PageBase, Answer
  PROVE  PageBase' /\ Harmless
<1>1. UNCHANGED <<seat, server, sock, inbox, open, chatOpen, covered>>
  BY DEF Answer
<1>2. CASE cache' = cache
  BY <1>1, <1>2, IdleBase DEF PageBase, Shapes
<1>3. CASE cache' = onMilestone
  <2>1. PICK q : q = invalidated("contract")
    OBVIOUS
  <2>2. /\ cache' = [cache EXCEPT !["contract"] = q] /\ "contract" \in Keys
        /\ UNCHANGED <<state, rev, posted, unsent>>
    BY <1>1, <1>3, <2>1 DEF onMilestone, Keys, server
  <2>3. /\ q \in Query(ContractData)
        /\ q.data = cache["contract"].data /\ q.got = cache["contract"].got
        /\ q.fetch = "sent" \/ q.fetch = cache["contract"].fetch
    BY <2>1, InvalidatedFits
  <2>4. /\ cache' = [k \in Keys |-> cache'[k]] /\ cache'["contract"] = q
        /\ \A k \in Keys \ {"contract"} : cache'[k] = cache[k]
        /\ cache'["contract"] \in Query(ContractData)
        /\ cache'["messages"] \in Query(Seq(Nat))
        /\ AnswersFit'
    BY <2>2, <2>3, EntryFits
  <2>5. Shapes' /\ Hears' /\ EventsFit' /\ pending' = pending
    BY <1>1, <2>2, <2>4 DEF PageBase, Shapes, Hears, hears, EventsFit, pending
  <2>6. \A key \in Keys : Keeps(key)
    BY <1>1, <2>3, <2>4 DEF Keeps, Keys
  <2> QED
    BY <2>2, <2>4, <2>5, <2>6 DEF PageBase, Harmless
<1> QED
  BY <1>2, <1>3 DEF Answer

\* An event arrives: the contract is asked for again, or the message is appended.
ChatHeard(e) ==
  /\ cache'["contract"] = cache["contract"]
  /\ cache'["messages"].fetch = cache["messages"].fetch
  /\ cache'["messages"].got = cache["messages"].got
  /\ cache'["messages"].data =
       IF cache["messages"].data = NoData \/ Contains(cache["messages"].data, e.id)
         THEN cache["messages"].data
         ELSE Append(cache["messages"].data, e.id)

MilestoneHeard ==
  /\ cache'["messages"] = cache["messages"]
  /\ cache'["contract"].fetch =
       IF firstLoad("contract") THEN cache["contract"].fetch ELSE "sent"
  /\ cache'["contract"].got = cache["contract"].got

\* An event that is delivered is heard by the query it is about, or leaves that uncovered.
LEMMA DeliverBase ==
  ASSUME PageBase, Deliver, NEW e, e = Head(inbox)
  PROVE  /\ PageBase' /\ UNCHANGED <<state, rev, posted>>
         /\ e \in pending /\ e \in Events /\ pending \ {e} \subseteq pending'
         /\ covered' = IF overtaken(e) THEN covered \ about(e) ELSE covered
         /\ covered # {} /\ isChat(e) => ChatHeard(e)
         /\ covered # {} /\ ~isChat(e) => MilestoneHeard
<1>1. /\ inbox # <<>> /\ inbox' = Tail(inbox)
      /\ cache' = IF ~sock.listening THEN cache
                  ELSE IF isChat(e) THEN onMessage(e.id) ELSE onMilestone
      /\ covered' = IF overtaken(e) THEN covered \ about(e) ELSE covered
      /\ UNCHANGED <<seat, state, rev, posted, unsent, sock, open, chatOpen>>
  BY DEF Deliver, server, page
<1>2. inbox \in Seq(Events)
  BY DEF PageBase, Shapes
<1>3. /\ inbox' \in Seq(Events) /\ e \in Events /\ e \in Range(inbox)
      /\ Range(inbox) = Range(inbox') \union {e}
  BY <1>1, <1>2, RangeOfTail
<1>4. e \in pending /\ pending' \subseteq pending /\ pending \ {e} \subseteq pending'
  BY <1>1, <1>3 DEF pending
<1>5. EventsFit' /\ Hears' /\ covered' \subseteq covered
  BY <1>1, <1>4 DEF PageBase, EventsFit, Hears, hears
<1>6. covered # {} => sock.listening /\ open
  BY DEF PageBase, Hears, hears
<1> DEFINE Fits == /\ cache' = [k \in Keys |-> cache'[k]]
                   /\ cache'["contract"] \in Query(ContractData)
                   /\ cache'["messages"] \in Query(Seq(Nat))
                   /\ AnswersFit'
           Heard == /\ covered # {} /\ isChat(e) => ChatHeard(e)
                    /\ covered # {} /\ ~isChat(e) => MilestoneHeard
<1>7. ASSUME ~sock.listening PROVE Fits /\ Heard
  BY <1>1, <1>6, <1>7 DEF PageBase, Shapes, AnswersFit
<1>8. ASSUME sock.listening, isChat(e),
             cache["messages"].data = NoData \/ Contains(cache["messages"].data, e.id)
      PROVE  Fits /\ Heard
  <2>1. cache' = cache
    BY <1>1, <1>8 DEF onMessage
  <2> QED
    BY <1>1, <1>8, <2>1 DEF PageBase, Shapes, AnswersFit, ChatHeard
<1>9. ASSUME sock.listening, isChat(e),
             ~(cache["messages"].data = NoData \/ Contains(cache["messages"].data, e.id))
      PROVE  Fits /\ Heard
  <2>1. PICK list : list = Append(cache["messages"].data, e.id)
    OBVIOUS
  <2>2. PICK q : q = [cache["messages"] EXCEPT !.data = list, !.stale = FALSE]
    OBVIOUS
  <2>3. cache' = [cache EXCEPT !["messages"] = q] /\ "messages" \in Keys
    BY <1>1, <1>9, <2>1, <2>2 DEF onMessage, PageBase, Shapes, Keys
  <2>4. cache["messages"].data \in Seq(Nat) /\ e.id \in Nat
    BY <1>3, <1>9 DEF PageBase, Shapes, Query, Events
  <2>5. list \in Seq(Nat)
    BY <2>1, <2>4
  <2>6. /\ q \in Query(Seq(Nat)) /\ q.data = list
        /\ q.fetch = cache["messages"].fetch /\ q.got = cache["messages"].got
    BY <2>2, <2>5 DEF PageBase, Shapes, Query
  <2>7. Fits /\ cache'["messages"] = q /\ cache'["contract"] = cache["contract"]
    BY <1>1, <2>3, <2>6, EntryFits DEF Keys
  <2>8. ChatHeard(e)
    BY <1>9, <2>1, <2>6, <2>7 DEF ChatHeard
  <2> QED
    BY <1>9, <2>7, <2>8
<1>10. ASSUME sock.listening, ~isChat(e) PROVE Fits /\ Heard
  <2>1. PICK q : q = invalidated("contract")
    OBVIOUS
  <2>2. cache' = [cache EXCEPT !["contract"] = q] /\ "contract" \in Keys
    BY <1>1, <1>10, <2>1 DEF onMilestone, Keys
  <2>3. /\ q \in Query(ContractData) /\ q.got = cache["contract"].got
        /\ q.fetch = IF open /\ ~firstLoad("contract") THEN "sent" ELSE cache["contract"].fetch
    BY <2>1, InvalidatedFits
  <2>4. Fits /\ cache'["contract"] = q /\ cache'["messages"] = cache["messages"]
    BY <1>1, <2>2, <2>3, EntryFits DEF Keys
  <2>5. covered # {} => MilestoneHeard
    BY <1>6, <2>3, <2>4 DEF MilestoneHeard
  <2> QED
    BY <1>10, <2>4, <2>5
<1>11. Fits /\ Heard
  BY <1>7, <1>8, <1>9, <1>10
<1>12. PageBase'
  BY <1>1, <1>3, <1>5, <1>11 DEF PageBase, Shapes
<1> QED
  BY <1>1, <1>3, <1>4, <1>11, <1>12

-----------------------------------------------------------------------------
(* The contract: what its answer lacks is told by an event on its way *)

Stays(keys) == \A e \in pending : (about(e) \intersect keys # {}) => e \in pending'

\* The contract in a step that keeps its query.
LEMMA ContractKept ==
  ASSUME PageBase, ContractInd, Keeps("contract"), UNCHANGED <<state, rev>>,
         covered' # {} => Stays({"contract"})
  PROVE  ContractInd'
<1>1. onServer("contract")' = onServer("contract")
  BY DEF onServer
<1>2. \A e : ~isChat(e) => about(e) \intersect {"contract"} # {}
  BY DEF about
<1>3. ASSUME "contract" \in covered'
      PROVE  \A e \in pending : ~isChat(e) => e \in pending'
  BY <1>2, <1>3 DEF Stays
<1> QED
  BY <1>1, <1>3 DEF ContractInd, Keeps, isChat

\* The contract in a step that does no harm.
LEMMA ContractHarmless ==
  ASSUME PageBase, ContractInd, Harmless PROVE ContractInd'
BY ContractKept DEF Harmless, Stays, Keys

\* A change is told by the event that was just queued.
LEMMA ContractCommit ==
  ASSUME PageBase, ContractInd, rev' = rev + 1,
         pending' = pending \union {MilestoneUpdate(rev + 1)},
         UNCHANGED <<cache, covered>>
  PROVE  ContractInd'
<1>1. PICK e : e = MilestoneUpdate(rev + 1)
  OBVIOUS
<1>2. e \in pending' /\ ~isChat(e) /\ e.id = rev + 1
  BY <1>1 DEF MilestoneUpdate, isChat
<1>3. /\ rev \in Nat
      /\ cache["contract"].fetch = "back" =>
           cache["contract"].got.rev \in Nat /\ cache["contract"].got.rev <= rev
  BY DEF PageBase, Shapes, AnswersFit, ContractData
<1> QED
  BY <1>2, <1>3 DEF ContractInd, isChat

\* The contract when a message is stored.
LEMMA ContractPost ==
  ASSUME PageBase, ContractInd, PostMessage,
         pending' = pending \union {ChatMessage(posted + 1)}
  PROVE  ContractInd'
<1>1. UNCHANGED <<state, rev, cache, covered>>
  BY DEF PostMessage
<1> QED
  BY <1>1, ContractKept DEF Keeps, Stays

\* The contract when an event is not sent.
LEMMA ContractEmitFails ==
  ASSUME PageBase, ContractInd, NEW e \in unsent, EmitFails(e),
         pending \ {e} \subseteq pending', covered' = covered \ about(e)
  PROVE  ContractInd'
<1>1. UNCHANGED <<state, rev, cache>>
  BY DEF EmitFails
<1>2. CASE isChat(e)
  <2>1. Stays({"contract"})
    BY <1>2 DEF Stays, about
  <2> QED
    BY <1>1, <2>1, ContractKept DEF Keeps
<1>3. CASE ~isChat(e)
  BY <1>3 DEF ContractInd, about
<1> QED
  BY <1>2, <1>3

\* The contract when a request is answered.
LEMMA ContractRead ==
  ASSUME PageBase, ContractInd, NEW key \in Keys, Read(key)
  PROVE  ContractInd'
<1>1. /\ PageBase' /\ UNCHANGED <<inbox, unsent, rev, state, posted>>
      /\ cache'[key].fetch = "back" /\ cache'[key].got = onServer(key)
      /\ \A k \in Keys \ {key} : cache'[k] = cache[k]
      /\ covered' \subseteq covered \union {key}
  BY ReadBase
<1>2. CASE key = "contract"
  <2>1. onServer("contract")' = onServer("contract")
    BY <1>1 DEF onServer
  <2>2. cache'["contract"].fetch = "back" /\ cache'["contract"].got = onServer("contract")
    BY <1>1, <1>2
  <2> QED
    BY <2>1, <2>2 DEF ContractInd
<1>3. CASE key # "contract"
  <2>1. Keeps("contract")
    BY <1>1, <1>3 DEF Keeps, Keys
  <2>2. Stays({"contract"})
    BY <1>1 DEF Stays, pending
  <2> QED
    BY <1>1, <2>1, <2>2, ContractKept
<1> QED
  BY <1>2, <1>3

\* The contract when an answer arrives.
LEMMA ContractArrive ==
  ASSUME PageBase, ContractInd, NEW key \in Keys, Arrive(key)
  PROVE  ContractInd'
<1>1. /\ UNCHANGED <<inbox, unsent, rev, state, posted, covered>>
      /\ cache[key].fetch = "back"
      /\ cache'[key].fetch = "idle" /\ cache'[key].data = cache[key].got
      /\ \A k \in Keys \ {key} : cache'[k] = cache[k]
  BY ArriveBase
<1>2. pending' = pending
  BY <1>1 DEF pending
<1>3. CASE key = "contract"
  <2>1. onServer("contract")' = onServer("contract")
    BY <1>1 DEF onServer
  <2> QED
    BY <1>1, <1>2, <1>3, <2>1 DEF ContractInd, isChat
<1>4. CASE key # "contract"
  <2>1. Keeps("contract")
    BY <1>1, <1>4 DEF Keeps, Keys
  <2>2. Stays({"contract"})
    BY <1>2 DEF Stays
  <2> QED
    BY <1>1, <2>1, <2>2, ContractKept
<1> QED
  BY <1>3, <1>4

\* A request that ends without an answer, or is sent again.
LEMMA ContractRequests ==
  ASSUME PageBase, ContractInd, NEW key \in Keys, FetchFails(key) \/ Refetch(key)
  PROVE  ContractInd'
<1>1. /\ UNCHANGED <<inbox, unsent, rev, state, posted>>
      /\ covered' \subseteq covered
      /\ key \in covered' => cache'[key].fetch = "sent"
      /\ \A k \in Keys \ {key} : cache'[k] = cache[k]
  <2>1. CASE FetchFails(key)
    BY <2>1, FetchFailsBase
  <2>2. CASE Refetch(key)
    BY <2>2, RefetchBase
  <2> QED
    BY <2>1, <2>2
<1>2. Keeps("contract")
  BY <1>1 DEF Keeps, Keys
<1>3. Stays({"contract"})
  BY <1>1 DEF Stays, pending
<1> QED
  BY <1>1, <1>2, <1>3, ContractKept

\* The event that is heard has the contract asked for again; where it does not, the first
\* answer has what it tells of, or is no longer covered.
LEMMA ContractDeliver ==
  ASSUME PageBase, ContractInd, Deliver
  PROVE  ContractInd'
<1>1. PICK e : e = Head(inbox)
  OBVIOUS
<1>2. /\ UNCHANGED <<state, rev, posted>>
      /\ e \in pending /\ e \in Events /\ pending \ {e} \subseteq pending'
      /\ covered' = IF overtaken(e) THEN covered \ about(e) ELSE covered
      /\ covered # {} /\ isChat(e) => ChatHeard(e)
      /\ covered # {} /\ ~isChat(e) => MilestoneHeard
  BY <1>1, DeliverBase
<1> SUFFICES ASSUME "contract" \in covered' PROVE ContractInd'
  BY DEF ContractInd
<1>3. "contract" \in covered
  BY <1>2
<1>4. CASE isChat(e)
  <2>1. Keeps("contract")
    BY <1>2, <1>3, <1>4 DEF Keeps, ChatHeard
  <2>2. Stays({"contract"})
    BY <1>2, <1>4 DEF Stays, about
  <2> QED
    BY <1>2, <2>1, <2>2, ContractKept
<1>5. CASE ~isChat(e)
  <2>1. ~overtaken(e) /\ MilestoneHeard
    BY <1>2, <1>3, <1>5 DEF about
  <2>2. CASE ~firstLoad("contract")
    BY <2>1, <2>2 DEF MilestoneHeard, ContractInd
  <2>3. CASE firstLoad("contract") /\ cache["contract"].fetch = "sent"
    BY <2>1, <2>3 DEF MilestoneHeard, ContractInd
  <2>4. CASE firstLoad("contract") /\ cache["contract"].fetch = "back"
    <3>1. cache["contract"].got.rev \in Nat /\ e.id \in Nat
      BY <1>2, <2>4 DEF PageBase, AnswersFit, ContractData, Events
    <3>2. ~(e.id > cache["contract"].got.rev)
      BY <1>5, <2>1, <2>4, <3>1 DEF overtaken
    <3>3. /\ cache'["contract"].fetch = "back"
          /\ cache'["contract"].got = cache["contract"].got
      BY <2>1, <2>4 DEF MilestoneHeard
    <3>4. onServer("contract")' = onServer("contract")
      BY <1>2 DEF onServer
    <3>5. \/ cache["contract"].got = onServer("contract")
          \/ \E d \in pending' : ~isChat(d) /\ d.id > cache["contract"].got.rev
      BY <1>2, <1>3, <2>4, <3>2 DEF ContractInd
    <3> QED
      BY <3>3, <3>4, <3>5 DEF ContractInd, isChat
  <2> QED
    BY <2>2, <2>3, <2>4 DEF firstLoad, PageBase, Shapes, Query
<1> QED
  BY <1>4, <1>5

-----------------------------------------------------------------------------
(* The chat: what the list lacks is told by an event on its way *)

\* The chat in a step that keeps its query.
LEMMA MessagesKept ==
  ASSUME PageBase, MessagesInd, Keeps("messages"), UNCHANGED posted,
         covered' # {} => Stays({"messages"})
  PROVE  MessagesInd'
<1>1. ASSUME NEW list, Complete(list, posted, pending), Stays({"messages"})
      PROVE  Complete(list, posted', pending')
  <2>1. \A id : about(ChatMessage(id)) \intersect {"messages"} # {}
    BY DEF about, ChatMessage, isChat
  <2> QED
    BY <1>1, <2>1 DEF Complete, Stays
<1>2. "messages" \in covered' => Stays({"messages"}) /\ "messages" \in covered
  BY DEF Keeps
<1>3. ASSUME "messages" \in covered', posted' <= Take, cache'["messages"].fetch = "back"
      PROVE  Complete(cache'["messages"].got, posted', pending')
  BY <1>1, <1>2, <1>3 DEF MessagesInd, Keeps
<1>4. ASSUME "messages" \in covered', posted' <= Take, cache'["messages"].fetch = "idle"
      PROVE  Complete(cache'["messages"].data, posted', pending')
  BY <1>1, <1>2, <1>4 DEF MessagesInd, Keeps
<1> QED
  BY <1>3, <1>4 DEF MessagesInd

\* The chat in a step that does no harm.
LEMMA MessagesHarmless ==
  ASSUME PageBase, MessagesInd, Harmless PROVE MessagesInd'
BY MessagesKept DEF Harmless, Stays, Keys

\* The chat when a milestone moves.
LEMMA MessagesCommit ==
  ASSUME PageBase, MessagesInd, UNCHANGED <<posted, cache, covered>>,
         pending' = pending \union {MilestoneUpdate(rev + 1)}
  PROVE  MessagesInd'
BY MessagesKept DEF Keeps, Stays

\* A message is told by the event that was just queued.
LEMMA MessagesPost ==
  ASSUME PageBase, MessagesInd, PostMessage, posted' = posted + 1,
         pending' = pending \union {ChatMessage(posted + 1)}
  PROVE  MessagesInd'
<1>1. UNCHANGED <<cache, covered>> /\ posted \in Nat /\ Take \in Nat
  BY ContractPageAssumption DEF PostMessage, PageBase, Shapes
<1>2. posted' <= Take => posted <= Take
  BY <1>1
<1>3. \A id \in 1..(posted + 1) : id \in 1..posted \/ id = posted + 1
  BY <1>1
<1>4. 1..posted \subseteq 1..(posted + 1)
  BY <1>1
<1>5. ASSUME NEW list, Complete(list, posted, pending)
      PROVE  Complete(list, posted', pending')
  BY <1>3, <1>4, <1>5 DEF Complete
<1> QED
  BY <1>1, <1>2, <1>5 DEF MessagesInd

\* The chat when an event is not sent.
LEMMA MessagesEmitFails ==
  ASSUME PageBase, MessagesInd, NEW e \in unsent, EmitFails(e),
         pending \ {e} \subseteq pending', covered' = covered \ about(e)
  PROVE  MessagesInd'
<1>1. UNCHANGED <<posted, cache>>
  BY DEF EmitFails
<1>2. CASE ~isChat(e)
  <2>1. Stays({"messages"})
    BY <1>2 DEF Stays, about
  <2> QED
    BY <1>1, <2>1, MessagesKept DEF Keeps
<1>3. CASE isChat(e)
  BY <1>3 DEF MessagesInd, about
<1> QED
  BY <1>2, <1>3

\* What the server answers, while it answers all there is.
LEMMA AnswerIsComplete ==
  ASSUME PageBase, posted <= Take, NEW told
  PROVE  Complete(onServer("messages"), posted, told)
<1>1. PICK n : n = posted
  OBVIOUS
<1>2. PICK list : list = onServer("messages")
  OBVIOUS
<1>3. n \in Nat /\ Take \in Nat /\ n <= Take
  BY <1>1, ContractPageAssumption DEF PageBase, Shapes
<1>4. list \in Seq(Nat)
  BY <1>2, ServerFits DEF PageBase
<1>5. list = [i \in 1..(IF n < Take THEN n ELSE Take) |-> i]
  BY <1>1, <1>2, ServerFits DEF PageBase
<1>6. list = [i \in 1..n |-> i]
  <2>1. CASE n < Take
    BY <1>5, <2>1
  <2>2. CASE n = Take
    BY <1>5, <2>2
  <2> QED
    BY <1>3, <2>1, <2>2
<1>7. DOMAIN list = 1..n /\ Range(list) = 1..n
  BY <1>6 DEF Range
<1>8. Complete(list, n, told)
  BY <1>4, <1>6, <1>7 DEF Complete
<1> QED
  BY <1>1, <1>2, <1>8

\* The chat when a request is answered.
LEMMA MessagesRead ==
  ASSUME PageBase, MessagesInd, NEW key \in Keys, Read(key)
  PROVE  MessagesInd'
<1>1. /\ PageBase' /\ UNCHANGED <<inbox, unsent, rev, state, posted>>
      /\ cache'[key].fetch = "back" /\ cache'[key].got = onServer(key)
      /\ \A k \in Keys \ {key} : cache'[k] = cache[k]
      /\ covered' \subseteq covered \union {key}
  BY ReadBase
<1>2. pending' = pending
  BY <1>1 DEF pending
<1>3. CASE key = "messages"
  BY <1>1, <1>2, <1>3, AnswerIsComplete DEF MessagesInd
<1>4. CASE key # "messages"
  <2>1. Keeps("messages")
    BY <1>1, <1>4 DEF Keeps, Keys
  <2> QED
    BY <1>1, <1>2, <2>1, MessagesKept DEF Stays
<1> QED
  BY <1>3, <1>4

\* The chat when an answer arrives.
LEMMA MessagesArrive ==
  ASSUME PageBase, MessagesInd, NEW key \in Keys, Arrive(key)
  PROVE  MessagesInd'
<1>1. /\ UNCHANGED <<inbox, unsent, rev, state, posted, covered>>
      /\ cache[key].fetch = "back"
      /\ cache'[key].fetch = "idle" /\ cache'[key].data = cache[key].got
      /\ \A k \in Keys \ {key} : cache'[k] = cache[k]
  BY ArriveBase
<1>2. pending' = pending
  BY <1>1 DEF pending
<1>3. CASE key = "messages"
  BY <1>1, <1>2, <1>3 DEF MessagesInd
<1>4. CASE key # "messages"
  <2>1. Keeps("messages")
    BY <1>1, <1>4 DEF Keeps, Keys
  <2> QED
    BY <1>1, <1>2, <2>1, MessagesKept DEF Stays
<1> QED
  BY <1>3, <1>4

\* The chat when a request fails or is made.
LEMMA MessagesRequests ==
  ASSUME PageBase, MessagesInd, NEW key \in Keys, FetchFails(key) \/ Refetch(key)
  PROVE  MessagesInd'
<1>1. /\ UNCHANGED <<inbox, unsent, rev, state, posted>>
      /\ covered' \subseteq covered
      /\ key \in covered' => cache'[key].fetch = "sent"
      /\ \A k \in Keys \ {key} : cache'[k] = cache[k]
  <2>1. CASE FetchFails(key)
    BY <2>1, FetchFailsBase
  <2>2. CASE Refetch(key)
    BY <2>2, RefetchBase
  <2> QED
    BY <2>1, <2>2
<1>2. Keeps("messages")
  BY <1>1 DEF Keeps, Keys
<1> QED
  BY <1>1, <1>2, MessagesKept DEF Stays, pending

\* The message that is heard is appended, or it is in the list.
LEMMA Appended ==
  ASSUME NEW n \in Nat, NEW told, NEW rest, NEW e \in Events, isChat(e), e.id \in 1..n,
         told \ {e} \subseteq rest,
         NEW list, Complete(list, n, told)
  PROVE  IF Contains(list, e.id) THEN Complete(list, n, rest)
                                 ELSE Complete(Append(list, e.id), n, rest)
<1>1. /\ list \in Seq(Nat) /\ Range(list) \subseteq 1..n
      /\ \A i, j \in DOMAIN list : list[i] = list[j] => i = j
      /\ \A id \in 1..n : id \in Range(list) \/ ChatMessage(id) \in told
  BY DEF Complete
<1>2. \A id \in 1..n : id # e.id => ChatMessage(id) # e
  BY DEF ChatMessage
<1>3. DOMAIN list = 1..Len(list) /\ Len(list) \in Nat
  BY <1>1, LenProperties
<1>4. Contains(list, e.id) <=> e.id \in Range(list)
  BY <1>3 DEF Contains, Range
<1>5. CASE e.id \in Range(list)
  <2>1. \A id \in 1..n : id \in Range(list) \/ ChatMessage(id) \in rest
    BY <1>1, <1>2, <1>5
  <2> QED
    BY <1>1, <1>4, <1>5, <2>1 DEF Complete
<1>6. CASE e.id \notin Range(list)
  <2>1. PICK longer : longer = Append(list, e.id)
    OBVIOUS
  <2>2. e.id \in Nat
    BY DEF Events
  <2>3. longer \in Seq(Nat) /\ Range(longer) = Range(list) \union {e.id}
    BY <1>1, <2>1, <2>2, RangeOfAppend
  <2>4. /\ Len(longer) = Len(list) + 1 /\ longer[Len(list) + 1] = e.id
        /\ \A i \in 1..Len(list) : longer[i] = list[i]
    BY <1>1, <2>1
  <2>5. DOMAIN longer = 1..(Len(list) + 1)
    BY <2>3, <2>4, LenProperties
  <2>6. \A i \in 1..(Len(list) + 1) : i \in 1..Len(list) \/ i = Len(list) + 1
    BY <1>3
  <2>7. \A i \in 1..Len(list) : longer[i] \in Range(list)
    BY <1>3, <2>4 DEF Range
  <2>8. \A i, j \in DOMAIN longer : longer[i] = longer[j] => i = j
    BY <1>1, <1>3, <1>6, <2>4, <2>5, <2>6, <2>7
  <2>9. \A id \in 1..n : id \in Range(longer) \/ ChatMessage(id) \in rest
    BY <1>1, <1>2, <2>3
  <2> QED
    BY <1>1, <1>4, <1>6, <2>1, <2>3, <2>8, <2>9 DEF Complete
<1> QED
  BY <1>5, <1>6

\* The chat when an event is delivered: the message is added, unless it is there.
LEMMA MessagesDeliver ==
  ASSUME PageBase, MessagesInd, Deliver
  PROVE  MessagesInd'
<1>1. PICK e : e = Head(inbox)
  OBVIOUS
<1>2. /\ UNCHANGED <<state, rev, posted>>
      /\ e \in pending /\ e \in Events /\ pending \ {e} \subseteq pending'
      /\ covered' = IF overtaken(e) THEN covered \ about(e) ELSE covered
      /\ covered # {} /\ isChat(e) => ChatHeard(e)
      /\ covered # {} /\ ~isChat(e) => MilestoneHeard
  BY <1>1, DeliverBase
<1> SUFFICES ASSUME "messages" \in covered', posted' <= Take PROVE MessagesInd'
  BY DEF MessagesInd
<1>3. "messages" \in covered /\ posted <= Take
  BY <1>2
<1>4. CASE ~isChat(e)
  <2>1. Keeps("messages")
    BY <1>2, <1>3, <1>4 DEF Keeps, MilestoneHeard
  <2>2. Stays({"messages"})
    BY <1>2, <1>4 DEF Stays, about
  <2> QED
    BY <1>2, <2>1, <2>2, MessagesKept
<1>5. CASE isChat(e)
  <2>1. ~overtaken(e) /\ ChatHeard(e)
    BY <1>2, <1>3, <1>5 DEF about
  <2>2. e.id \in 1..posted /\ posted \in Nat
    BY <1>2, <1>5 DEF PageBase, EventsFit, Shapes
  <2>3. ASSUME NEW list, Complete(list, posted, pending)
        PROVE  IF Contains(list, e.id) THEN Complete(list, posted, pending')
                                       ELSE Complete(Append(list, e.id), posted, pending')
    BY <1>2, <1>5, <2>2, <2>3, Appended
  <2>4. CASE cache["messages"].fetch = "back"
    <3>1. Contains(cache["messages"].got, e.id)
      BY <1>5, <2>1, <2>4 DEF overtaken
    <3>2. Complete(cache["messages"].got, posted, pending')
      BY <1>3, <2>3, <2>4, <3>1 DEF MessagesInd
    <3> QED
      BY <1>2, <2>1, <2>4, <3>2 DEF ChatHeard, MessagesInd
  <2>5. CASE cache["messages"].fetch = "idle"
    <3>1. PICK list : list = cache["messages"].data
      OBVIOUS
    <3>2. Complete(list, posted, pending) /\ list # NoData
      BY <1>3, <2>5, <3>1, ContractPageAssumption DEF MessagesInd, Complete
    <3>3. cache'["messages"].data = IF Contains(list, e.id) THEN list ELSE Append(list, e.id)
      BY <2>1, <3>1, <3>2 DEF ChatHeard
    <3>4. Complete(cache'["messages"].data, posted, pending')
      BY <2>3, <3>2, <3>3
    <3> QED
      BY <1>2, <2>1, <2>5, <3>4 DEF ChatHeard, MessagesInd
  <2>6. CASE cache["messages"].fetch = "sent"
    BY <2>1, <2>6 DEF ChatHeard, MessagesInd
  <2> QED
    BY <2>4, <2>5, <2>6 DEF PageBase, Shapes, Query
<1> QED
  BY <1>4, <1>5

-----------------------------------------------------------------------------
(* The invariant *)

\* The invariant holds initially.
LEMMA PageInit == Init => PageInd
BY BaseInit DEF Init, PageInd, ContractInd, MessagesInd

\* The page when a milestone moves.
LEMMA PageCommit ==
  ASSUME PageInd, NEW mv \in MOVES, commit(mv.to),
         UNCHANGED <<seat, sock, inbox, open, chatOpen, cache, covered>>
  PROVE  PageInd'
<1>1. /\ PageBase' /\ rev' = rev + 1 /\ posted' = posted
      /\ pending' = pending \union {MilestoneUpdate(rev + 1)}
  BY CommitBase DEF PageInd
<1> QED
  BY <1>1, ContractCommit, MessagesCommit DEF PageInd

\* The page in a step that does no harm.
LEMMA PageHarmless ==
  ASSUME PageInd, PageBase', Harmless PROVE PageInd'
BY ContractHarmless, MessagesHarmless DEF PageInd

\* An event is sent, or lost.
LEMMA PageEmit ==
  ASSUME PageInd, NEW e \in unsent, emitToContract(e) \/ EmitFails(e)
  PROVE  PageInd'
<1>1. CASE emitToContract(e)
  <2>1. PageBase' /\ (covered # {} => pending' = pending)
    BY <1>1, EmitBase DEF PageInd
  <2>2. UNCHANGED <<state, rev, posted, cache, covered>>
    BY <1>1 DEF emitToContract
  <2>3. Harmless
    BY <2>1, <2>2 DEF Harmless, Keeps
  <2> QED
    BY <2>1, <2>3, PageHarmless
<1>2. CASE EmitFails(e)
  BY <1>2, EmitFailsBase, ContractEmitFails, MessagesEmitFails DEF PageInd
<1> QED
  BY <1>1, <1>2

\* The page in the steps of a request.
LEMMA PageRequest ==
  ASSUME PageInd, NEW key \in Keys,
         Read(key) \/ Arrive(key) \/ FetchFails(key) \/ Refetch(key)
  PROVE  PageInd'
<1>1. CASE Read(key)
  BY <1>1, ReadBase, ContractRead, MessagesRead DEF PageInd
<1>2. CASE Arrive(key)
  BY <1>2, ArriveBase, ContractArrive, MessagesArrive DEF PageInd
<1>3. CASE FetchFails(key)
  BY <1>3, FetchFailsBase, ContractRequests, MessagesRequests DEF PageInd
<1>4. CASE Refetch(key)
  BY <1>4, RefetchBase, ContractRequests, MessagesRequests DEF PageInd
<1> QED
  BY <1>1, <1>2, <1>3, <1>4

\* What only the page's own state sees.
LEMMA PageIdle ==
  ASSUME PageInd,
         \/ CloseChat \/ ClosePrompt \/ UNCHANGED vars
         \/ \E act \in Actions : OpenPrompt(act) \/ run(act)
  PROVE  PageInd'
<1>1. /\ UNCHANGED <<seat, server, sock, inbox, open, cache, covered>>
      /\ chatOpen' = chatOpen \/ chatOpen' = FALSE
  BY DEF CloseChat, ClosePrompt, OpenPrompt, run, vars, page
<1>2. chatOpen' \in BOOLEAN
  BY <1>1 DEF PageInd, PageBase, Shapes
<1> QED
  BY <1>1, <1>2, IdleBase, PageHarmless DEF PageInd

\* The page when an event is handled.
LEMMA PageHandle ==
  ASSUME PageInd, Handle PROVE PageInd'
<1>1. UNCHANGED <<seat, sock, inbox, open, chatOpen, cache, covered>>
  BY DEF Handle
<1>2. UNCHANGED server \/ \E mv \in MOVES : commit(mv.to)
  BY DEF Handle
<1>3. CASE UNCHANGED server
  BY <1>1, <1>3, IdleBase, PageHarmless DEF PageInd, PageBase, Shapes
<1>4. CASE \E mv \in MOVES : commit(mv.to)
  BY <1>1, <1>4, PageCommit
<1> QED
  BY <1>2, <1>3, <1>4

\* Every step keeps the invariant.
LEMMA PageStep == PageInd /\ [Next]_vars => PageInd'
<1> SUFFICES ASSUME PageInd, [Next]_vars PROVE PageInd'
  OBVIOUS
<1>1. CASE OthersMove
  BY <1>1, PageCommit DEF OthersMove, page
<1>2. CASE PostMessage
  BY <1>2, PostBase, ContractPost, MessagesPost DEF PageInd
<1>3. CASE \E e \in unsent : emitToContract(e) \/ EmitFails(e)
  BY <1>3, PageEmit
<1>4. CASE \E key \in Keys : Read(key) \/ Arrive(key) \/ FetchFails(key) \/ Refetch(key)
  BY <1>4, PageRequest
<1>5. CASE \E aged \in BOOLEAN : OpenPage(aged) \/ OpenChat(aged)
  BY <1>5, OpenPageBase, OpenChatBase, PageHarmless DEF PageInd
<1>6. CASE ClosePage \/ Connect \/ Join \/ Drop
  BY <1>6, SocketBase, PageHarmless DEF PageInd
<1>7. CASE Deliver
  BY <1>7, DeliverBase, ContractDeliver, MessagesDeliver DEF PageInd
<1>8. CASE \/ CloseChat \/ ClosePrompt \/ UNCHANGED vars
           \/ \E act \in Actions : OpenPrompt(act) \/ run(act)
  BY <1>8, PageIdle
<1>9. CASE Handle
  BY <1>9, PageHandle
<1>10. CASE Answer
  BY <1>10, AnswerBase, PageHarmless DEF PageInd
<1> QED
  BY <1>1, <1>2, <1>3, <1>4, <1>5, <1>6, <1>7, <1>8, <1>9, <1>10 DEF Next

\* The invariant holds always.
LEMMA PageInvariance == Spec => []PageInd
BY PageInit, PageStep, PTL DEF Spec

-----------------------------------------------------------------------------
(* What is shown *)

\* A button that the page offers for the true state is one the server accepts.
LEMMA OfferedIsAccepted ==
  ASSUME shownState = state, seat \in Parties, NEW act \in offered
  PROVE  accepted(seat, act)
<1>1. /\ Move("CREATED", "fund", "FUNDED", {"client"}) \in MOVES
      /\ Move("CREATED", "cancel", "CANCELLED", {"client"}) \in MOVES
      /\ Move("FUNDED", "cancel", "CANCELLED", {"client"}) \in MOVES
      /\ Move("FUNDED", "start", "IN_PROGRESS", {"freelancer"}) \in MOVES
      /\ Move("FUNDED", "dispute", "DISPUTED", Parties) \in MOVES
      /\ Move("IN_PROGRESS", "submit", "SUBMITTED", {"freelancer"}) \in MOVES
      /\ Move("IN_PROGRESS", "dispute", "DISPUTED", Parties) \in MOVES
      /\ Move("SUBMITTED", "approve", "RELEASED", {"client", "worker"}) \in MOVES
      /\ Move("SUBMITTED", "request-changes", "IN_PROGRESS", {"client"}) \in MOVES
      /\ Move("SUBMITTED", "dispute", "DISPUTED", Parties) \in MOVES
  BY DEF MOVES
<1>2. \A from, a, to, who : /\ Move(from, a, to, who).from = from
                            /\ Move(from, a, to, who).act = a
                            /\ Move(from, a, to, who).who = who
  BY DEF Move
<1>3. seat = "client" \/ seat = "freelancer"
  BY DEF Parties
<1>4. CASE state = "CREATED"
  <2>1. seat = "client" /\ act \in {"fund", "cancel"}
    BY <1>4 DEF offered, isClient
  <2> QED
    BY <1>1, <1>2, <1>4, <2>1 DEF accepted
<1>5. CASE state = "FUNDED"
  <2>1. \/ act = "dispute"
        \/ seat = "client" /\ act = "cancel"
        \/ seat = "freelancer" /\ act = "start"
    BY <1>3, <1>5 DEF offered, isClient
  <2> QED
    BY <1>1, <1>2, <1>5, <2>1 DEF accepted
<1>6. CASE state = "IN_PROGRESS"
  <2>1. act = "dispute" \/ (seat = "freelancer" /\ act = "submit")
    BY <1>3, <1>6 DEF offered, isClient
  <2> QED
    BY <1>1, <1>2, <1>6, <2>1 DEF accepted
<1>7. CASE state = "SUBMITTED"
  <2>1. act = "dispute" \/ (seat = "client" /\ act \in {"approve", "request-changes"})
    BY <1>3, <1>7 DEF offered, isClient
  <2> QED
    BY <1>1, <1>2, <1>7, <2>1 DEF accepted
<1>8. CASE state \notin {"CREATED", "FUNDED", "IN_PROGRESS", "SUBMITTED"}
  BY <1>8 DEF offered
<1> QED
  BY <1>4, <1>5, <1>6, <1>7, <1>8

\* However the changes, the events, the requests and the socket interleave, a page that has
\* listened since its answer was read shows the state of the server once nothing is under
\* way, and offers only what the server then accepts (hooks.ts, page.tsx).
THEOREM LiveView == Spec => []LiveViewIsTrue
<1>1. ASSUME PageInd PROVE LiveViewIsTrue
  <2> SUFFICES ASSUME "contract" \in covered, quiet({"contract"})
               PROVE  /\ cache["contract"].data = onServer("contract")
                      /\ seat \in Parties => \A act \in offered : accepted(seat, act)
    BY DEF LiveViewIsTrue
  <2>1. cache["contract"].fetch = "idle"
    BY DEF quiet
  <2>2. \A e \in pending : isChat(e)
    BY DEF quiet, pending, about
  <2>3. cache["contract"].data = onServer("contract")
    BY <1>1, <2>1, <2>2 DEF PageInd, ContractInd
  <2>4. shownState = state
    BY <1>1, <2>3, ServerFits DEF shownState, PageInd, PageBase
  <2> QED
    BY <2>3, <2>4, OfferedIsAccepted
<1> QED
  BY <1>1, PageInvariance, PTL

\* However messages are posted, emitted, lost, delivered and fetched, a list that was read in
\* the room and not overtaken has each message once, when nothing is under way (chat-panel.tsx).
THEOREM ChatWhole == Spec => []ChatIsComplete
<1>1. ASSUME PageInd PROVE ChatIsComplete
  <2> SUFFICES ASSUME "messages" \in covered, quiet({"messages"}), posted <= Take
               PROVE  /\ Range(cache["messages"].data) = 1..posted
                      /\ Len(cache["messages"].data) = posted
    BY DEF ChatIsComplete
  <2>1. PICK list, n : list = cache["messages"].data /\ n = posted
    OBVIOUS
  <2>2. Complete(list, n, pending) /\ n \in Nat
    BY <1>1, <2>1 DEF PageInd, MessagesInd, PageBase, Shapes, quiet
  <2>3. \A id : ChatMessage(id) \notin pending
    BY DEF quiet, pending, about, isChat, ChatMessage
  <2>4. Range(list) = 1..n
    BY <2>2, <2>3 DEF Complete
  <2>5. PICK k : k = Len(list)
    OBVIOUS
  <2>6. list \in Seq(Nat) /\ DOMAIN list = 1..k /\ k \in Nat
    BY <2>2, <2>5, LenProperties DEF Complete
  <2>7. list \in [1..k -> 1..n]
    BY <2>4, <2>6 DEF Range
  <2>8. list \in Bijection(1..k, 1..n)
    BY <2>2, <2>4, <2>6, <2>7 DEF Bijection, Injection, Surjection, IsInjective, Range, Complete
  <2>9. /\ IsFiniteSet(1..k) /\ Cardinality(1..k) = k
        /\ Cardinality(1..n) = n
    BY <2>2, <2>6, FS_Interval
  <2>10. Cardinality(1..n) = Cardinality(1..k)
    BY <2>8, <2>9, FS_Bijection DEF ExistsBijection
  <2> QED
    BY <2>1, <2>4, <2>5, <2>9, <2>10
<1> QED
  BY <1>1, PageInvariance, PTL

=============================================================================
