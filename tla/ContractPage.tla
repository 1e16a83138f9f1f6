----------------------------- MODULE ContractPage -----------------------------
(***************************************************************************)
(* The contract page of one signed-in user, of one milestone: the query    *)
(* cache (lib/hooks.ts, app/providers.tsx), the socket that tells it what  *)
(* has become stale (lib/hooks.ts, realtime/socket.ts), the buttons        *)
(* (contracts/[contractId]/page.tsx) and the chat (chat-panel.tsx).  The   *)
(* other party, the worker and the arbitrator are what they do to the      *)
(* server: commits, and the events sent after them.  Requests, events and  *)
(* the socket are channels of their own: nothing orders one by another.    *)
(***************************************************************************)
EXTENDS Naturals, Sequences, FiniteSets, SequencesExt

CONSTANTS
  Seats,        \* who may look: "client", "freelancer" or "admin"
  Take,         \* GET messages answers this many, the oldest (200 in the code)
  MaxChanges,   \* transitions of the milestone
  MaxMessages,  \* messages that are posted
  MaxFailures,  \* dropped connections, failed requests, failed pushes
  MaxVisits,    \* openings of the page, the chat tab and prompts
  NoData        \* a query that has no answer yet

ASSUME ContractPageAssumption ==
  /\ Seats \subseteq {"client", "freelancer", "admin"}
  /\ Take \in Nat \ {0}
  /\ {MaxChanges, MaxMessages, MaxFailures, MaxVisits} \subseteq Nat
  /\ NoData \notin Seq(Nat)  \* an empty list is an answer

VARIABLES
  seat,         \* who looks
  state, rev,   \* the milestone, and how many transitions led there
  posted,       \* messages 1..posted are in the table
  unsent,       \* events of committed requests that are still to be emitted
  sock,         \* the tab's socket, and the server's side of it
  inbox,        \* events on their way through it
  open, chatOpen,  \* the page is mounted, its chat tab is
  cache,        \* the query cache
  acting,       \* the action a button sent
  prompt,       \* the inline prompt that is open
  failures, visits,
  covered       \* the queries whose answer was read in the room and that heard all since

server == <<state, rev, posted, unsent>>
page == <<open, chatOpen, acting, prompt>>
vars == <<seat, server, sock, inbox, page, cache, failures, visits, covered>>

-----------------------------------------------------------------------------
(* The server. *)

Parties == {"client", "freelancer"}

\* Who may take the milestone from one state to another, through which route.  start and
\* request-changes share one check, that the milestone may become IN_PROGRESS.
Move(from, act, to, who) == [from |-> from, act |-> act, to |-> to, who |-> who]
MOVES ==
  {Move("CREATED", "fund", "FUNDED", {"client"}),
   Move("CREATED", "cancel", "CANCELLED", {"client"}),
   Move("FUNDED", "cancel", "CANCELLED", {"client"}),
   Move("IN_PROGRESS", "submit", "SUBMITTED", {"freelancer"}),
   Move("SUBMITTED", "approve", "RELEASED", {"client", "worker"}),
   Move("DISPUTED", "resolve", "RESOLVED", {"admin"})}
    \union {Move(from, "start", "IN_PROGRESS", {"freelancer"}) : from \in {"FUNDED", "SUBMITTED"}}
    \union {Move(from, "request-changes", "IN_PROGRESS", {"client"}) :
              from \in {"FUNDED", "SUBMITTED"}}
    \union {Move(from, "dispute", "DISPUTED", Parties) :
              from \in {"FUNDED", "IN_PROGRESS", "SUBMITTED"}}

accepted(who, act) == \E mv \in MOVES : mv.from = state /\ mv.act = act /\ who \in mv.who

\* The events of a room: a change of the milestone, and a message, with their numbers.
MilestoneUpdate(id) == [event |-> "milestone:update", id |-> id]
ChatMessage(id) == [event |-> "chat:message", id |-> id]
isChat(e) == e.event = "chat:message"
Nothing == [act |-> "none", step |-> "idle"]
NoSocket == [status |-> "none", joining |-> FALSE, joined |-> FALSE,
             listening |-> FALSE]

Keys == {"contract", "messages"}

\* What a request for a key reads.
onServer(key) ==
  CASE key = "contract" -> [rev |-> rev, state |-> state]
    [] key = "messages" -> [i \in 1..(IF posted < Take THEN posted ELSE Take) |-> i]

Init ==
  /\ seat \in Seats
  /\ state \in {mv.from : mv \in MOVES} /\ rev = 0 /\ posted = 0 /\ unsent = {}
  /\ sock = NoSocket /\ inbox = <<>>
  /\ open = FALSE /\ chatOpen = FALSE
  /\ cache = [key \in Keys |-> [data |-> NoData, got |-> NoData, stale |-> FALSE,
                             fetch |-> "idle"]]
  /\ acting = Nothing /\ prompt = "none"
  /\ failures = 0 /\ visits = 0
  /\ covered = {}

\* The transaction of a transition commits; its event comes after it.
commit(to) ==
  /\ rev < MaxChanges
  /\ state' = to /\ rev' = rev + 1
  /\ unsent' = unsent \union {MilestoneUpdate(rev + 1)}
  /\ UNCHANGED posted

\* Another user, the worker or the arbitrator.
OthersMove ==
  /\ \E mv \in MOVES : mv.from = state /\ mv.who \ {seat} # {} /\ commit(mv.to)
  /\ UNCHANGED <<seat, sock, inbox, page, cache, failures, visits, covered>>

\* POST messages by either party, from this page or another: persisted, then broadcast.
PostMessage ==
  /\ posted < MaxMessages
  /\ posted' = posted + 1
  /\ unsent' = unsent \union {ChatMessage(posted + 1)}
  /\ UNCHANGED <<seat, state, rev, sock, inbox, page, cache, failures, visits, covered>>

\* emitToContract: to the sockets in the room.  Handlers overlap: events need not be sent
\* in the order of their commits.
emitToContract(e) ==
  /\ unsent' = unsent \ {e}
  /\ inbox' = IF sock.joined THEN Append(inbox, e) ELSE inbox
  /\ UNCHANGED <<seat, state, rev, posted, sock, page, cache, failures, visits, covered>>

about(e) == IF isChat(e) THEN {"messages"} ELSE {"contract"}

\* What comes between the commit and the event throws: the event is never sent.
EmitFails(e) ==
  /\ failures < MaxFailures /\ failures' = failures + 1
  /\ unsent' = unsent \ {e}
  /\ covered' = covered \ about(e)
  /\ UNCHANGED <<seat, state, rev, posted, sock, inbox, page, cache, visits>>

-----------------------------------------------------------------------------
(* The query cache. *)

mounted(key) == CASE key = "contract" -> open [] key = "messages" -> chatOpen

firstLoad(key) == cache[key].data = NoData /\ cache[key].fetch # "idle"

\* invalidateQueries: a request under way is given up for a new one, unless it is the
\* first; a query nobody shows is fetched when it is shown again.
FaultyInvalidated(key) ==
  [cache[key] EXCEPT !.fetch = IF mounted(key) /\ @ = "idle" THEN "sent" ELSE @,
                     !.stale = TRUE]
invalidated(key) ==
  [cache[key] EXCEPT !.fetch = IF mounted(key) /\ ~firstLoad(key) THEN "sent" ELSE @,
                     !.stale = TRUE]

\* A query is shown: without an answer, or with one that is stale or 30 seconds old, it
\* is fetched.
shown(key, aged) ==
  [cache[key] EXCEPT !.fetch =
     IF @ = "idle" /\ (cache[key].data = NoData \/ cache[key].stale \/ aged) THEN "sent" ELSE @]

hears == sock.listening /\ sock.joined

\* The server reads; the answer is under way.
Read(key) ==
  /\ cache[key].fetch = "sent"
  /\ cache' = [cache EXCEPT ![key].fetch = "back", ![key].got = onServer(key)]
  /\ covered' = IF hears THEN covered \union {key} ELSE covered \ {key}
  /\ UNCHANGED <<seat, server, sock, inbox, page, failures, visits>>

Arrive(key) ==
  /\ cache[key].fetch = "back"
  /\ cache' = [cache EXCEPT ![key] =
       [data |-> @.got, fetch |-> "idle", got |-> NoData, stale |-> FALSE]]
  /\ UNCHANGED <<seat, server, sock, inbox, page, failures, visits, covered>>

\* After two retries, or at once for a refusal, what was there stays.
FetchFails(key) ==
  /\ cache[key].fetch # "idle" /\ failures < MaxFailures
  /\ failures' = failures + 1
  /\ cache' = [cache EXCEPT ![key].fetch = "idle", ![key].got = NoData]
  /\ covered' = covered \ {key}
  /\ UNCHANGED <<seat, server, sock, inbox, page, visits>>

\* The window is focused, or the network is back, after the 30 seconds of staleTime.
Refetch(key) ==
  /\ cache[key].fetch = "idle" /\ mounted(key)
  /\ cache' = [cache EXCEPT ![key].fetch = "sent"]
  /\ UNCHANGED <<seat, server, sock, inbox, page, failures, visits, covered>>

-----------------------------------------------------------------------------
(* The socket. *)

\* getSocket: the one that is connected, else a new one with the token of the moment.
getSocket ==
  IF sock.status = "connected" THEN [sock EXCEPT !.listening = TRUE, !.joining = TRUE]
  ELSE [NoSocket EXCEPT !.status = "connecting", !.listening = TRUE]

\* The page mounts: its query, its listeners and its request to join.
OpenPage(aged) ==
  /\ ~open /\ visits < MaxVisits
  /\ open' = TRUE /\ visits' = visits + 1
  /\ cache' = [cache EXCEPT !["contract"] = shown("contract", aged)]
  /\ sock' = getSocket
  /\ inbox' = IF sock.status = "connected" THEN inbox ELSE <<>>
  /\ UNCHANGED <<seat, server, chatOpen, acting, prompt, failures, covered>>

\* Its listeners go; the socket stays, and stays in the room.
ClosePage ==
  /\ open
  /\ open' = FALSE /\ chatOpen' = FALSE /\ acting' = Nothing /\ prompt' = "none"
  /\ sock' = [sock EXCEPT !.listening = FALSE]
  /\ covered' = {}
  /\ UNCHANGED <<seat, server, inbox, cache, failures, visits>>

OpenChat(aged) ==
  /\ open /\ ~chatOpen /\ visits < MaxVisits
  /\ chatOpen' = TRUE /\ visits' = visits + 1
  /\ cache' = [cache EXCEPT !["messages"] = shown("messages", aged)]
  /\ UNCHANGED <<seat, server, sock, inbox, open, acting, prompt, failures, covered>>

CloseChat ==
  /\ chatOpen /\ chatOpen' = FALSE
  /\ UNCHANGED <<seat, server, sock, inbox, open, acting, prompt, cache, failures, visits, covered>>

\* io.use: the handshake is refused once the token that the socket was made with has
\* expired, and is not tried again.  On every connect the page asks to join.
Connect ==
  /\ sock.status = "connecting"
  /\ \/ sock' = [sock EXCEPT !.status = "refused"]
     \/ sock' = [sock EXCEPT !.status = "connected", !.joining = sock.listening]
  /\ UNCHANGED <<seat, server, inbox, page, cache, failures, visits, covered>>

\* contract:join, after its own look at the database: a party or an admin.
Join ==
  /\ sock.joining
  /\ sock' = [sock EXCEPT !.joining = FALSE, !.joined = TRUE]
  /\ UNCHANGED <<seat, server, inbox, page, cache, failures, visits, covered>>

\* The connection drops and is sought again; what was on its way is lost.
Drop ==
  /\ sock.status = "connected" /\ failures < MaxFailures
  /\ failures' = failures + 1
  /\ sock' = [sock EXCEPT !.status = "connecting", !.joining = FALSE, !.joined = FALSE]
  /\ inbox' = <<>> /\ covered' = {}
  /\ UNCHANGED <<seat, server, page, cache, visits>>

onMilestone == [cache EXCEPT !["contract"] = invalidated("contract")]

\* setQueryData: only into a list that is there, and only once.
FaultyOnMessage(id) ==
  IF cache["messages"].data = NoData THEN cache
  ELSE [cache EXCEPT !["messages"].data = Append(@, id), !["messages"].stale = FALSE]
onMessage(id) ==
  IF cache["messages"].data = NoData \/ Contains(cache["messages"].data, id) THEN cache
  ELSE [cache EXCEPT !["messages"].data = Append(@, id), !["messages"].stale = FALSE]

\* An answer on its way that was read before what an event tells of, and that the event
\* does not have asked for again: a list without the message, which replaces the one it was
\* appended to, or the page's first look at the contract.
overtaken(e) ==
  IF isChat(e)
    THEN cache["messages"].fetch = "back" /\ ~Contains(cache["messages"].got, e.id)
    ELSE firstLoad("contract") /\ cache["contract"].fetch = "back"
           /\ cache["contract"].got.rev < e.id

Deliver ==
  /\ inbox # <<>> /\ inbox' = Tail(inbox)
  /\ cache' = IF ~sock.listening THEN cache
              ELSE IF isChat(Head(inbox)) THEN onMessage(Head(inbox).id) ELSE onMilestone
  /\ covered' = IF overtaken(Head(inbox)) THEN covered \ about(Head(inbox)) ELSE covered
  /\ UNCHANGED <<seat, server, sock, page, failures, visits>>

-----------------------------------------------------------------------------
(* The milestone's card. *)

isClient == seat = "client"
shownState == cache["contract"].data.state

\* The buttons, from what the page shows.
FaultyOffered ==
  CASE shownState = "CREATED" -> IF isClient THEN {"fund", "cancel"} ELSE {}
    [] shownState = "FUNDED" -> {"dispute", "cancel"} \union (IF isClient THEN {} ELSE {"start"})
    [] shownState = "IN_PROGRESS" -> {"dispute"} \union (IF isClient THEN {} ELSE {"submit"})
    [] shownState = "SUBMITTED" ->
         {"dispute"} \union (IF isClient THEN {"approve", "request-changes"} ELSE {})
    [] OTHER -> {}
offered ==
  CASE shownState = "CREATED" -> IF isClient THEN {"fund", "cancel"} ELSE {}
    [] shownState = "FUNDED" -> {"dispute", IF isClient THEN "cancel" ELSE "start"}
    [] shownState = "IN_PROGRESS" -> {"dispute"} \union (IF isClient THEN {} ELSE {"submit"})
    [] shownState = "SUBMITTED" ->
         {"dispute"} \union (IF isClient THEN {"approve", "request-changes"} ELSE {})
    [] OTHER -> {}

Prompts == {"submit", "request-changes", "dispute", "approve"}
showsCard == open /\ cache["contract"].data # NoData

\* A button with a prompt opens it, and hides the buttons; what is shown may change
\* under it.
OpenPrompt(act) ==
  /\ showsCard /\ prompt = "none" /\ act \in Prompts \intersect offered
  /\ visits < MaxVisits /\ visits' = visits + 1
  /\ prompt' = act
  /\ UNCHANGED <<seat, server, sock, inbox, open, chatOpen, acting, cache, failures, covered>>

ClosePrompt ==
  /\ prompt # "none" /\ prompt' = "none"
  /\ UNCHANGED <<seat, server, sock, inbox, open, chatOpen, acting, cache, failures, visits, covered>>

\* run: a button without a prompt, or the confirmation of one.
run(act) ==
  /\ showsCard /\ acting = Nothing
  /\ IF act \in Prompts THEN prompt = act ELSE prompt = "none" /\ act \in offered
  /\ acting' = [act |-> act, step |-> "sent"]
  /\ UNCHANGED <<seat, server, sock, inbox, open, chatOpen, prompt, cache, failures, visits, covered>>

\* The route checks who asks and in which state, commits, and answers after its event.
Handle ==
  /\ acting.step = "sent"
  /\ \/ /\ ~accepted(seat, acting.act)
        /\ acting' = [acting EXCEPT !.step = "refused"]
        /\ UNCHANGED server
     \/ \E mv \in MOVES :
          /\ mv.from = state /\ mv.act = acting.act /\ seat \in mv.who
          /\ commit(mv.to)
          /\ acting' = [acting EXCEPT !.step = "done"]
  /\ UNCHANGED <<seat, sock, inbox, open, chatOpen, prompt, cache, failures, visits, covered>>

\* onSuccess invalidates what the action changed; a refusal shows its message and leaves
\* the prompt and the page as they are.
Answer ==
  /\ acting.step \in {"refused", "done"}
  /\ IF acting.step = "done" THEN cache' = onMilestone /\ prompt' = "none"
                             ELSE UNCHANGED <<cache, prompt>>
  /\ acting' = Nothing
  /\ UNCHANGED <<seat, server, sock, inbox, open, chatOpen, failures, visits, covered>>

Actions == {mv.act : mv \in MOVES}

Next ==
  \/ OthersMove \/ PostMessage
  \/ \E e \in unsent : emitToContract(e) \/ EmitFails(e)
  \/ \E key \in Keys : Read(key) \/ Arrive(key) \/ FetchFails(key) \/ Refetch(key)
  \/ \E aged \in BOOLEAN : OpenPage(aged) \/ OpenChat(aged)
  \/ ClosePage \/ CloseChat \/ Connect \/ Join \/ Drop \/ Deliver
  \/ \E act \in Actions : OpenPrompt(act) \/ run(act)
  \/ ClosePrompt \/ Handle \/ Answer

Spec == Init /\ [][Next]_vars

-----------------------------------------------------------------------------
(* Properties. *)

\* Nothing about these keys is on its way: no event, no request.
quiet(keys) ==
  /\ \A key \in keys : cache[key].fetch = "idle"
  /\ \A e \in Range(inbox) \union unsent : about(e) \intersect keys = {}

\* "A milestone state change must appear for the counterparty immediately" (hooks.ts:178):
\* a page that has listened in the room since its answer was read shows the server's state
\* as soon as nothing is under way, if its first look was not overtaken by a change; and the
\* buttons it then offers a party (page.tsx:173) are transitions the server accepts.
LiveViewIsTrue ==
  open /\ "contract" \in covered /\ quiet({"contract"})
    => /\ cache["contract"].data = onServer("contract")
       /\ seat \in Parties => \A act \in offered : accepted(seat, act)

\* The chat shows every message once, as soon as nothing is under way, if the list was read
\* in the room, was not overtaken by a message, and is not longer than a request takes.
ChatIsComplete ==
  "messages" \in covered /\ quiet({"messages"}) /\ posted <= Take
    => LET list == cache["messages"].data IN
       Range(list) = 1..posted /\ Len(list) = posted

=============================================================================
