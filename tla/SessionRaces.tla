---------------------------- MODULE SessionRaces ----------------------------
(***************************************************************************)
(* Sessions with the memory of what overlapped, to say what holds of a     *)
(* browser that never met the races the code leaves open: two tabs that    *)
(* exchange one token at once (lib/api.ts shares a refresh within a tab    *)
(* only), and a session that ends while another refresh of it is under way *)
(* (token.service.ts inserts the successor after the rotation committed).  *)
(***************************************************************************)
EXTENDS Sessions

VARIABLES
  tabsRaced,   \* two tabs were refreshing with one token
  endRaced     \* a session was being ended while it was being refreshed

Refreshing(c) == call[c].op = "refresh"

TabsRace ==
  \E c, d \in Calls :
    /\ Refreshing(c) /\ Refreshing(d)
    /\ call[c].tab # call[d].tab
    /\ call[c].presented = call[d].presented

EndRaces ==
  \E c, d \in Calls :
    /\ c # d /\ Refreshing(d)
    /\ call[c].op = "logout" \/ call[c].step = "reuse"

RacesInit == Init /\ tabsRaced = FALSE /\ endRaced = FALSE

RacesNext ==
  /\ Next
  /\ tabsRaced' = (tabsRaced \/ TabsRace')
  /\ endRaced' = (endRaced \/ EndRaces')

RacesSpec == RacesInit /\ [][RacesNext]_<<vars, tabsRaced, endRaced>>

-----------------------------------------------------------------------------

\* In one tab the single flight does what it is for: without failures, a used token
\* is presented again only after its session was logged out.
ReuseIsNoAccident ==
  failures = 0 /\ ~tabsRaced
    => \A c \in Calls : call[c].step = "reuse" => familyOf(c) \in loggedOut

\* When every answer has arrived, however the answers of refreshes, logins and
\* logouts crossed, the cookie the browser keeps is not one the server has revoked.
CookieWorks ==
  failures = 0 /\ ~tabsRaced /\ (\A c \in Calls : call[c] = NoOne)
    => cookie \notin revoked

\* A session the user ended is over: no token of its family works.
LogoutEndsSession == failures = 0 /\ ~endRaced => \A f \in loggedOut : live(f) = {}

\* A family revoked for reuse stays dead, whatever is lost, retried or reloaded,
\* unless one of its tokens was just then being exchanged.
ReuseKillsFamily == ~endRaced => \A f \in burnt : live(f) = {}

=============================================================================
