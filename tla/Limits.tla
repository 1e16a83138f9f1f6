-------------------------------- MODULE Limits --------------------------------
(***************************************************************************)
(* The fixed-window rate limiter (middleware/rate-limit.ts) on the Redis   *)
(* client of lib/redis.ts, in front of the routes as app.ts mounts them,   *)
(* and the login form that counts a lockout down.  All callers here share  *)
(* one address, hence one counter per limiter.  A limiter sends Redis up   *)
(* to two commands, and other requests, the clock, a lost connection or a  *)
(* stop of the process can come between them.                              *)
(***************************************************************************)
EXTENDS Naturals, Sequences

CONSTANTS
  Callers,          \* pages and forms of one address, one request at a time each
  Forms,            \* those of them that are a login form
  Limiters,         \* the two limiters: "api" and "auth"
  Limit,            \* requests a window permits
  Window,           \* its length, in ticks
  DefaultCooldown,  \* what the form waits when it is not told how long
  MaxFailures

ASSUME LimitsAssumption ==
  /\ Forms \subseteq Callers /\ Limiters = {"api", "auth"}
  /\ Limit \in [Limiters -> Nat \ {0}] /\ Window \in [Limiters -> Nat \ {0}]
  /\ DefaultCooldown \in Nat \ {0} /\ MaxFailures \in Nat

VARIABLES
  count,      \* the counter of each limiter in Redis, 0 without a key
  ttl,        \* ticks until its key expires, 0 when no expiry is set
  connected,  \* the API can reach Redis
  call,       \* the request of each caller
  cooldown,   \* what a form still counts down
  told,       \* what is left of the Retry-After the server last sent the form
  failures,
  orphaned,   \* limiters whose key was left without an expiry
  recent      \* admissions: recent[l][a] of them since the clock ticked a + 1 times ago

vars == <<count, ttl, connected, call, cooldown, told, failures, orphaned, recent>>

-----------------------------------------------------------------------------

\* Which limiters a request passes, in the order they are mounted: all of /api
\* through the general one; login, register and the start of a Google sign-in through the
\* strict one as well.
loginRoute == <<"api", "auth">>
pageRoute == <<"api">>

Idle == [route |-> <<>>, step |-> "idle", got |-> 0, again |-> FALSE]
Sent(route, again) == [route |-> route, step |-> "incr", got |-> 0, again |-> again]

limiter(k) == Head(call[k].route)

\* Counting past what is refused tells nothing more: the counter stops there.
atMost(l, n) == IF n <= Limit[l] THEN n ELSE Limit[l] + 1

FaultyAdmitted(l, n) == n <= Limit[l] + 1
admitted(l, n) == n <= Limit[l]

FaultyFirst(n) == TRUE
FaultyFirstOfOldValue(n) == n = 0
first(n) == n = 1

To(k, step) == call' = [call EXCEPT ![k].step = step]

\* next(): the next limiter of the route, or the handler behind them.
pass(k) ==
  call' = [call EXCEPT ![k] =
    IF Len(@.route) > 1 THEN Sent(Tail(@.route), @.again)
                        ELSE [@ EXCEPT !.step = "handled"]]

\* What follows an INCR that answered n.
counted(k, n) ==
  LET l == limiter(k) IN
  IF first(n) THEN call' = [call EXCEPT ![k].step = "expire", ![k].got = n]
  ELSE IF ~admitted(l, n) THEN call' = [call EXCEPT ![k].step = "ttl", ![k].got = n]
  ELSE pass(k)

admit(l, n) ==
  recent' = IF admitted(l, n)
              THEN [recent EXCEPT ![l] = [a \in 0..Window[l] - 1 |-> recent[l][a] + 1]]
              ELSE recent

Init ==
  /\ count = [l \in Limiters |-> 0] /\ ttl = [l \in Limiters |-> 0]
  /\ connected = TRUE
  /\ call = [k \in Callers |-> Idle]
  /\ cooldown = [k \in Forms |-> 0] /\ told = [k \in Forms |-> 0]
  /\ failures = 0 /\ orphaned = {}
  /\ recent = [l \in Limiters |-> [a \in 0..Window[l] - 1 |-> 0]]

-----------------------------------------------------------------------------
(* The browser. *)

\* The button is locked while a cooldown runs.
onSubmit(k) ==
  /\ call[k] = Idle /\ cooldown[k] = 0
  /\ call' = [call EXCEPT ![k] = Sent(loginRoute, FALSE)]
  /\ UNCHANGED <<count, ttl, connected, cooldown, told, failures, orphaned, recent>>

\* Another page's request, which nothing holds back.
visit(k) ==
  /\ call[k] = Idle
  /\ call' = [call EXCEPT ![k] = Sent(pageRoute, FALSE)]
  /\ UNCHANGED <<count, ttl, connected, cooldown, told, failures, orphaned, recent>>

\* The browser keeps Retry-After from a page of another origin, since the API's CORS
\* answer exposes no header: headers.get is null, Number(null) is 0, hence undefined.
exposedHeaders == {}
retryAfter(n) == IF "Retry-After" \in exposedHeaders THEN n ELSE 0

onRefused(k, n) ==
  /\ told' = [told EXCEPT ![k] = n]
  /\ cooldown' = [cooldown EXCEPT ![k] = IF retryAfter(n) > 0 THEN retryAfter(n) ELSE DefaultCooldown]

Answered(k) ==
  /\ call[k].step \in {"handled", "failed"}
  /\ call' = [call EXCEPT ![k] = Idle]
  /\ UNCHANGED <<count, ttl, connected, cooldown, told, failures, orphaned, recent>>

\* A wrong password is a 401 like any other to apiRequest: while an old session is still
\* alive it is refreshed, past the general limiter only, and the login is sent again.
Unauthorized(k) ==
  /\ call[k].step = "handled" /\ call[k].route = <<"auth">> /\ ~call[k].again
  /\ call' = [call EXCEPT ![k] = Sent(pageRoute \o loginRoute, TRUE)]
  /\ UNCHANGED <<count, ttl, connected, cooldown, told, failures, orphaned, recent>>

-----------------------------------------------------------------------------
(* The limiter: INCR, then EXPIRE or TTL if it takes one. *)

incr(k) ==
  LET l == limiter(k)
      n == atMost(l, count[l] + 1)
  IN
  /\ connected /\ call[k].step = "incr"
  /\ count' = [count EXCEPT ![l] = n]
  /\ counted(k, n) /\ admit(l, n)
  /\ UNCHANGED <<ttl, connected, cooldown, told, failures, orphaned>>

\* The first request of a window sets its end; count 1 is never over the limit.
expire(k) ==
  LET l == limiter(k) IN
  /\ connected /\ call[k].step = "expire"
  /\ ttl' = IF count[l] = 0 THEN ttl ELSE [ttl EXCEPT ![l] = Window[l]]
  /\ orphaned' = IF count[l] = 0 THEN orphaned ELSE orphaned \ {l}
  /\ IF admitted(l, call[k].got) THEN pass(k) ELSE To(k, "ttl")
  /\ UNCHANGED <<count, connected, cooldown, told, failures, recent>>

\* Over the limit: 429 with what is left of the window, at least one second.
refuse(k) ==
  LET n == IF ttl[limiter(k)] > 1 THEN ttl[limiter(k)] ELSE 1 IN
  /\ connected /\ call[k].step = "ttl"
  /\ call' = [call EXCEPT ![k] = Idle]
  /\ IF k \in Forms THEN onRefused(k, n) ELSE UNCHANGED <<told, cooldown>>
  /\ UNCHANGED <<count, ttl, connected, failures, orphaned, recent>>

waits(k) == call[k].step \in {"incr", "expire", "ttl"}

orphan(k) ==
  orphaned' = IF call[k].step = "expire" THEN orphaned \union {limiter(k)} ELSE orphaned

\* Redis answers with an error (out of memory, read-only): the limiter fails open, also
\* for a request it had counted as one too many.
failOpen(k) ==
  /\ connected /\ waits(k) /\ failures < MaxFailures
  /\ pass(k) /\ orphan(k)
  /\ failures' = failures + 1
  /\ UNCHANGED <<count, ttl, connected, cooldown, told, recent>>

-----------------------------------------------------------------------------
(* Time and failures. *)

Tick ==
  /\ ttl' = [l \in Limiters |-> IF ttl[l] > 0 THEN ttl[l] - 1 ELSE 0]
  /\ count' = [l \in Limiters |-> IF ttl[l] = 1 THEN 0 ELSE count[l]]
  /\ cooldown' = [k \in Forms |-> IF cooldown[k] > 0 THEN cooldown[k] - 1 ELSE 0]
  /\ told' = [k \in Forms |-> IF told[k] > 0 THEN told[k] - 1 ELSE 0]
  /\ recent' = [l \in Limiters |-> [a \in 0..Window[l] - 1 |->
                  IF a = 0 THEN 0 ELSE recent[l][a - 1]]]
  /\ UNCHANGED <<connected, call, failures, orphaned>>

\* Redis becomes unreachable.  maxRetriesPerRequest is null, so a command waits in the
\* client's queue for the connection instead of being rejected.
Outage ==
  /\ connected /\ failures < MaxFailures
  /\ connected' = FALSE /\ failures' = failures + 1
  /\ UNCHANGED <<count, ttl, call, cooldown, told, orphaned, recent>>

reconnect ==
  /\ ~connected /\ connected' = TRUE
  /\ UNCHANGED <<count, ttl, call, cooldown, told, failures, orphaned, recent>>

\* The connection breaks between an INCR and its answer: the client sends it again.
Resent(k) ==
  LET l == limiter(k)
      n == atMost(l, count[l] + 2)
  IN
  /\ connected /\ call[k].step = "incr" /\ failures < MaxFailures
  /\ count' = [count EXCEPT ![l] = n]
  /\ counted(k, n) /\ admit(l, n)
  /\ orphaned' = IF count[l] = 0 THEN orphaned \union {l} ELSE orphaned
  /\ failures' = failures + 1
  /\ UNCHANGED <<ttl, connected, cooldown, told>>

\* The process stops: every request under way ends without an answer.
Restart ==
  /\ failures < MaxFailures
  /\ call' = [k \in Callers |-> IF call[k] = Idle THEN Idle ELSE [call[k] EXCEPT !.step = "failed"]]
  /\ orphaned' = orphaned \union {limiter(k) : k \in {j \in Callers : call[j].step = "expire"}}
  /\ failures' = failures + 1
  /\ UNCHANGED <<count, ttl, connected, cooldown, told, recent>>

Serve(k) == incr(k) \/ expire(k) \/ refuse(k) \/ Answered(k)

Next ==
  \/ \E k \in Forms : onSubmit(k)
  \/ \E k \in Callers \ Forms : visit(k)
  \/ \E k \in Callers : Serve(k) \/ Unauthorized(k) \/ failOpen(k) \/ Resent(k)
  \/ Tick \/ Outage \/ reconnect \/ Restart

Spec == Init /\ [][Next]_vars

\* The server and an answering Redis serve who waits, and time passes.
Fairness == (\A k \in Callers : WF_vars(Serve(k))) /\ WF_vars(Tick)

\* Nobody says when Redis comes back.
OutageSpec == Spec /\ Fairness

FairSpec == Spec /\ Fairness /\ WF_vars(reconnect)

-----------------------------------------------------------------------------

\* Types; and a key has an expiry unless the request that sets it is still on its way, or
\* never came: rate-limit.ts:44 is two commands.
Inv ==
  /\ \A l \in Limiters :
       /\ count[l] \in 0..Limit[l] + 1 /\ ttl[l] \in 0..Window[l]
       /\ count[l] = 0 => ttl[l] = 0
       /\ count[l] > 0 /\ ttl[l] = 0 =>
            l \in orphaned \/ \E k \in Callers : call[k].step = "expire" /\ limiter(k) = l
  /\ \A k \in Callers : waits(k) => call[k].route # <<>>
  /\ failures \in 0..MaxFailures /\ orphaned \subseteq Limiters

\* "Fixed window admits up to 2x burst across a window boundary" (rate-limit.ts:23), and
\* never more: whatever 429s, resent commands, outages and stops happen, at most twice
\* the maximum is counted in within any stretch of the window's length.
TwiceAtMost == \A l \in Limiters : recent[l][Window[l] - 1] <= 2 * Limit[l]

\* A window ends, whoever keeps knocking: "otherwise the window slides forward on every
\* hit and never expires under sustained load" (rate-limit.ts:42-43).  Not so when its
\* key lost its expiry.
WindowEnds ==
  \A l \in Limiters : count[l] > 0 ~> (count[l] = 0 \/ l \in orphaned)

\* lib/api.ts:19-24 has the form count down what the server said: when it unlocks,
\* the lock is over.  Does not hold: see the known gaps in the README.
UnlocksInTime == \A k \in Forms : cooldown[k] = 0 => told[k] = 0

\* "A Redis outage should degrade rate limiting, not take down login for everyone"
\* (rate-limit.ts:59): with Redis gone for good, every request is still answered.
\* Does not hold under OutageSpec: see the known gaps in the README.
RequestsAreAnswered == \A k \in Callers : waits(k) ~> ~waits(k)

=============================================================================
