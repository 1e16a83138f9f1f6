---------------------------- MODULE LimitsProofs ----------------------------
(***************************************************************************)
(* The rate limiter for any limits, windows, callers and failures.  Why a  *)
(* burst is at most twice the limit: what the window that is open has      *)
(* admitted is at most its counter, and nothing older than the window      *)
(* before it is young enough to count, since a window is never shorter     *)
(* than its length, whoever sets its end, and however late.                *)
(***************************************************************************)
EXTENDS Limits, SequenceTheorems, TLAPS

-----------------------------------------------------------------------------
(* One window. *)

atMostBoth(m, n) == IF m < n THEN m ELSE n

\* A counter c with t ticks to live, and r[a] admissions since the clock ticked a + 1 times
\* ago, for a limit L and a window of W ticks: as far back as the window surely reaches,
\* only its own admissions are seen, and farther back those of one window more.
FitsWindow(c, t, r, L, W) ==
  /\ c \in 0..L + 1 /\ t \in 0..W /\ r \in [0..W - 1 -> Nat]
  /\ c = 0 => t = 0
  /\ \A a, b \in 0..W - 1 : a <= b => r[a] <= r[b]
  /\ r[W - 1] <= L + atMostBoth(c, L)
  /\ t > 0 => \A a \in 0..W - 1 - t : r[a] <= atMostBoth(c, L)

\* A request that is counted, once or twice, and admitted if its count is within the limit.
LEMMA Counts ==
  ASSUME NEW L \in Nat \ {0}, NEW W \in Nat \ {0}, NEW c, NEW t, NEW r,
         FitsWindow(c, t, r, L, W),
         NEW n \in 1..L + 1, n > c \/ n = L + 1,
         NEW q, q = IF n <= L THEN [a \in 0..W - 1 |-> r[a] + 1] ELSE r
  PROVE  FitsWindow(n, t, q, L, W)
<1>1. /\ c \in 0..L + 1 /\ t \in 0..W /\ r \in [0..W - 1 -> Nat]
      /\ \A a, b \in 0..W - 1 : a <= b => r[a] <= r[b]
      /\ r[W - 1] <= L + atMostBoth(c, L)
      /\ t > 0 => \A a \in 0..W - 1 - t : r[a] <= atMostBoth(c, L)
  BY DEF FitsWindow
<1>2. CASE n <= L
  <2>1. /\ q = [a \in 0..W - 1 |-> r[a] + 1]
        /\ atMostBoth(c, L) = c /\ atMostBoth(n, L) = n /\ c + 1 <= n
    BY <1>1, <1>2 DEF atMostBoth
  <2>2. q \in [0..W - 1 -> Nat] /\ \A a \in 0..W - 1 : q[a] = r[a] + 1 /\ r[a] \in Nat
    BY <1>1, <2>1
  <2>3. n \in 0..L + 1 /\ n # 0 /\ c \in Nat /\ W - 1 \in 0..W - 1
    BY <1>1
  <2>4. \A a, b \in 0..W - 1 : a <= b => q[a] <= q[b]
    BY <1>1, <2>2
  <2>5. q[W - 1] <= L + n
    BY <1>1, <2>1, <2>2, <2>3
  <2>6. t > 0 => \A a \in 0..W - 1 - t : q[a] <= n
    <3>1. \A a \in 0..W - 1 - t : t > 0 => a \in 0..W - 1
      BY <1>1
    <3>2. t > 0 => \A a \in 0..W - 1 - t : r[a] <= c
      BY <1>1, <2>1
    <3>3. ASSUME t > 0, NEW a \in 0..W - 1 - t
          PROVE  q[a] <= n
      <4>1. q[a] = r[a] + 1 /\ r[a] \in Nat /\ r[a] <= c
        BY <2>2, <3>1, <3>2, <3>3
      <4>2. PICK before : before = r[a]
        OBVIOUS
      <4> QED
        BY <2>1, <2>3, <4>1, <4>2
    <3> QED
      BY <3>3
  <2> QED
    BY <1>1, <2>1, <2>2, <2>3, <2>4, <2>5, <2>6 DEF FitsWindow
<1>3. CASE n > L
  <2>1. q = r /\ n = L + 1 /\ atMostBoth(n, L) = L /\ atMostBoth(c, L) <= L
    BY <1>1, <1>3 DEF atMostBoth
  <2>2. \A a \in 0..W - 1 : r[a] \in Nat
    BY <1>1
  <2> QED
    BY <1>1, <2>1, <2>2 DEF FitsWindow, atMostBoth
<1> QED
  BY <1>2, <1>3

\* The end of a window is set, its length from now: nothing of it is surely past.
LEMMA Lives ==
  ASSUME NEW L \in Nat \ {0}, NEW W \in Nat \ {0}, NEW c, NEW t, NEW r,
         FitsWindow(c, t, r, L, W), c > 0
  PROVE  FitsWindow(c, W, r, L, W)
<1>1. \A a \in 0..W - 1 - W : FALSE
  OBVIOUS
<1> QED
  BY <1>1 DEF FitsWindow

\* A tick, which may be the last of the window: then what is still young enough to count
\* was admitted in it.
LEMMA Passes ==
  ASSUME NEW L \in Nat \ {0}, NEW W \in Nat \ {0}, NEW c, NEW t, NEW r,
         FitsWindow(c, t, r, L, W),
         NEW d, d = IF t = 1 THEN 0 ELSE c,
         NEW u, u = IF t > 0 THEN t - 1 ELSE 0,
         NEW q, q = [a \in 0..W - 1 |-> IF a = 0 THEN 0 ELSE r[a - 1]]
  PROVE  FitsWindow(d, u, q, L, W)
<1>1. /\ c \in 0..L + 1 /\ t \in 0..W /\ r \in [0..W - 1 -> Nat]
      /\ c = 0 => t = 0
      /\ \A a, b \in 0..W - 1 : a <= b => r[a] <= r[b]
      /\ r[W - 1] <= L + atMostBoth(c, L)
      /\ t > 0 => \A a \in 0..W - 1 - t : r[a] <= atMostBoth(c, L)
  BY DEF FitsWindow
<1>2. d \in 0..L + 1 /\ u \in 0..W /\ (d = 0 => u = 0)
  BY <1>1
<1>3. /\ q[0] = 0
      /\ \A a \in 1..W - 1 : q[a] = r[a - 1] /\ a - 1 \in 0..W - 1 /\ r[a - 1] \in Nat
  BY <1>1
<1>4. q \in [0..W - 1 -> Nat]
  BY <1>1
<1>5. \A a, b \in 0..W - 1 : a <= b => q[a] <= q[b]
  <2> SUFFICES ASSUME NEW a \in 0..W - 1, NEW b \in 0..W - 1, a <= b PROVE q[a] <= q[b]
    OBVIOUS
  <2>1. CASE a = 0
    BY <1>3, <1>4, <2>1
  <2>2. CASE a > 0
    <3>1. a \in 1..W - 1 /\ b \in 1..W - 1 /\ a - 1 <= b - 1
      BY <2>2
    <3> QED
      BY <1>1, <1>3, <3>1
  <2> QED
    BY <2>1, <2>2
<1>6. u > 0 => \A a \in 0..W - 1 - u : q[a] <= atMostBoth(d, L)
  <2> SUFFICES ASSUME u > 0, NEW a \in 0..W - 1 - u PROVE q[a] <= atMostBoth(d, L)
    OBVIOUS
  <2>1. d = c /\ u = t - 1 /\ t > 1 /\ atMostBoth(d, L) \in Nat
    BY <1>1 DEF atMostBoth
  <2>2. CASE a = 0
    BY <1>3, <2>1, <2>2
  <2>3. CASE a > 0
    <3>1. a \in 1..W - 1 /\ a - 1 \in 0..W - 1 - t
      BY <1>1, <2>1, <2>3
    <3> QED
      BY <1>1, <1>3, <2>1, <3>1
  <2> QED
    BY <2>2, <2>3
<1>7. q[W - 1] <= L + atMostBoth(d, L)
  <2>1. atMostBoth(d, L) \in Nat /\ atMostBoth(0, L) = 0 /\ atMostBoth(c, L) <= L
    BY <1>1, <1>2 DEF atMostBoth
  <2>2. CASE W = 1
    BY <1>3, <2>1, <2>2
  <2>3. CASE W > 1 /\ t = 1
    <3>1. W - 1 \in 1..W - 1 /\ W - 2 \in 0..W - 1 - t
      BY <2>3
    <3>2. q[W - 1] = r[W - 2] /\ r[W - 2] <= atMostBoth(c, L) /\ d = 0
      BY <1>1, <1>3, <2>3, <3>1
    <3>3. r[W - 2] \in Nat /\ atMostBoth(c, L) \in Nat
      BY <1>1, <3>1 DEF atMostBoth
    <3> QED
      BY <2>1, <3>2, <3>3
  <2>4. CASE W > 1 /\ t # 1
    <3>1. W - 1 \in 1..W - 1 /\ W - 2 \in 0..W - 1 /\ W - 2 <= W - 1
      BY <2>4
    <3>2. q[W - 1] = r[W - 2] /\ r[W - 2] <= r[W - 1] /\ d = c
      BY <1>1, <1>3, <2>4, <3>1
    <3>3. r[W - 2] \in Nat /\ r[W - 1] \in Nat
      BY <1>1, <3>1
    <3> QED
      BY <1>1, <2>1, <3>2, <3>3
  <2> QED
    BY <2>2, <2>3, <2>4
<1> QED
  BY <1>2, <1>4, <1>5, <1>6, <1>7 DEF FitsWindow

-----------------------------------------------------------------------------
(* The invariant. *)

Steps == {"idle", "incr", "expire", "ttl", "handled", "failed"}

Call == [route : Seq(Limiters), step : Steps, got : Nat, again : BOOLEAN]

Shapes ==
  /\ call \in [Callers -> Call] /\ \A k \in Callers : waits(k) => call[k].route # <<>>
  /\ count \in [Limiters -> Nat] /\ ttl \in [Limiters -> Nat]
  /\ recent = [l \in Limiters |-> recent[l]]
  /\ failures \in 0..MaxFailures /\ orphaned \subseteq Limiters

Windows ==
  \A l \in Limiters : FitsWindow(count[l], ttl[l], recent[l], Limit[l], Window[l])

setsEnd(k, l) == call[k].step = "expire" /\ limiter(k) = l

\* One request at most is about to set the end of a window, and the window has none yet.
EndSetOnce ==
  \A l \in Limiters : \A k \in Callers : setsEnd(k, l) =>
    /\ count[l] > 0 /\ ttl[l] = 0
    /\ \A j \in Callers : setsEnd(j, l) => j = k

EndComes ==
  \A l \in Limiters : count[l] > 0 /\ ttl[l] = 0 =>
    l \in orphaned \/ \E k \in Callers : setsEnd(k, l)

LimitsInd == Shapes /\ Windows /\ EndSetOnce /\ EndComes

\* The routes there are, and what a limiter is told.
LEMMA RoutesFit ==
  /\ loginRoute \in Seq(Limiters) /\ loginRoute # <<>>
  /\ pageRoute \in Seq(Limiters) /\ pageRoute # <<>>
  /\ pageRoute \o loginRoute \in Seq(Limiters) /\ pageRoute \o loginRoute # <<>>
BY LimitsAssumption DEF loginRoute, pageRoute

\* A call that waits is at a limiter.
LEMMA AtLimiter ==
  ASSUME Shapes, NEW k \in Callers, waits(k)
  PROVE  limiter(k) \in Limiters
BY DEF Shapes, Call, limiter

\* What one caller's request becomes leaves the others' alone.
Becomes(k, c) == call' = [call EXCEPT ![k] = c]

LEMMA CallFits ==
  ASSUME Shapes, NEW k \in Callers, NEW c \in Call, Becomes(k, c),
         c.step \in {"incr", "expire", "ttl"} => c.route # <<>>
  PROVE  /\ call' \in [Callers -> Call]
         /\ (\A j \in Callers : waits(j) => call[j].route # <<>>)'
         /\ call'[k] = c /\ \A j \in Callers \ {k} : call'[j] = call[j]
<1>1. call' \in [Callers -> Call] /\ call'[k] = c /\ \A j \in Callers \ {k} : call'[j] = call[j]
  BY DEF Shapes, Becomes
<1> QED
  BY <1>1 DEF Shapes, waits

\* A request that passes a limiter is at the next or with its handler.
LEMMA Passed ==
  ASSUME Shapes, NEW k \in Callers, waits(k), pass(k)
  PROVE  \E c \in Call : /\ Becomes(k, c) /\ c.step \in {"incr", "handled"}
                         /\ c.step = "incr" => c.route # <<>>
<1>1. call[k] \in Call /\ call[k].route # <<>> /\ call[k].route \in Seq(Limiters)
  BY DEF Shapes, Call
<1>2. CASE Len(call[k].route) > 1
  <2>1. PICK c : c = Sent(Tail(call[k].route), call[k].again)
    OBVIOUS
  <2>2. Tail(call[k].route) \in Seq(Limiters) /\ Tail(call[k].route) # <<>>
    BY <1>1, <1>2
  <2>3. c \in Call /\ c.step = "incr" /\ c.route # <<>>
    BY <1>1, <2>1, <2>2 DEF Sent, Call, Steps
  <2>4. Becomes(k, c)
    BY <1>2, <2>1 DEF pass, Becomes
  <2> QED
    BY <2>3, <2>4
<1>3. CASE ~(Len(call[k].route) > 1)
  <2>1. PICK c : c = [call[k] EXCEPT !.step = "handled"]
    OBVIOUS
  <2>2. c \in Call /\ c.step = "handled"
    BY <1>1, <2>1 DEF Call, Steps
  <2>3. Becomes(k, c)
    BY <1>3, <2>1 DEF pass, Becomes
  <2> QED
    BY <2>2, <2>3
<1> QED
  BY <1>2, <1>3

\* A request that stays at its limiter for another command.
LEMMA Stays ==
  ASSUME Shapes, NEW k \in Callers, waits(k), NEW step \in {"expire", "ttl"}, NEW n \in Nat,
         \/ call' = [call EXCEPT ![k].step = step, ![k].got = n]
         \/ call' = [call EXCEPT ![k].step = step]
  PROVE  \E c \in Call : /\ Becomes(k, c) /\ c.step = step
                         /\ c.route = call[k].route /\ c.route # <<>>
<1>1. call[k] \in Call /\ call[k].route # <<>> /\ call[k].route \in Seq(Limiters)
  BY DEF Shapes, Call
<1>2. CASE call' = [call EXCEPT ![k].step = step, ![k].got = n]
  <2>1. PICK c : c = [call[k] EXCEPT !.step = step, !.got = n]
    OBVIOUS
  <2>2. c \in Call /\ c.step = step /\ c.route = call[k].route
    BY <1>1, <2>1 DEF Call, Steps
  <2>3. Becomes(k, c)
    BY <1>1, <1>2, <2>1 DEF Becomes, Shapes
  <2> QED
    BY <1>1, <2>2, <2>3
<1>3. CASE call' = [call EXCEPT ![k].step = step]
  <2>1. PICK c : c = [call[k] EXCEPT !.step = step]
    OBVIOUS
  <2>2. c \in Call /\ c.step = step /\ c.route = call[k].route
    BY <1>1, <2>1 DEF Call, Steps
  <2>3. Becomes(k, c)
    BY <1>3, <2>1 DEF Becomes
  <2> QED
    BY <1>1, <2>2, <2>3
<1> QED
  BY <1>2, <1>3

-----------------------------------------------------------------------------
(* The steps. *)

\* A command INCR, executed once or, when the connection breaks, twice.
LEMMA CountStep ==
  ASSUME LimitsInd, NEW k \in Callers, call[k].step = "incr",
         NEW l, l = limiter(k), NEW m \in {1, 2}, NEW n, n = atMost(l, count[l] + m),
         count' = [count EXCEPT ![l] = n], counted(k, n), admit(l, n), ttl' = ttl,
         orphaned' = IF m = 2 /\ count[l] = 0 THEN orphaned \union {l} ELSE orphaned,
         failures' \in 0..MaxFailures
  PROVE  LimitsInd'
<1>1. /\ l \in Limiters /\ Limit[l] \in Nat \ {0} /\ Window[l] \in Nat \ {0}
      /\ count[l] \in Nat /\ ttl[l] \in Nat /\ count[l] <= Limit[l] + 1 /\ waits(k)
      /\ (count[l] = 0 => ttl[l] = 0)
  <2>1. waits(k)
    BY DEF waits
  <2>2. l \in Limiters /\ Limit[l] \in Nat \ {0} /\ Window[l] \in Nat \ {0}
    BY <2>1, AtLimiter, LimitsAssumption DEF LimitsInd
  <2>3. count[l] \in Nat /\ ttl[l] \in Nat
    BY <2>2 DEF LimitsInd, Shapes
  <2>4. FitsWindow(count[l], ttl[l], recent[l], Limit[l], Window[l])
    BY <2>2 DEF LimitsInd, Windows
  <2>5. count[l] <= Limit[l] + 1 /\ (count[l] = 0 => ttl[l] = 0)
    <3>1. PICK d : d = count[l]
      OBVIOUS
    <3>2. d \in 0..Limit[l] + 1 /\ (d = 0 => ttl[l] = 0)
      BY <2>4, <3>1 DEF FitsWindow
    <3> QED
      BY <2>2, <3>1, <3>2
  <2> QED
    BY <2>1, <2>2, <2>3, <2>5
<1>2. /\ n \in 1..Limit[l] + 1 /\ (n > count[l] \/ n = Limit[l] + 1)
      /\ n = 1 <=> m = 1 /\ count[l] = 0
  BY <1>1 DEF atMost
<1>3. /\ count' \in [Limiters -> Nat] /\ count'[l] = n
      /\ \A i \in Limiters \ {l} : count'[i] = count[i]
  BY <1>1, <1>2 DEF LimitsInd, Shapes
<1>4. PICK q : q = IF n <= Limit[l] THEN [a \in 0..Window[l] - 1 |-> recent[l][a] + 1]
                                    ELSE recent[l]
  OBVIOUS
<1>5. /\ recent' = [i \in Limiters |-> recent'[i]] /\ recent'[l] = q
      /\ \A i \in Limiters \ {l} : recent'[i] = recent[i]
  BY <1>1, <1>4 DEF LimitsInd, Shapes, admit, admitted
<1>6. Windows'
  <2>1. FitsWindow(n, ttl[l], q, Limit[l], Window[l])
    <3>1. PICK L, W, d, t, r : L = Limit[l] /\ W = Window[l] /\ d = count[l]
                               /\ t = ttl[l] /\ r = recent[l]
      OBVIOUS
    <3>2. FitsWindow(d, t, r, L, W)
      BY <1>1, <3>1 DEF LimitsInd, Windows
    <3>3. /\ L \in Nat \ {0} /\ W \in Nat \ {0} /\ n \in 1..L + 1 /\ (n > d \/ n = L + 1)
          /\ q = IF n <= L THEN [a \in 0..W - 1 |-> r[a] + 1] ELSE r
      BY <1>1, <1>2, <1>4, <3>1
    <3>4. FitsWindow(n, t, q, L, W)
      BY <3>2, <3>3, Counts
    <3> QED
      BY <3>1, <3>4
  <2> QED
    BY <1>3, <1>5, <2>1 DEF LimitsInd, Windows
<1>7. PICK c \in Call :
        /\ Becomes(k, c) /\ (c.step \in {"incr", "expire", "ttl"} => c.route # <<>>)
        /\ c.step \in IF n = 1 THEN {"expire"} ELSE {"incr", "ttl", "handled"}
        /\ n = 1 => c.route = call[k].route
  <2>1. CASE n = 1
    <3>1. PICK c \in Call : Becomes(k, c) /\ c.step = "expire"
                            /\ c.route = call[k].route /\ c.route # <<>>
      BY <1>1, <2>1, Stays DEF LimitsInd, counted, first
    <3> QED
      BY <2>1, <3>1
  <2>2. CASE n # 1 /\ ~admitted(l, n)
    <3>1. n \in Nat
      BY <1>2
    <3>2. PICK c \in Call : Becomes(k, c) /\ c.step = "ttl"
                            /\ c.route = call[k].route /\ c.route # <<>>
      BY <1>1, <2>2, <3>1, Stays DEF LimitsInd, counted, first
    <3> QED
      BY <2>2, <3>2
  <2>3. CASE n # 1 /\ admitted(l, n)
    <3>1. PICK c \in Call : /\ Becomes(k, c) /\ c.step \in {"incr", "handled"}
                            /\ c.step = "incr" => c.route # <<>>
      BY <1>1, <2>3, Passed DEF LimitsInd, counted, first
    <3> QED
      BY <2>3, <3>1
  <2> QED
    BY <2>1, <2>2, <2>3
<1>8. /\ call' \in [Callers -> Call]
      /\ (\A j \in Callers : waits(j) => call[j].route # <<>>)'
      /\ call'[k] = c /\ \A j \in Callers \ {k} : call'[j] = call[j]
  BY <1>7, CallFits DEF LimitsInd
<1>9. Shapes'
  BY <1>1, <1>3, <1>5, <1>8 DEF LimitsInd, Shapes
<1>10. \A i \in Limiters, j \in Callers :
         setsEnd(j, i)' <=> IF j = k THEN n = 1 /\ i = l ELSE setsEnd(j, i)
  BY <1>7, <1>8 DEF setsEnd, limiter
<1>11. ~setsEnd(k, l)
  BY DEF setsEnd
<1>12. EndSetOnce'
  <2> SUFFICES ASSUME NEW i \in Limiters, NEW j \in Callers, setsEnd(j, i)'
               PROVE  /\ count'[i] > 0 /\ ttl'[i] = 0
                      /\ \A h \in Callers : setsEnd(h, i)' => h = j
    BY DEF EndSetOnce
  <2>1. CASE j = k
    <3>1. n = 1 /\ i = l /\ count[l] = 0 /\ ttl[l] = 0
      BY <1>1, <1>2, <1>10, <2>1
    <3>2. \A h \in Callers : ~setsEnd(h, l)
      BY <1>1, <3>1 DEF LimitsInd, EndSetOnce
    <3> QED
      BY <1>3, <1>10, <2>1, <3>1, <3>2
  <2>2. CASE j # k
    <3>1. /\ setsEnd(j, i) /\ count[i] > 0 /\ ttl[i] = 0
          /\ \A h \in Callers : setsEnd(h, i) => h = j
      BY <1>10, <2>2 DEF LimitsInd, EndSetOnce
    <3>2. count'[i] > 0
      BY <1>2, <1>3, <3>1
    <3>3. ~(n = 1 /\ i = l)
      BY <1>1, <1>2, <3>1
    <3> QED
      BY <1>10, <3>1, <3>2, <3>3
  <2> QED
    BY <2>1, <2>2
<1>13. EndComes'
  <2> SUFFICES ASSUME NEW i \in Limiters, count'[i] > 0, ttl'[i] = 0, i \notin orphaned'
               PROVE  \E j \in Callers : setsEnd(j, i)'
    BY DEF EndComes
  <2>1. CASE i = l /\ count[l] = 0
    BY <1>2, <1>10, <2>1
  <2>2. CASE ~(i = l /\ count[l] = 0)
    <3>1. count[i] > 0 /\ i \notin orphaned
      BY <1>1, <1>3, <2>2
    <3>2. PICK j \in Callers : setsEnd(j, i)
      BY <3>1 DEF LimitsInd, EndComes
    <3>3. j # k
      BY <3>2 DEF setsEnd
    <3> QED
      BY <1>10, <3>2, <3>3
  <2> QED
    BY <2>1, <2>2
<1> QED
  BY <1>6, <1>9, <1>12, <1>13 DEF LimitsInd

\* A request that is made, answered, refused or let through by a limiter that fails: it
\* counts nothing, and whose end of a window it was to set is an orphan.
LEMMA CallStep ==
  ASSUME LimitsInd, NEW k \in Callers, NEW c \in Call, Becomes(k, c),
         c.step \in {"incr", "expire", "ttl"} => c.route # <<>>, c.step # "expire",
         UNCHANGED <<count, ttl, recent>>,
         orphaned' = IF call[k].step = "expire" THEN orphaned \union {limiter(k)} ELSE orphaned,
         failures' \in 0..MaxFailures
  PROVE  LimitsInd'
<1>1. /\ call' \in [Callers -> Call]
      /\ (\A j \in Callers : waits(j) => call[j].route # <<>>)'
      /\ call'[k] = c /\ \A j \in Callers \ {k} : call'[j] = call[j]
  BY CallFits DEF LimitsInd
<1>2. orphaned' \subseteq Limiters
  BY AtLimiter DEF LimitsInd, Shapes, waits
<1>3. Shapes'
  BY <1>1, <1>2 DEF LimitsInd, Shapes
<1>4. \A i \in Limiters, j \in Callers : setsEnd(j, i)' <=> j # k /\ setsEnd(j, i)
  BY <1>1 DEF setsEnd, limiter
<1>5. Windows'
  BY DEF LimitsInd, Windows
<1>6. EndSetOnce'
  BY <1>4 DEF LimitsInd, EndSetOnce
<1>7. EndComes'
  <2> SUFFICES ASSUME NEW i \in Limiters, count[i] > 0, ttl[i] = 0, i \notin orphaned'
               PROVE  \E j \in Callers : setsEnd(j, i)'
    BY DEF EndComes
  <2>1. PICK j \in Callers : setsEnd(j, i)
    BY DEF LimitsInd, EndComes
  <2>2. j # k
    BY <2>1 DEF setsEnd
  <2> QED
    BY <1>4, <2>1, <2>2
<1> QED
  BY <1>3, <1>5, <1>6, <1>7 DEF LimitsInd

\* The end of a window is set by the one request that is to.
LEMMA ExpireStep ==
  ASSUME LimitsInd, NEW k \in Callers, expire(k)
  PROVE  LimitsInd'
<1>1. PICK l : l = limiter(k)
  OBVIOUS
<1>2. /\ l \in Limiters /\ Limit[l] \in Nat \ {0} /\ Window[l] \in Nat \ {0} /\ waits(k)
      /\ setsEnd(k, l)
  BY <1>1, AtLimiter, LimitsAssumption DEF LimitsInd, waits, expire, setsEnd
<1>3. count[l] > 0 /\ ttl[l] = 0 /\ \A j \in Callers : setsEnd(j, l) => j = k
  BY <1>2 DEF LimitsInd, EndSetOnce
<1>4. /\ ttl' = [ttl EXCEPT ![l] = Window[l]] /\ orphaned' = orphaned \ {l}
      /\ UNCHANGED <<count, failures, recent>>
  BY <1>1, <1>3 DEF expire
<1>5. PICK c \in Call : /\ Becomes(k, c) /\ c.step \in {"incr", "handled", "ttl"}
                        /\ (c.step \in {"incr", "expire", "ttl"} => c.route # <<>>)
  <2>1. CASE admitted(l, call[k].got)
    <3>1. pass(k)
      BY <1>1, <2>1 DEF expire
    <3>2. PICK c \in Call : /\ Becomes(k, c) /\ c.step \in {"incr", "handled"}
                            /\ c.step = "incr" => c.route # <<>>
      BY <1>2, <3>1, Passed DEF LimitsInd
    <3> QED
      BY <3>2
  <2>2. CASE ~admitted(l, call[k].got)
    <3>1. call' = [call EXCEPT ![k].step = "ttl"]
      BY <1>1, <2>2 DEF expire, To
    <3>2. PICK c \in Call : Becomes(k, c) /\ c.step = "ttl"
                            /\ c.route = call[k].route /\ c.route # <<>>
      BY <1>2, <3>1, Stays DEF LimitsInd
    <3> QED
      BY <3>2
  <2> QED
    BY <2>1, <2>2
<1>6. /\ call' \in [Callers -> Call]
      /\ (\A j \in Callers : waits(j) => call[j].route # <<>>)'
      /\ call'[k] = c /\ \A j \in Callers \ {k} : call'[j] = call[j]
  BY <1>5, CallFits DEF LimitsInd
<1>7. /\ ttl' \in [Limiters -> Nat] /\ ttl'[l] = Window[l]
      /\ \A i \in Limiters \ {l} : ttl'[i] = ttl[i]
  BY <1>2, <1>4 DEF LimitsInd, Shapes
<1>8. Shapes'
  BY <1>4, <1>6, <1>7 DEF LimitsInd, Shapes
<1>9. Windows'
  <2>1. FitsWindow(count[l], Window[l], recent[l], Limit[l], Window[l])
    <3>1. FitsWindow(count[l], ttl[l], recent[l], Limit[l], Window[l])
      BY <1>2 DEF LimitsInd, Windows
    <3> QED
      BY <1>2, <1>3, <3>1, Lives
  <2> QED
    BY <1>4, <1>7, <2>1 DEF LimitsInd, Windows
<1>10. \A i \in Limiters, j \in Callers : setsEnd(j, i)' <=> j # k /\ setsEnd(j, i)
  BY <1>5, <1>6 DEF setsEnd, limiter
<1>11. EndSetOnce'
  <2> SUFFICES ASSUME NEW i \in Limiters, NEW j \in Callers, setsEnd(j, i)'
               PROVE  /\ count'[i] > 0 /\ ttl'[i] = 0
                      /\ \A h \in Callers : setsEnd(h, i)' => h = j
    BY DEF EndSetOnce
  <2>1. setsEnd(j, i) /\ i # l
    BY <1>3, <1>10
  <2> QED
    BY <1>4, <1>7, <1>10, <2>1 DEF LimitsInd, EndSetOnce
<1>12. EndComes'
  <2> SUFFICES ASSUME NEW i \in Limiters, count'[i] > 0, ttl'[i] = 0, i \notin orphaned'
               PROVE  \E j \in Callers : setsEnd(j, i)'
    BY DEF EndComes
  <2>1. i # l
    BY <1>2, <1>7
  <2>2. PICK j \in Callers : setsEnd(j, i)
    BY <1>4, <1>7, <2>1 DEF LimitsInd, EndComes
  <2>3. j # k
    BY <1>2, <2>1, <2>2 DEF setsEnd
  <2> QED
    BY <1>10, <2>2, <2>3
<1> QED
  BY <1>8, <1>9, <1>11, <1>12 DEF LimitsInd

\* Time passes: a key whose end is set and reached is gone.
LEMMA TickStep ==
  ASSUME LimitsInd, Tick
  PROVE  LimitsInd'
<1>1. /\ ttl' = [l \in Limiters |-> IF ttl[l] > 0 THEN ttl[l] - 1 ELSE 0]
      /\ count' = [l \in Limiters |-> IF ttl[l] = 1 THEN 0 ELSE count[l]]
      /\ recent' = [l \in Limiters |-> [a \in 0..Window[l] - 1 |->
                      IF a = 0 THEN 0 ELSE recent[l][a - 1]]]
      /\ UNCHANGED <<call, failures, orphaned>>
  BY DEF Tick
<1>2. Shapes'
  BY <1>1 DEF LimitsInd, Shapes, waits
<1>3. Windows'
  <2> SUFFICES ASSUME NEW l \in Limiters
               PROVE  FitsWindow(count'[l], ttl'[l], recent'[l], Limit[l], Window[l])
    BY DEF Windows
  <2>1. PICK L, W, c, t, r : L = Limit[l] /\ W = Window[l] /\ c = count[l]
                             /\ t = ttl[l] /\ r = recent[l]
    OBVIOUS
  <2>2. PICK d, u, q : /\ d = IF t = 1 THEN 0 ELSE c
                       /\ u = IF t > 0 THEN t - 1 ELSE 0
                       /\ q = [a \in 0..W - 1 |-> IF a = 0 THEN 0 ELSE r[a - 1]]
    OBVIOUS
  <2>3. L \in Nat \ {0} /\ W \in Nat \ {0} /\ FitsWindow(c, t, r, L, W)
    BY <2>1, LimitsAssumption DEF LimitsInd, Windows
  <2>4. FitsWindow(d, u, q, L, W)
    BY <2>2, <2>3, Passes
  <2>5. count'[l] = d /\ ttl'[l] = u /\ recent'[l] = q
    BY <1>1, <2>1, <2>2
  <2> QED
    BY <2>1, <2>4, <2>5
<1>4. \A l \in Limiters, k \in Callers : setsEnd(k, l)' <=> setsEnd(k, l)
  BY <1>1 DEF setsEnd, limiter
<1>5. \A l \in Limiters : count[l] \in Nat /\ ttl[l] \in Nat
  BY DEF LimitsInd, Shapes
<1>6. EndSetOnce'
  BY <1>1, <1>4, <1>5 DEF LimitsInd, EndSetOnce
<1>7. EndComes'
  BY <1>1, <1>4, <1>5 DEF LimitsInd, EndComes
<1> QED
  BY <1>2, <1>3, <1>6, <1>7 DEF LimitsInd

\* The process stops: the ends it was about to set never come.
LEMMA RestartStep ==
  ASSUME LimitsInd, Restart
  PROVE  LimitsInd'
<1>1. /\ call' = [k \in Callers |->
            IF call[k] = Idle THEN Idle ELSE [call[k] EXCEPT !.step = "failed"]]
      /\ orphaned' = orphaned \union {limiter(k) : k \in {j \in Callers : call[j].step = "expire"}}
      /\ failures' \in 0..MaxFailures /\ UNCHANGED <<count, ttl, recent>>
  BY LimitsAssumption DEF Restart, LimitsInd, Shapes
<1>2. \A k \in Callers : call'[k] \in Call /\ call'[k].step \in {"idle", "failed"}
  BY <1>1 DEF LimitsInd, Shapes, Call, Steps, Idle
<1>3. call' \in [Callers -> Call] /\ \A k \in Callers : ~waits(k)'
  BY <1>1, <1>2 DEF waits
<1>4. orphaned' \subseteq Limiters
  BY <1>1, AtLimiter DEF LimitsInd, Shapes, waits
<1>5. Shapes'
  BY <1>1, <1>3, <1>4 DEF LimitsInd, Shapes
<1>6. \A l \in Limiters, k \in Callers : ~setsEnd(k, l)'
  BY <1>2 DEF setsEnd
<1>7. Windows' /\ EndSetOnce'
  BY <1>1, <1>6 DEF LimitsInd, Windows, EndSetOnce
<1>8. EndComes'
  BY <1>1 DEF LimitsInd, EndComes, setsEnd
<1> QED
  BY <1>5, <1>7, <1>8 DEF LimitsInd

\* The invariant holds initially.
LEMMA LimitsStart == Init => LimitsInd
<1> SUFFICES ASSUME Init PROVE LimitsInd
  OBVIOUS
<1>1. Idle \in Call /\ \A k \in Callers : call[k] = Idle
  BY DEF Init, Idle, Call, Steps
<1>2. \A k \in Callers : ~waits(k) /\ call[k].step = "idle"
  <2>1. Idle.step = "idle"
    BY DEF Idle
  <2> QED
    BY <1>1, <2>1 DEF waits
<1>3. Shapes
  BY <1>1, <1>2, LimitsAssumption DEF Init, Shapes
<1>4. Windows
  <2> SUFFICES ASSUME NEW l \in Limiters
               PROVE  FitsWindow(0, 0, [a \in 0..Window[l] - 1 |-> 0], Limit[l], Window[l])
    BY DEF Init, Windows
  <2>1. PICK L, W : L = Limit[l] /\ W = Window[l] /\ L \in Nat \ {0} /\ W \in Nat \ {0}
    BY LimitsAssumption
  <2>2. FitsWindow(0, 0, [a \in 0..W - 1 |-> 0], L, W)
    BY <2>1 DEF FitsWindow, atMostBoth
  <2> QED
    BY <2>1, <2>2
<1>5. EndSetOnce /\ EndComes
  BY <1>2 DEF Init, EndSetOnce, EndComes, setsEnd
<1> QED
  BY <1>3, <1>4, <1>5 DEF LimitsInd

\* Every step keeps the invariant.
LEMMA LimitsStep == LimitsInd /\ [Next]_vars => LimitsInd'
<1> SUFFICES ASSUME LimitsInd, [Next]_vars PROVE LimitsInd'
  OBVIOUS
<1>0. /\ \A k \in Callers : call[k] \in Call
      /\ failures \in 0..MaxFailures /\ MaxFailures \in Nat
  BY LimitsAssumption DEF LimitsInd, Shapes
<1>1. ASSUME NEW k \in Forms, onSubmit(k) PROVE LimitsInd'
  <2>1. PICK c : c = Sent(loginRoute, FALSE)
    OBVIOUS
  <2>2. c \in Call /\ c.step = "incr" /\ c.route # <<>>
    BY <2>1, RoutesFit DEF Sent, Call, Steps
  <2>3. /\ Becomes(k, c) /\ call[k].step # "expire"
        /\ UNCHANGED <<count, ttl, recent, orphaned, failures>>
    BY <1>1, <2>1 DEF onSubmit, Becomes, Idle
  <2> QED
    BY <1>0, <1>1, <2>1, <2>2, <2>3, CallStep, LimitsAssumption
<1>2. ASSUME NEW k \in Callers, visit(k) PROVE LimitsInd'
  <2>1. PICK c : c = Sent(pageRoute, FALSE)
    OBVIOUS
  <2>2. c \in Call /\ c.step = "incr" /\ c.route # <<>>
    BY <2>1, RoutesFit DEF Sent, Call, Steps
  <2>3. /\ Becomes(k, c) /\ call[k].step # "expire"
        /\ UNCHANGED <<count, ttl, recent, orphaned, failures>>
    BY <1>2, <2>1 DEF visit, Becomes, Idle
  <2> QED
    BY <1>0, <1>2, <2>1, <2>2, <2>3, CallStep
<1>3. ASSUME NEW k \in Callers, incr(k) PROVE LimitsInd'
  <2>1. PICK l, m, n : l = limiter(k) /\ m = 1 /\ n = atMost(l, count[l] + m)
    OBVIOUS
  <2>2. /\ call[k].step = "incr" /\ count' = [count EXCEPT ![l] = n]
        /\ counted(k, n) /\ admit(l, n) /\ UNCHANGED <<ttl, orphaned>>
        /\ failures' \in 0..MaxFailures
    BY <1>0, <1>3, <2>1 DEF incr
  <2>3. /\ m \in {1, 2} /\ ttl' = ttl
        /\ orphaned' = IF m = 2 /\ count[l] = 0 THEN orphaned \union {l} ELSE orphaned
    BY <2>1, <2>2
  <2> QED
    BY <2>1, <2>2, <2>3, CountStep
<1>4. ASSUME NEW k \in Callers, Resent(k) PROVE LimitsInd'
  <2>1. PICK l, m, n : l = limiter(k) /\ m = 2 /\ n = atMost(l, count[l] + 2)
    OBVIOUS
  <2>2. failures' \in 0..MaxFailures
    BY <1>0, <1>4 DEF Resent
  <2> QED
    BY <1>4, <2>1, <2>2, CountStep DEF Resent
<1>5. ASSUME NEW k \in Callers, refuse(k) PROVE LimitsInd'
  <2>1. Idle \in Call
    BY DEF Idle, Call, Steps
  <2>2. call' = [call EXCEPT ![k] = Idle] /\ call[k].step = "ttl"
        /\ UNCHANGED <<count, ttl, failures, orphaned, recent>>
    BY <1>5 DEF refuse
  <2> QED
    BY <1>0, <2>1, <2>2, CallStep DEF Becomes, Idle
<1>6. ASSUME NEW k \in Callers, Answered(k) PROVE LimitsInd'
  <2>1. Idle \in Call
    BY DEF Idle, Call, Steps
  <2>2. call' = [call EXCEPT ![k] = Idle] /\ call[k].step \in {"handled", "failed"}
        /\ UNCHANGED <<count, ttl, failures, orphaned, recent>>
    BY <1>6 DEF Answered
  <2> QED
    BY <1>0, <2>1, <2>2, CallStep DEF Becomes, Idle
<1>7. ASSUME NEW k \in Callers, Unauthorized(k) PROVE LimitsInd'
  <2>1. PICK c : c = Sent(pageRoute \o loginRoute, TRUE)
    OBVIOUS
  <2>2. c \in Call /\ c.step = "incr" /\ c.route # <<>>
    BY <2>1, RoutesFit DEF Sent, Call, Steps
  <2> QED
    BY <1>0, <1>7, <2>1, <2>2, CallStep DEF Unauthorized, Becomes
<1>8. ASSUME NEW k \in Callers, failOpen(k) PROVE LimitsInd'
  <2>1. PICK c \in Call : /\ Becomes(k, c) /\ c.step \in {"incr", "handled"}
                          /\ c.step = "incr" => c.route # <<>>
    BY <1>8, Passed DEF failOpen, LimitsInd
  <2>2. failures' \in 0..MaxFailures
    BY <1>0, <1>8 DEF failOpen
  <2> QED
    BY <1>8, <2>1, <2>2, CallStep DEF failOpen, orphan
<1>9. CASE Outage \/ reconnect \/ UNCHANGED vars
  <2>1. /\ UNCHANGED <<count, ttl, call, orphaned, recent>>
        /\ failures' \in 0..MaxFailures
    BY <1>0, <1>9 DEF Outage, reconnect, vars
  <2> QED
    BY <2>1 DEF LimitsInd, Shapes, waits, Windows, EndSetOnce, EndComes, setsEnd, limiter
<1> QED
  BY <1>1, <1>2, <1>3, <1>4, <1>5, <1>6, <1>7, <1>8, <1>9, ExpireStep, TickStep, RestartStep
  DEF Next, Serve

-----------------------------------------------------------------------------
(* The theorems. *)

\* The invariant holds always.
LEMMA LimitsInvariance == Spec => []LimitsInd
BY LimitsStart, LimitsStep, PTL DEF Spec

\* Types; and every key of a limiter in Redis has an expiry, unless the one request that is
\* to set it is on its way or was cut off (rate-limit.ts:41-44).
THEOREM KeysExpire == Spec => []Inv
<1>1. LimitsInd => Inv
  BY DEF LimitsInd, Shapes, Windows, FitsWindow, EndComes, setsEnd, Inv
<1> QED
  BY <1>1, LimitsInvariance, PTL

\* "Fixed window admits up to 2x burst across a window boundary" (rate-limit.ts:23), for
\* every limit, window and number of callers: whatever commands are resent, fail or are cut
\* off, at most twice the maximum is counted in within any stretch of a window's length.
THEOREM BurstIsBounded == Spec => []TwiceAtMost
<1>1. LimitsInd => TwiceAtMost
  <2> SUFFICES ASSUME LimitsInd, NEW l \in Limiters
               PROVE  recent[l][Window[l] - 1] <= 2 * Limit[l]
    BY DEF TwiceAtMost
  <2>1. PICK L, W, c, r : L = Limit[l] /\ W = Window[l] /\ c = count[l] /\ r = recent[l]
    OBVIOUS
  <2>2. /\ L \in Nat \ {0} /\ W \in Nat \ {0} /\ c \in Nat /\ r \in [0..W - 1 -> Nat]
        /\ r[W - 1] <= L + atMostBoth(c, L)
    <3>1. L \in Nat \ {0} /\ W \in Nat \ {0} /\ c \in Nat
      BY <2>1, LimitsAssumption DEF LimitsInd, Shapes
    <3>2. FitsWindow(c, ttl[l], r, L, W)
      BY <2>1 DEF LimitsInd, Windows
    <3> QED
      BY <3>1, <3>2 DEF FitsWindow
  <2>3. atMostBoth(c, L) \in Nat /\ atMostBoth(c, L) <= L /\ r[W - 1] \in Nat
    BY <2>2 DEF atMostBoth
  <2> QED
    BY <2>1, <2>2, <2>3
<1> QED
  BY <1>1, LimitsInvariance, PTL

=============================================================================
