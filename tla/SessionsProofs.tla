--------------------------- MODULE SessionsProofs ---------------------------
(***************************************************************************)
(* What holds of sessions for any number of tabs, calls, tokens and        *)
(* failures.  Two live tokens of a family could only come from two         *)
(* rotations of the family under way at once, and the second of them would *)
(* have had to find a live token after the first used it up: Inv says that *)
(* a rotation under way is alone in a family without a live token.         *)
(* SessionInv adds what is known of answers under way: each brings a token *)
(* the browser never saw, the only one of its session that may work.  On   *)
(* that rest the two halves of SessionRaces: an end of a session that no   *)
(* refresh overlaps is final (EndsHold), and without a race of two tabs    *)
(* there is one refresh of a session at a time (TabsApart).                *)
(***************************************************************************)
EXTENDS SessionRaces, TLAPS

rotating(c) == call[c].step = "rotating"
exchanging(c) == call[c].step \in {"rotating", "linking"}

\* What requests carry and answers bring are tokens of rows that exist.
TokensExist ==
  /\ cookie \in existing \union {NoToken}
  /\ \A c \in Calls :
       /\ call[c].presented \in existing \union {NoToken}
       /\ call[c].token \in existing \union {NoToken}
       /\ call[c].step \in {"rotating", "linking", "reuse"} => call[c].presented # NoToken
       /\ call[c].step \in {"linking", "ok"} => call[c].token # NoToken

\* A rotation used its token up, and nobody else works on that token.
ExchangesApart ==
  /\ \A c \in Calls : exchanging(c) =>
       call[c].presented \in revoked /\ successor[call[c].presented] = NoToken
  /\ \A c, d \in Calls : exchanging(c) /\ exchanging(d) /\ c # d =>
       call[c].presented # call[d].presented
  /\ \A t \in Tokens \ revoked : successor[t] = NoToken

\* Until its successor is issued, a rotation is the only hope of its family.
RotationsAlone ==
  /\ \A c \in Calls : rotating(c) => live(familyOf(c)) = {}
  /\ \A c, d \in Calls : rotating(c) /\ rotating(d) /\ c # d => familyOf(c) # familyOf(d)

Inv == TypeOK /\ TokensExist /\ ExchangesApart /\ RotationsAlone /\ OneLiveToken

-----------------------------------------------------------------------------

\* Init establishes the invariant: there is no row and no call.
LEMMA InitInv == Init => Inv
  BY SessionsAssumption DEF Init, Inv, TypeOK, TokensExist, ExchangesApart, RotationsAlone,
     OneLiveToken, live, existing, exchanging, rotating, familyOf, NoOne, CallOf, ServerSteps,
     Answers, Call

\* Every step of the model keeps the types.
LEMMA Typing == TypeOK /\ TokensExist /\ [Next]_vars => TypeOK'
<1> SUFFICES ASSUME TypeOK, TokensExist, [Next]_vars PROVE TypeOK'
  OBVIOUS
<1> USE SessionsAssumption DEF TypeOK, Call, ServerSteps, Answers, To, rowVars, browserVars, endings
<1>1. CASE UNCHANGED vars
  BY <1>1 DEF vars
<1>2. ASSUME NEW tab \in Tabs, NEW c \in Calls, Send(tab, c) PROVE TypeOK'
  BY <1>2 DEF Send, issueNewSession, refreshSession, logout, CallOf
<1>3. ASSUME NEW c \in Calls, Work(c) PROVE TypeOK'
  <2>1. CASE NoCookie(c) \/ Reused(c) \/ Expired(c) \/ Link(c)
    BY <2>1 DEF NoCookie, Reused, Expired, Link
  <2>2. CASE Rotate(c)
    BY <2>2 DEF Rotate
  <2>3. CASE revokeFamily(c)
    <3>1. familyOf(c) \in Families
      BY <2>3 DEF revokeFamily, familyOf, TokensExist, existing
    <3> QED
      BY <2>3, <3>1 DEF revokeFamily, live
  <2>4. CASE revokeRefreshToken(c)
    <3>1. call[c].presented # NoToken => familyOf(c) \in Families
      BY DEF familyOf, TokensExist, existing
    <3> QED
      BY <2>4, <3>1 DEF revokeRefreshToken
  <2>5. ASSUME NEW t \in Tokens, Issue(c, t) PROVE TypeOK'
    <3>1. familyOf(c) \in Families
      BY <2>5 DEF Issue, familyOf, TokensExist, existing
    <3>2. call' \in [Calls -> Call]
      <4>1. [call[c] EXCEPT !.step = "linking", !.token = t] \in Call
        <5>1. call[c] \in Call
          OBVIOUS
        <5>2. PICK row : row = call[c]
          OBVIOUS
        <5> QED
          BY <5>1, <5>2 DEF Call
      <4> QED
        BY <2>5, <4>1 DEF Issue
    <3> QED
      BY <2>5, <3>1, <3>2 DEF Issue
  <2> QED
    BY <1>3, <2>1, <2>2, <2>3, <2>4, <2>5 DEF Work
<1>4. ASSUME NEW c \in Calls, Answer(c) PROVE TypeOK'
  <2>1. ASSUME settle(c)
        PROVE  /\ call' \in [Calls -> Call]
               /\ inFlight' \in [Tabs -> Calls \union {NoCall}]
    BY <2>1 DEF settle, NoOne, CallOf
  <2>2. CASE AnswerOk(c)
    BY <2>1, <2>2 DEF AnswerOk
  <2>3. CASE AnswerClear(c)
    BY <2>1, <2>3 DEF AnswerClear
  <2>4. CASE AnswerNone(c)
    <3>1. accessToken' \in [Tabs -> BOOLEAN]
      BY <2>4 DEF AnswerNone
    <3> QED
      BY <2>1, <2>4, <3>1 DEF AnswerNone
  <2>5. CASE Drop(c)
    BY <2>1, <2>5 DEF Drop
  <2> QED
    BY <1>4, <2>2, <2>3, <2>4, <2>5 DEF Answer
<1>5. ASSUME NEW c \in Calls, RefreshThrows(c) \/ AnswerLost(c) PROVE TypeOK'
  BY <1>5 DEF RefreshThrows, AnswerLost, fail
<1>6. ASSUME NEW t \in Tokens, Expire(t) PROVE TypeOK'
  BY <1>6 DEF Expire
<1>7. ASSUME NEW tab \in Tabs, Reload(tab) PROVE TypeOK'
  BY <1>7 DEF Reload, fail
<1>8. CASE Restart
  BY <1>8 DEF Restart, fail
<1> QED
  BY <1>1, <1>2, <1>3, <1>4, <1>5, <1>6, <1>7, <1>8 DEF Next


\* Tokens carried by requests and answers stay tokens of rows: rows are not deleted.
LEMMA Carried == TypeOK /\ TokensExist /\ [Next]_vars => TokensExist'
<1> SUFFICES ASSUME TypeOK, TokensExist, [Next]_vars PROVE TokensExist'
  OBVIOUS
<1> USE SessionsAssumption DEF TypeOK, Call, TokensExist, existing, To, rowVars, browserVars, endings
<1>1. CASE UNCHANGED vars
  BY <1>1 DEF vars
<1>2. ASSUME NEW tab \in Tabs, NEW c \in Calls, Send(tab, c) PROVE TokensExist'
  BY <1>2 DEF Send, issueNewSession, refreshSession, logout, CallOf
<1>3. ASSUME NEW c \in Calls, Work(c) PROVE TokensExist'
  <2>1. CASE NoCookie(c) \/ Reused(c) \/ Expired(c) \/ Rotate(c)
    BY <2>1 DEF NoCookie, Reused, Expired, Rotate
  <2>2. CASE revokeFamily(c) \/ revokeRefreshToken(c) \/ Link(c)
    BY <2>2 DEF revokeFamily, revokeRefreshToken, Link
  <2>3. ASSUME NEW t \in Tokens, Issue(c, t) PROVE TokensExist'
    <3>1. familyOf(c) # NoFamily /\ call[c].presented # NoToken
      BY <2>3 DEF Issue, familyOf
    <3>2. /\ call'[c] = [call[c] EXCEPT !.step = "linking", !.token = t]
          /\ \A d \in Calls \ {c} : call'[d] = call[d]
      BY <2>3 DEF Issue
    <3>3. existing \union {t} \subseteq existing'
      BY <2>3, <3>1 DEF Issue
    <3>4. call'[c].presented = call[c].presented /\ call'[c].token = t
      BY <3>2 DEF Call
    <3>5. UNCHANGED cookie
      BY <2>3 DEF Issue
    <3> QED
      BY <3>1, <3>2, <3>3, <3>4, <3>5
  <2> QED
    BY <1>3, <2>1, <2>2, <2>3 DEF Work
<1>4. ASSUME NEW c \in Calls, Answer(c) PROVE TokensExist'
  <2>1. ASSUME settle(c)
        PROVE  /\ call'[c] = NoOne
               /\ \A d \in Calls \ {c} : call'[d] = call[d]
    BY <2>1 DEF settle
  <2>2. settle(c) /\ UNCHANGED family /\ cookie' \in {cookie, call[c].token, NoToken}
    BY <1>4 DEF Answer, AnswerOk, AnswerClear, AnswerNone, Drop
  <2>3. cookie' \in existing \union {NoToken}
    BY <2>2
  <2> QED
    BY <2>1, <2>2, <2>3 DEF NoOne, CallOf
<1>5. ASSUME NEW c \in Calls, RefreshThrows(c) \/ AnswerLost(c) PROVE TokensExist'
  BY <1>5 DEF RefreshThrows, AnswerLost
<1>6. ASSUME NEW t \in Tokens, Expire(t) PROVE TokensExist'
  BY <1>6 DEF Expire
<1>7. ASSUME NEW tab \in Tabs, Reload(tab) PROVE TokensExist'
  BY <1>7 DEF Reload
<1>8. CASE Restart
  BY <1>8 DEF Restart
<1> QED
  BY <1>1, <1>2, <1>3, <1>4, <1>5, <1>6, <1>7, <1>8 DEF Next

\* A step that starts no rotation, issues nothing and links nothing.
NothingStarts ==
  /\ revoked \subseteq revoked'
  /\ UNCHANGED successor
  /\ \A c \in Calls : exchanging(c)' => UNCHANGED <<call[c].step, call[c].presented>>

\* Such a step keeps rotations apart when it leaves the rows' families alone.
LEMMA QuietSteps ==
  ASSUME Inv, TypeOK', TokensExist', NothingStarts, UNCHANGED family
  PROVE  ExchangesApart' /\ RotationsAlone' /\ OneLiveToken'
<1> USE DEF Inv, TypeOK, TokensExist, NothingStarts
<1>1. ExchangesApart'
  BY DEF ExchangesApart, exchanging
<1>2. \A f : live(f)' \subseteq live(f)
  BY DEF live
<1>3. \A c \in Calls : rotating(c)' => rotating(c) /\ UNCHANGED familyOf(c)
  BY DEF rotating, exchanging, familyOf
<1>4. RotationsAlone'
  BY <1>2, <1>3 DEF RotationsAlone
<1>5. OneLiveToken'
  BY <1>2 DEF OneLiveToken
<1> QED
  BY <1>1, <1>4, <1>5


\* A login opens a family nobody rotates, with one token.
LEMMA LoginStep ==
  ASSUME Inv, TypeOK', TokensExist',
         NEW tab \in Tabs, NEW c \in Calls, NEW f \in Families, NEW t \in Tokens,
         issueNewSession(tab, c, f, t)
  PROVE  ExchangesApart' /\ RotationsAlone' /\ OneLiveToken'
<1> USE SessionsAssumption DEF Inv, TypeOK, TokensExist, issueNewSession
<1>1. \A d \in Calls : exchanging(d)' => d # c /\ call'[d] = call[d]
  BY DEF exchanging, CallOf
<1>2. ExchangesApart'
  BY <1>1 DEF ExchangesApart, exchanging
<1>3. \A d \in Calls : exchanging(d)' =>
        /\ call[d].presented \in existing
        /\ familyOf(d)' = familyOf(d)
        /\ familyOf(d) \in Families \ {f}
  BY <1>1 DEF exchanging, familyOf, existing
<1>4. \A g : g # f => live(g)' \subseteq live(g)
  BY DEF live
<1>5. live(f)' \subseteq {t}
  BY DEF live
<1>6. RotationsAlone'
  BY <1>1, <1>3, <1>4 DEF RotationsAlone, rotating, exchanging
<1>7. OneLiveToken'
  BY <1>4, <1>5 DEF OneLiveToken
<1> QED
  BY <1>2, <1>6, <1>7

\* A rotation starts with the one live token of its family and uses it up.
LEMMA RotateStep ==
  ASSUME Inv, TypeOK', TokensExist', NEW c \in Calls, Rotate(c)
  PROVE  ExchangesApart' /\ RotationsAlone' /\ OneLiveToken'
<1> DEFINE p == call[c].presented
<1> USE SessionsAssumption DEF Inv, TypeOK, TokensExist
<1>1. /\ p \in Tokens \ revoked /\ p \in existing
      /\ revoked' = revoked \union {p}
      /\ UNCHANGED <<family, successor>>
      /\ \A d \in Calls \ {c} : call'[d] = call[d]
      /\ call'[c].presented = p
  BY DEF Rotate, used, To, Call
<1>2. \A f : live(f)' \subseteq live(f)
  BY <1>1 DEF live
<1>3. p \in live(familyOf(c)) /\ familyOf(c) \in Families
  BY <1>1 DEF live, familyOf, existing
<1>4. live(familyOf(c))' = {}
  BY <1>1, <1>2, <1>3 DEF OneLiveToken, live, familyOf
<1>5. \A d \in Calls \ {c} : exchanging(d)' =>
        exchanging(d) /\ call'[d].presented = call[d].presented /\ call[d].presented # p
  BY <1>1 DEF ExchangesApart, exchanging
<1>6. successor[p] = NoToken
  BY <1>1 DEF ExchangesApart
<1>7. ExchangesApart'
  BY <1>1, <1>5, <1>6 DEF ExchangesApart
<1>8. \A d \in Calls : familyOf(d)' = familyOf(d)
  BY <1>1 DEF familyOf
<1>9. \A d \in Calls \ {c} : rotating(d)' => rotating(d) /\ familyOf(d) # familyOf(c)
  BY <1>1, <1>3 DEF RotationsAlone, rotating
<1>10. RotationsAlone'
  <2>1. \A d \in Calls : rotating(d)' => live(familyOf(d))' = {}
    <3> SUFFICES ASSUME NEW d \in Calls \ {c}, rotating(d)' PROVE live(familyOf(d))' = {}
      BY <1>4
    <3>1. live(familyOf(d)) = {}
      BY <1>9 DEF RotationsAlone
    <3> QED
      BY <3>1, <1>2, <1>8
  <2>2. \A d, e \in Calls : rotating(d)' /\ rotating(e)' /\ d # e => familyOf(d)' # familyOf(e)'
    BY <1>8, <1>9 DEF RotationsAlone
  <2> QED
    BY <2>1, <2>2 DEF RotationsAlone
<1>11. OneLiveToken'
  BY <1>2 DEF OneLiveToken
<1> QED
  BY <1>7, <1>10, <1>11

\* The successor is the only live token of its family, and its rotation is over.
LEMMA IssueStep ==
  ASSUME Inv, TypeOK', TokensExist', NEW c \in Calls, NEW t \in Tokens, Issue(c, t)
  PROVE  ExchangesApart' /\ RotationsAlone' /\ OneLiveToken'
<1> USE SessionsAssumption DEF Inv, TypeOK, TokensExist
<1>1. /\ rotating(c) /\ t \notin existing
      /\ family' = [family EXCEPT ![t] = familyOf(c)]
      /\ UNCHANGED <<revoked, successor>>
      /\ \A d \in Calls \ {c} : call'[d] = call[d]
  BY DEF Issue, rotating
<1>2. call'[c].presented = call[c].presented /\ call'[c].step = "linking"
  BY DEF Issue, Call
<1>3. ExchangesApart'
  BY <1>1, <1>2 DEF ExchangesApart, exchanging, rotating
<1>4. \A d \in Calls : exchanging(d) => call[d].presented \in existing
  BY DEF exchanging
<1>5. \A d \in Calls : rotating(d)' => d # c /\ rotating(d) /\ familyOf(d)' = familyOf(d)
  BY <1>1, <1>2, <1>4 DEF rotating, exchanging, familyOf, existing
<1>6. \A f : f # familyOf(c) => live(f)' \subseteq live(f)
  BY <1>1 DEF live
<1>7. live(familyOf(c)) = {}
  BY <1>1 DEF RotationsAlone
<1>8. \A u \in Tokens \ revoked : family'[u] = familyOf(c) => u = t
  BY <1>1, <1>7 DEF live
<1>9. RotationsAlone'
  BY <1>1, <1>5, <1>6 DEF RotationsAlone
<1>10. OneLiveToken'
  BY <1>1, <1>6, <1>8 DEF OneLiveToken, live
<1> QED
  BY <1>3, <1>9, <1>10

\* A link is written once: nobody else holds the token that is being linked.
LEMMA LinkStep ==
  ASSUME Inv, TypeOK', TokensExist', NEW c \in Calls, Link(c)
  PROVE  /\ successor[call[c].presented] = NoToken
         /\ ExchangesApart' /\ RotationsAlone' /\ OneLiveToken'
<1> USE SessionsAssumption DEF Inv, TypeOK, TokensExist
<1>1. /\ exchanging(c)
      /\ successor' = [successor EXCEPT ![call[c].presented] = call[c].token]
      /\ UNCHANGED <<family, revoked>>
      /\ \A d \in Calls \ {c} : call'[d] = call[d]
      /\ call'[c].step = "ok" /\ call'[c].presented = call[c].presented
  BY DEF Link, exchanging, To, Call
<1>2. successor[call[c].presented] = NoToken
  BY <1>1 DEF ExchangesApart
<1>3. \A d \in Calls : exchanging(d)' =>
        d # c /\ exchanging(d) /\ call'[d].presented = call[d].presented
  BY <1>1 DEF exchanging
<1>4. ExchangesApart'
  BY <1>1, <1>3 DEF ExchangesApart
<1>5. RotationsAlone' /\ OneLiveToken'
  <2>1. \A f : live(f)' = live(f)
    BY <1>1 DEF live
  <2>2. \A d \in Calls : rotating(d)' => rotating(d) /\ familyOf(d)' = familyOf(d)
    BY <1>1 DEF rotating, familyOf
  <2> QED
    BY <2>1, <2>2 DEF RotationsAlone, OneLiveToken
<1> QED
  BY <1>2, <1>4, <1>5

\* Every step keeps the invariant.
LEMMA Inductive == Inv /\ [Next]_vars => Inv'
<1> SUFFICES ASSUME Inv, [Next]_vars PROVE Inv'
  OBVIOUS
<1>1. TypeOK' /\ TokensExist'
  BY Typing, Carried DEF Inv
<1>2. ASSUME NothingStarts, UNCHANGED family PROVE Inv'
  BY <1>1, <1>2, QuietSteps DEF Inv
<1> USE DEF Inv, TypeOK, Call, NothingStarts, exchanging, To, rowVars, browserVars, endings
<1>3. CASE UNCHANGED vars
  BY <1>2, <1>3 DEF vars
<1>4. ASSUME NEW tab \in Tabs, NEW c \in Calls, Send(tab, c) PROVE Inv'
  <2>1. ASSUME NEW f \in Families, NEW t \in Tokens, issueNewSession(tab, c, f, t)
        PROVE  Inv'
    BY <1>1, <2>1, LoginStep
  <2>2. CASE refreshSession(tab, c) \/ logout(tab, c)
    BY <1>2, <2>2 DEF refreshSession, logout, CallOf
  <2> QED
    BY <1>4, <2>1, <2>2 DEF Send
<1>5. ASSUME NEW c \in Calls, Work(c) PROVE Inv'
  <2>1. CASE NoCookie(c) \/ Reused(c) \/ Expired(c)
    BY <1>2, <2>1 DEF NoCookie, Reused, Expired
  <2>2. CASE revokeFamily(c) \/ revokeRefreshToken(c)
    BY <1>2, <2>2 DEF revokeFamily, revokeRefreshToken
  <2>3. CASE Rotate(c)
    BY <1>1, <2>3, RotateStep
  <2>4. ASSUME NEW t \in Tokens, Issue(c, t) PROVE Inv'
    BY <1>1, <2>4, IssueStep
  <2>5. CASE Link(c)
    BY <1>1, <2>5, LinkStep
  <2> QED
    BY <1>5, <2>1, <2>2, <2>3, <2>4, <2>5 DEF Work
<1>6. ASSUME NEW c \in Calls, Answer(c) PROVE Inv'
  <2>1. settle(c) /\ UNCHANGED rowVars
    BY <1>6 DEF Answer, AnswerOk, AnswerClear, AnswerNone, Drop
  <2> QED
    BY <1>2, <2>1 DEF settle, NoOne, CallOf
<1>7. ASSUME NEW c \in Calls, RefreshThrows(c) \/ AnswerLost(c) PROVE Inv'
  BY <1>2, <1>7 DEF RefreshThrows, AnswerLost
<1>8. ASSUME NEW t \in Tokens, Expire(t) PROVE Inv'
  BY <1>2, <1>8 DEF Expire
<1>9. ASSUME NEW tab \in Tabs, Reload(tab) PROVE Inv'
  BY <1>2, <1>9 DEF Reload
<1>10. CASE Restart
  BY <1>2, <1>10 DEF Restart
<1> QED
  BY <1>3, <1>4, <1>5, <1>6, <1>7, <1>8, <1>9, <1>10 DEF Next

\* The invariant holds in every reachable state.
THEOREM Invariance == Spec => []Inv
  BY InitInv, Inductive, PTL DEF Spec

\* No interleaving of tabs, retries and failures leaves two usable tokens of one
\* session: what the serializable transaction of rotateRefreshToken is for.
THEOREM AtMostOneLiveToken == Spec => []OneLiveToken
<1>1. Inv => OneLiveToken
  BY DEF Inv
<1> QED
  BY <1>1, Invariance, PTL

\* The types of the model are kept.
THEOREM TypeCorrect == Spec => []TypeOK
<1>1. Inv => TypeOK
  BY DEF Inv
<1> QED
  BY <1>1, Invariance, PTL

\* No token is exchanged twice: replacedByTokenId is written at most once per row.
THEOREM NeverExchangedTwice == Spec => ExchangedOnce
<1> DEFINE Kept == \A t \in Tokens : successor[t] # NoToken => successor'[t] = successor[t]
<1>1. Inv /\ [Next]_vars => [Kept]_vars
  <2> SUFFICES ASSUME Inv, Next PROVE Kept
    OBVIOUS
  <2>1. ASSUME NEW c \in Calls, Link(c) PROVE Kept
    <3>1. successor[call[c].presented] = NoToken
      BY <2>1, Inductive, LinkStep DEF Inv
    <3> QED
      BY <2>1, <3>1 DEF Link, Inv, TypeOK
  <2>2. CASE UNCHANGED successor
    BY <2>2
  <2>3. UNCHANGED successor \/ \E c \in Calls : Link(c)
    BY DEF Next, Send, issueNewSession, refreshSession, logout, Work, NoCookie, Reused, Expired,
       Rotate, revokeFamily, Issue, revokeRefreshToken, Answer, AnswerOk, AnswerClear,
       AnswerNone, Drop, RefreshThrows, AnswerLost, Expire, Reload, Restart, rowVars
  <2> QED
    BY <2>1, <2>2, <2>3
<1> QED
  BY <1>1, Invariance, PTL DEF Spec, ExchangedOnce

-----------------------------------------------------------------------------
(* Who waits for what: the calls, the promises and the tokens on their way. *)

unheard(c) == call[c].step \in {"linking", "ok"}

\* What a call's step tells of it; and a refresh whose tab is still there is the
\* one its promise stands for.
StepsFit ==
  \A c \in Calls :
    /\ call[c].step \in {"sent", "rotating", "linking", "reuse"} => Refreshing(c)
    /\ call[c].step = "leaving" => call[c].op = "logout"
    /\ call[c].step = "ok" => call[c].op \in {"login", "refresh"}
    /\ call[c].step = "refused" => call[c].presented = NoToken
    /\ call[c].op = "none" => call[c].step = "idle"
    /\ call[c].op \in {"none", "login"} => call[c].presented = NoToken
    /\ Refreshing(c) /\ call[c].tab # NoTab => inFlight[call[c].tab] = c
    /\ failures = 0 => call[c].step # "lost" /\ (call[c].op # "none" => call[c].tab # NoTab)

\* Every step keeps what steps tell of calls, and the promises.
LEMMA Fitting == TypeOK /\ StepsFit /\ PromiseIsKept /\ [Next]_vars => StepsFit' /\ PromiseIsKept'
<1> SUFFICES ASSUME TypeOK, StepsFit, PromiseIsKept, [Next]_vars
             PROVE  StepsFit' /\ PromiseIsKept'
  OBVIOUS
<1> USE SessionsAssumption DEF TypeOK, Call, StepsFit, PromiseIsKept, Refreshing, ServerSteps,
      Answers, To, NoOne, CallOf, rowVars, browserVars, endings
<1>1. CASE UNCHANGED vars
  BY <1>1 DEF vars
<1>2. ASSUME NEW tab \in Tabs, NEW c \in Calls, Send(tab, c) PROVE StepsFit' /\ PromiseIsKept'
  BY <1>2 DEF Send, issueNewSession, refreshSession, logout
<1>3. ASSUME NEW c \in Calls, Work(c) PROVE StepsFit' /\ PromiseIsKept'
  <2>1. CASE NoCookie(c) \/ Reused(c) \/ Expired(c) \/ Rotate(c)
    BY <2>1 DEF NoCookie, Reused, Expired, Rotate
  <2>2. CASE revokeFamily(c) \/ revokeRefreshToken(c) \/ Link(c)
    BY <2>2 DEF revokeFamily, revokeRefreshToken, Link
  <2>3. ASSUME NEW t \in Tokens, Issue(c, t) PROVE StepsFit' /\ PromiseIsKept'
    BY <2>3 DEF Issue
  <2> QED
    BY <1>3, <2>1, <2>2, <2>3 DEF Work
<1>4. ASSUME NEW c \in Calls, Answer(c) PROVE StepsFit' /\ PromiseIsKept'
  <2>1. settle(c) /\ UNCHANGED failures
    BY <1>4 DEF Answer, AnswerOk, AnswerClear, AnswerNone, Drop
  <2> QED
    BY <2>1 DEF settle
<1>5. ASSUME NEW c \in Calls, RefreshThrows(c) \/ AnswerLost(c) PROVE StepsFit' /\ PromiseIsKept'
  BY <1>5 DEF RefreshThrows, AnswerLost, fail
<1>6. ASSUME NEW t \in Tokens, Expire(t) PROVE StepsFit' /\ PromiseIsKept'
  BY <1>6 DEF Expire
<1>7. ASSUME NEW tab \in Tabs, Reload(tab) PROVE StepsFit' /\ PromiseIsKept'
  BY <1>7 DEF Reload, fail
<1>8. CASE Restart
  BY <1>8 DEF Restart, fail
<1> QED
  BY <1>1, <1>2, <1>3, <1>4, <1>5, <1>6, <1>7, <1>8 DEF Next

\* No request of a tab is left waiting on a promise that stands for nothing: what
\* refreshInFlight holds is a refresh of that tab, whatever failed or was reloaded.
THEOREM PromiseKept == Spec => []PromiseIsKept
<1>1. Init => StepsFit /\ PromiseIsKept
  BY SessionsAssumption DEF Init, StepsFit, PromiseIsKept, Refreshing, NoOne, CallOf
<1>2. Inv => TypeOK
  BY DEF Inv
<1> QED
  BY <1>1, <1>2, Fitting, Invariance, PTL DEF Spec

\* The token of an answer under way is new to the browser, it is the only one of its
\* session that may work, and no rotation is about to issue another.
FreshAnswer(c) ==
  /\ cookie # call[c].token
  /\ \A d \in Calls : call[d].presented # call[c].token
  /\ \A d \in Calls \ {c} : unheard(d) => call[d].token # call[c].token
  /\ live(family[call[c].token]) \subseteq {call[c].token}
  /\ \A d \in Calls : rotating(d) => familyOf(d) # family[call[c].token]
  /\ call[c].op = "login" =>
       \A u \in Tokens : family[u] = family[call[c].token] => u = call[c].token

AnswersFresh == \A c \in Calls : unheard(c) => FreshAnswer(c)

\* Only rows are revoked, and a rotation's successor is in the family of its token.
SuccessorsKin ==
  /\ revoked \subseteq existing
  /\ \A c \in Calls : unheard(c) /\ Refreshing(c) =>
       call[c].presented # NoToken /\ familyOf(c) = family[call[c].token]

SessionInv == Inv /\ StepsFit /\ PromiseIsKept /\ AnswersFresh /\ SuccessorsKin

\* A step that brings no answer nearer to the browser than it was.
NothingNew ==
  /\ UNCHANGED family
  /\ revoked \subseteq revoked'
  /\ cookie' \in {cookie, NoToken}
  /\ \A c \in Calls :
       /\ unheard(c)' => unheard(c) /\ UNCHANGED <<call[c].token, call[c].op>>
       /\ rotating(c)' => rotating(c) /\ UNCHANGED call[c].presented
       /\ call'[c].presented \in {call[c].presented, cookie, NoToken}

\* Answers stay fresh in a step that answers nobody and issues nothing.
LEMMA NothingNewIsFresh ==
  ASSUME SessionInv, TypeOK', TokensExist', NothingNew PROVE AnswersFresh'
<1> USE SessionsAssumption DEF SessionInv, Inv, TypeOK, TokensExist, Call, NothingNew
<1> SUFFICES ASSUME NEW c \in Calls, unheard(c)' PROVE FreshAnswer(c)'
  BY DEF AnswersFresh
<1>1. /\ unheard(c) /\ FreshAnswer(c)
      /\ call'[c].token = call[c].token /\ call'[c].op = call[c].op
      /\ call[c].token \in Tokens
  BY DEF AnswersFresh, unheard, existing
<1>2. live(family[call[c].token])' \subseteq {call[c].token}
  BY <1>1 DEF FreshAnswer, live
<1>3. \A d \in Calls : rotating(d)' => familyOf(d)' # family[call[c].token]
  BY <1>1 DEF FreshAnswer, familyOf
<1> QED
  BY <1>1, <1>2, <1>3 DEF FreshAnswer

\* A login's token is a row nobody has seen, in a session of its own.
LEMMA LoginIsFresh ==
  ASSUME SessionInv, TypeOK', TokensExist',
         NEW tab \in Tabs, NEW c \in Calls, NEW f \in Families, NEW t \in Tokens,
         issueNewSession(tab, c, f, t)
  PROVE  AnswersFresh'
<1> USE SessionsAssumption DEF SessionInv, Inv, TypeOK, TokensExist, Call
<1>1. /\ t \notin existing /\ \A u \in Tokens : family[u] # f
      /\ family' = [family EXCEPT ![t] = f]
      /\ call'[c] = CallOf("login", "ok", tab, NoToken, t)
      /\ \A d \in Calls \ {c} : call'[d] = call[d]
      /\ UNCHANGED <<cookie, revoked>>
  BY DEF issueNewSession, browserVars
<1>2. \A d \in Calls : rotating(d)' => rotating(d) /\ familyOf(d)' = familyOf(d) /\ familyOf(d) # f
  BY <1>1 DEF rotating, familyOf, existing, CallOf
<1>3. FreshAnswer(c)'
  <2>1. call'[c].token = t /\ call'[c].presented = NoToken /\ call'[c].op = "login"
    BY <1>1 DEF CallOf
  <2>2. cookie' # t /\ \A d \in Calls : call'[d].presented # t
    BY <1>1, <2>1
  <2>3. \A d \in Calls \ {c} : unheard(d)' => call'[d].token # t
    BY <1>1
  <2>4. \A u \in Tokens : family'[u] = family'[t] => u = t
    BY <1>1
  <2> QED
    BY <1>1, <1>2, <2>1, <2>2, <2>3, <2>4 DEF FreshAnswer, live
<1>4. ASSUME NEW d \in Calls \ {c}, unheard(d)' PROVE FreshAnswer(d)'
  <2>1. /\ unheard(d) /\ FreshAnswer(d) /\ call'[d] = call[d]
        /\ call[d].token \in existing
    BY <1>1, <1>4 DEF AnswersFresh, unheard
  <2>2. family'[call[d].token] = family[call[d].token] /\ family[call[d].token] # f
    BY <1>1, <2>1 DEF existing
  <2>3. live(family[call[d].token])' \subseteq {call[d].token}
    BY <1>1, <2>1, <2>2 DEF live, FreshAnswer
  <2>4. \A e \in Calls : call'[e].presented # call[d].token
    <3>1. call[d].token # NoToken /\ call'[c].presented = NoToken
      BY <1>1, <2>1 DEF existing, CallOf
    <3> QED
      BY <1>1, <2>1, <3>1 DEF FreshAnswer
  <2>5. \A e \in Calls \ {d} : unheard(e)' => call'[e].token # call[d].token
    BY <1>1, <2>1 DEF FreshAnswer, CallOf, unheard
  <2>6. \A e \in Calls : rotating(e)' => familyOf(e)' # family[call[d].token]
    BY <1>2, <2>1 DEF FreshAnswer
  <2>7. call[d].op = "login" =>
          \A u \in Tokens : family'[u] = family'[call[d].token] => u = call[d].token
    BY <1>1, <2>1, <2>2 DEF FreshAnswer
  <2> QED
    BY <1>1, <2>1, <2>2, <2>3, <2>4, <2>5, <2>6, <2>7 DEF FreshAnswer
<1> QED
  BY <1>3, <1>4 DEF AnswersFresh

\* A rotation uses up a token the browser has; an answer under way brings another.
LEMMA RotateIsFresh ==
  ASSUME SessionInv, TypeOK', TokensExist', NEW c \in Calls, Rotate(c) PROVE AnswersFresh'
<1> USE SessionsAssumption DEF SessionInv, Inv, TypeOK, TokensExist, Call
<1>1. /\ call[c].presented \in existing \ revoked
      /\ revoked' = revoked \union {call[c].presented}
      /\ UNCHANGED <<family, cookie>>
      /\ call' = [call EXCEPT ![c].step = "rotating"]
  BY DEF Rotate, used, To, browserVars
<1>2. \A d \in Calls : unheard(d)' => unheard(d) /\ UNCHANGED <<call[d].token, call[d].op>>
  BY <1>1 DEF unheard
<1>3. \A d \in Calls : UNCHANGED call[d].presented /\ (rotating(d)' => d = c \/ rotating(d))
  BY <1>1 DEF rotating
<1>4. ASSUME NEW d \in Calls, unheard(d)' PROVE FreshAnswer(d)'
  <2>1. FreshAnswer(d) /\ call[d].token \in Tokens /\ unheard(d)
    BY <1>2, <1>4 DEF AnswersFresh, unheard
  <2>2. familyOf(c) # family[call[d].token]
    BY <1>1, <2>1 DEF FreshAnswer, live, familyOf, existing
  <2>3. \A e \in Calls : rotating(e)' => familyOf(e)' # family[call[d].token]
    BY <1>1, <1>3, <2>1, <2>2 DEF FreshAnswer, familyOf
  <2>4. live(family[call[d].token])' \subseteq {call[d].token}
    BY <1>1, <2>1 DEF FreshAnswer, live
  <2> QED
    BY <1>1, <1>2, <1>3, <1>4, <2>1, <2>3, <2>4 DEF FreshAnswer
<1> QED
  BY <1>4 DEF AnswersFresh

\* A successor is a row nobody has seen, and the one hope of its session.
LEMMA IssueIsFresh ==
  ASSUME SessionInv, TypeOK', TokensExist', NEW c \in Calls, NEW t \in Tokens, Issue(c, t)
  PROVE  AnswersFresh'
<1> USE SessionsAssumption DEF SessionInv, Inv, TypeOK, TokensExist
<1>1. /\ rotating(c) /\ t \notin existing
      /\ family' = [family EXCEPT ![t] = familyOf(c)]
      /\ UNCHANGED <<cookie, revoked>>
      /\ \A d \in Calls \ {c} : call'[d] = call[d]
  BY DEF Issue, rotating, browserVars
<1>2. /\ call'[c].presented = call[c].presented /\ call'[c].step = "linking"
      /\ call'[c].token = t /\ call'[c].op = "refresh"
  BY <1>1 DEF Issue, Call, StepsFit, Refreshing, rotating
<1>3. call[c].presented \in existing
  BY <1>1 DEF rotating
<1>4. \A d \in Calls : rotating(d)' =>
        rotating(d) /\ familyOf(d)' = familyOf(d) /\ familyOf(d) # familyOf(c)
  <2> SUFFICES ASSUME NEW d \in Calls, rotating(d)'
               PROVE  rotating(d) /\ familyOf(d)' = familyOf(d) /\ familyOf(d) # familyOf(c)
    OBVIOUS
  <2>1. d # c /\ rotating(d) /\ call'[d] = call[d]
    BY <1>1, <1>2 DEF rotating
  <2>2. call[d].presented \in existing
    BY <2>1 DEF rotating
  <2> QED
    BY <1>1, <2>1, <2>2 DEF RotationsAlone, familyOf
<1>5. live(familyOf(c)) = {}
  BY <1>1 DEF RotationsAlone
<1>6. FreshAnswer(c)'
  <2>1. cookie' # t /\ \A d \in Calls : call'[d].presented # t
    BY <1>1, <1>2, <1>3
  <2>2. \A d \in Calls \ {c} : unheard(d)' => call'[d].token # t
    BY <1>1
  <2>3. family'[t] = familyOf(c)
    BY <1>1
  <2>4. \A u \in Tokens \ revoked : family'[u] = familyOf(c) => u = t
    BY <1>1, <1>5 DEF live
  <2> QED
    BY <1>1, <1>2, <1>4, <2>1, <2>2, <2>3, <2>4 DEF FreshAnswer, live
<1>7. ASSUME NEW d \in Calls \ {c}, unheard(d)' PROVE FreshAnswer(d)'
  <2>1. /\ unheard(d) /\ FreshAnswer(d) /\ call'[d] = call[d]
        /\ call[d].token \in existing
    BY <1>1, <1>7 DEF AnswersFresh, unheard
  <2>2. family'[call[d].token] = family[call[d].token] /\ family[call[d].token] # familyOf(c)
    BY <1>1, <2>1 DEF FreshAnswer
  <2>3. live(family[call[d].token])' \subseteq {call[d].token}
    BY <1>1, <2>1, <2>2 DEF live, FreshAnswer
  <2>4. \A e \in Calls : call'[e].presented # call[d].token
    BY <1>1, <1>2, <2>1 DEF FreshAnswer
  <2>5. \A e \in Calls \ {d} : unheard(e)' => call'[e].token # call[d].token
    BY <1>1, <1>2, <2>1 DEF FreshAnswer, unheard
  <2>6. \A e \in Calls : rotating(e)' => familyOf(e)' # family[call[d].token]
    BY <1>4, <2>1 DEF FreshAnswer
  <2>7. call[d].op = "login" =>
          \A u \in Tokens : family'[u] = family'[call[d].token] => u = call[d].token
    BY <1>1, <2>1, <2>2 DEF FreshAnswer
  <2> QED
    BY <1>1, <2>1, <2>2, <2>3, <2>4, <2>5, <2>6, <2>7 DEF FreshAnswer
<1> QED
  BY <1>6, <1>7 DEF AnswersFresh

\* The answer that is heard brings its own token, not that of another one under way.
LEMMA HeardIsFresh ==
  ASSUME SessionInv, TypeOK', TokensExist', NEW c \in Calls, AnswerOk(c) PROVE AnswersFresh'
<1> USE SessionsAssumption DEF SessionInv, Inv, TypeOK, TokensExist
<1>1. /\ unheard(c) /\ cookie' = call[c].token /\ UNCHANGED <<family, revoked>>
      /\ call'[c] = NoOne /\ \A d \in Calls \ {c} : call'[d] = call[d]
  BY DEF AnswerOk, unheard, settle, rowVars
<1>2. ASSUME NEW d \in Calls, unheard(d)' PROVE FreshAnswer(d)'
  <2>1. d # c /\ unheard(d) /\ FreshAnswer(d) /\ call'[d] = call[d]
    BY <1>1, <1>2 DEF unheard, AnswersFresh, NoOne, CallOf
  <2>2. call[d].token \in Tokens
    BY <2>1 DEF unheard, existing
  <2>3. cookie' # call[d].token
    BY <1>1, <2>1 DEF FreshAnswer
  <2>4. \A e \in Calls : call'[e].presented # call[d].token
    BY <1>1, <2>1, <2>2 DEF FreshAnswer, NoOne, CallOf
  <2>5. \A e \in Calls \ {d} : unheard(e)' => call'[e].token # call[d].token
    BY <1>1, <2>1 DEF FreshAnswer, unheard, NoOne, CallOf
  <2>6. \A e \in Calls : rotating(e)' => familyOf(e)' # family[call[d].token]
    BY <1>1, <2>1 DEF FreshAnswer, rotating, familyOf, NoOne, CallOf
  <2> QED
    BY <1>1, <2>1, <2>3, <2>4, <2>5, <2>6 DEF FreshAnswer, live
<1> QED
  BY <1>2 DEF AnswersFresh

\* Rows stay where they are; a rotation goes on with the token it came with.
LEMMA Kinship ==
  TypeOK /\ TokensExist /\ StepsFit /\ SuccessorsKin /\ [Next]_vars => SuccessorsKin'
<1> SUFFICES ASSUME TypeOK, TokensExist, StepsFit, SuccessorsKin, [Next]_vars
             PROVE  SuccessorsKin'
  OBVIOUS
<1> USE SessionsAssumption DEF TypeOK, TokensExist, StepsFit, SuccessorsKin, existing, Call,
      Refreshing, unheard, familyOf, To, NoOne, CallOf, rowVars, browserVars, endings
<1>1. CASE UNCHANGED vars
  BY <1>1 DEF vars
<1>2. ASSUME NEW tab \in Tabs, NEW c \in Calls, Send(tab, c) PROVE SuccessorsKin'
  BY <1>2 DEF Send, issueNewSession, refreshSession, logout
<1>3. ASSUME NEW c \in Calls, Work(c) PROVE SuccessorsKin'
  <2>1. CASE NoCookie(c) \/ Reused(c) \/ Expired(c) \/ Rotate(c)
    BY <2>1 DEF NoCookie, Reused, Expired, Rotate
  <2>2. CASE revokeFamily(c)
    BY <2>2 DEF revokeFamily, live
  <2>3. CASE revokeRefreshToken(c) \/ Link(c)
    BY <2>3 DEF revokeRefreshToken, Link
  <2>4. ASSUME NEW t \in Tokens, Issue(c, t) PROVE SuccessorsKin'
    <3>1. /\ call[c].presented \in existing \ {t}
          /\ call'[c].presented = call[c].presented /\ call'[c].token = t
          /\ \A d \in Calls \ {c} : call'[d] = call[d]
      BY <2>4 DEF Issue
    <3> QED
      BY <2>4, <3>1 DEF Issue
  <2> QED
    BY <1>3, <2>1, <2>2, <2>3, <2>4 DEF Work
<1>4. ASSUME NEW c \in Calls, Answer(c) PROVE SuccessorsKin'
  <2>1. settle(c) /\ UNCHANGED rowVars
    BY <1>4 DEF Answer, AnswerOk, AnswerClear, AnswerNone, Drop
  <2> QED
    BY <2>1 DEF settle
<1>5. ASSUME NEW c \in Calls, RefreshThrows(c) \/ AnswerLost(c) PROVE SuccessorsKin'
  BY <1>5 DEF RefreshThrows, AnswerLost
<1>6. ASSUME NEW t \in Tokens, Expire(t) PROVE SuccessorsKin'
  BY <1>6 DEF Expire
<1>7. ASSUME NEW tab \in Tabs, Reload(tab) PROVE SuccessorsKin'
  BY <1>7 DEF Reload
<1>8. CASE Restart
  BY <1>8 DEF Restart
<1> QED
  BY <1>1, <1>2, <1>3, <1>4, <1>5, <1>6, <1>7, <1>8 DEF Next

\* Every step keeps the sessions' invariant.
LEMMA SessionsInductive == SessionInv /\ [Next]_vars => SessionInv'
<1> SUFFICES ASSUME SessionInv, [Next]_vars PROVE SessionInv'
  OBVIOUS
<1>1. Inv' /\ StepsFit' /\ PromiseIsKept' /\ SuccessorsKin'
  BY Inductive, Fitting, Kinship DEF SessionInv, Inv
<1>2. TypeOK' /\ TokensExist'
  BY <1>1 DEF Inv
<1>3. ASSUME NothingNew PROVE AnswersFresh'
  BY <1>2, <1>3, NothingNewIsFresh
<1> USE DEF SessionInv, Inv, TypeOK, Call, NothingNew, unheard, rotating, To, rowVars, browserVars
<1>4. CASE UNCHANGED vars
  BY <1>1, <1>3, <1>4 DEF vars
<1>5. ASSUME NEW tab \in Tabs, NEW c \in Calls, Send(tab, c) PROVE SessionInv'
  <2>1. ASSUME NEW f \in Families, NEW t \in Tokens, issueNewSession(tab, c, f, t)
        PROVE  AnswersFresh'
    BY <1>2, <2>1, LoginIsFresh
  <2>2. CASE refreshSession(tab, c) \/ logout(tab, c)
    BY <1>1, <1>3, <2>2 DEF refreshSession, logout, CallOf
  <2> QED
    BY <1>1, <1>5, <2>1, <2>2 DEF Send
<1>6. ASSUME NEW c \in Calls, Work(c) PROVE SessionInv'
  <2>1. CASE NoCookie(c) \/ Reused(c) \/ Expired(c) \/ Link(c)
    BY <1>1, <1>3, <2>1 DEF NoCookie, Reused, Expired, Link
  <2>2. CASE revokeFamily(c) \/ revokeRefreshToken(c)
    <3>1. revoked \subseteq revoked'
      BY <2>2 DEF revokeFamily, revokeRefreshToken
    <3>2. UNCHANGED <<family, cookie>> /\ call' = [call EXCEPT ![c].step = "clear"]
      BY <2>2 DEF revokeFamily, revokeRefreshToken
    <3> QED
      BY <1>1, <1>3, <3>1, <3>2
  <2>3. CASE Rotate(c)
    BY <1>1, <1>2, <2>3, RotateIsFresh
  <2>4. ASSUME NEW t \in Tokens, Issue(c, t) PROVE AnswersFresh'
    BY <1>2, <2>4, IssueIsFresh
  <2> QED
    BY <1>1, <1>6, <2>1, <2>2, <2>3, <2>4 DEF Work
<1>7. ASSUME NEW c \in Calls, Answer(c) PROVE SessionInv'
  <2>1. CASE AnswerOk(c)
    BY <1>1, <1>2, <2>1, HeardIsFresh
  <2>2. CASE AnswerClear(c) \/ AnswerNone(c) \/ Drop(c)
    BY <1>1, <1>3, <2>2 DEF AnswerClear, AnswerNone, Drop, settle, NoOne, CallOf
  <2> QED
    BY <1>1, <1>7, <2>1, <2>2 DEF Answer
<1>8. ASSUME NEW c \in Calls, RefreshThrows(c) \/ AnswerLost(c) PROVE SessionInv'
  BY <1>1, <1>3, <1>8 DEF RefreshThrows, AnswerLost
<1>9. ASSUME NEW t \in Tokens, Expire(t) PROVE SessionInv'
  BY <1>1, <1>3, <1>9 DEF Expire
<1>10. ASSUME NEW tab \in Tabs, Reload(tab) PROVE SessionInv'
  BY <1>1, <1>3, <1>10 DEF Reload
<1>11. CASE Restart
  BY <1>1, <1>3, <1>11 DEF Restart
<1> QED
  BY <1>4, <1>5, <1>6, <1>7, <1>8, <1>9, <1>10, <1>11 DEF Next

\* The sessions' invariant holds in every reachable state.
THEOREM SessionsInvariance == Spec => []SessionInv
<1>1. Init => SessionInv
  BY InitInv, SessionsAssumption DEF Init, SessionInv, StepsFit, PromiseIsKept, AnswersFresh,
     SuccessorsKin, Refreshing, unheard, NoOne, CallOf
<1> QED
  BY <1>1, SessionsInductive, PTL DEF Spec

-----------------------------------------------------------------------------
(* What ends a session: an end is final unless a refresh overlaps it.       *)

\* No token of the family works, and no rotation is about to issue one.
Over(f) ==
  /\ live(f) = {}
  /\ \E t \in Tokens : family[t] = f
  /\ \A c \in Calls : rotating(c) => familyOf(c) # f

\* What a step does to rows: one may be added, to a new family or to the family of a
\* rotation, and a rotation starts with a live token.
LEMMA RowsGrow ==
  ASSUME SessionInv, [Next]_vars
  PROVE  /\ revoked \subseteq revoked'
         /\ failures' = 0 => failures = 0
         /\ \A t \in existing : family'[t] = family[t]
         /\ \A t \in Tokens : family'[t] # family[t] =>
              \/ \A u \in Tokens : family[u] # family'[t]
              \/ \E c \in Calls : rotating(c) /\ family'[t] = familyOf(c)
         /\ \A c \in Calls : rotating(c)' =>
              /\ call'[c].presented = call[c].presented
              /\ call[c].presented \in existing
              /\ rotating(c) \/ call[c].presented \notin revoked
<1> USE SessionsAssumption DEF SessionInv, Inv, TypeOK, TokensExist, existing, rotating, Call,
      To, NoOne, CallOf, rowVars, browserVars, endings
<1> DEFINE Grow ==
      /\ revoked \subseteq revoked'
      /\ failures' = 0 => failures = 0
      /\ \A t \in existing : family'[t] = family[t]
      /\ \A t \in Tokens : family'[t] # family[t] =>
           \/ \A u \in Tokens : family[u] # family'[t]
           \/ \E c \in Calls : rotating(c) /\ family'[t] = familyOf(c)
      /\ \A c \in Calls : rotating(c)' =>
           /\ call'[c].presented = call[c].presented
           /\ call[c].presented \in existing
           /\ rotating(c) \/ call[c].presented \notin revoked
<1> SUFFICES Grow
  OBVIOUS
<1>1. CASE UNCHANGED vars
  BY <1>1 DEF vars
<1>2. ASSUME NEW tab \in Tabs, NEW c \in Calls, Send(tab, c) PROVE Grow
  BY <1>2 DEF Send, issueNewSession, refreshSession, logout
<1>3. ASSUME NEW c \in Calls, Work(c) PROVE Grow
  <2>1. CASE NoCookie(c) \/ Reused(c) \/ Expired(c) \/ Link(c)
    BY <2>1 DEF NoCookie, Reused, Expired, Link
  <2>2. CASE Rotate(c)
    BY <2>2 DEF Rotate, used
  <2>3. CASE revokeFamily(c) \/ revokeRefreshToken(c)
    <3>1. revoked \subseteq revoked' /\ UNCHANGED <<family, failures>>
      BY <2>3 DEF revokeFamily, revokeRefreshToken
    <3>2. call' = [call EXCEPT ![c].step = "clear"]
      BY <2>3 DEF revokeFamily, revokeRefreshToken
    <3> QED
      BY <3>1, <3>2
  <2>4. ASSUME NEW t \in Tokens, Issue(c, t) PROVE Grow
    <3>1. /\ rotating(c) /\ t \notin existing /\ UNCHANGED <<revoked, failures>>
          /\ family' = [family EXCEPT ![t] = familyOf(c)]
          /\ call'[c].step = "linking" /\ \A d \in Calls \ {c} : call'[d] = call[d]
      BY <2>4 DEF Issue
    <3> QED
      BY <3>1
  <2> QED
    BY <1>3, <2>1, <2>2, <2>3, <2>4 DEF Work
<1>4. ASSUME NEW c \in Calls, Answer(c) PROVE Grow
  <2>1. settle(c) /\ UNCHANGED <<rowVars, failures>>
    BY <1>4 DEF Answer, AnswerOk, AnswerClear, AnswerNone, Drop
  <2> QED
    BY <2>1 DEF settle
<1>5. ASSUME NEW c \in Calls, RefreshThrows(c) \/ AnswerLost(c) PROVE Grow
  BY <1>5 DEF RefreshThrows, AnswerLost, fail
<1>6. ASSUME NEW t \in Tokens, Expire(t) PROVE Grow
  BY <1>6 DEF Expire
<1>7. ASSUME NEW tab \in Tabs, Reload(tab) PROVE Grow
  BY <1>7 DEF Reload, fail
<1>8. CASE Restart
  BY <1>8 DEF Restart, fail
<1> QED
  BY <1>1, <1>2, <1>3, <1>4, <1>5, <1>6, <1>7, <1>8 DEF Next

\* A family that is over stays over: its tokens are used up, and a row is added only
\* to a family that is new or in rotation.
LEMMA StaysOver ==
  ASSUME SessionInv, [Next]_vars, NEW f \in Families, Over(f) PROVE Over(f)'
<1> USE RowsGrow, SessionsAssumption DEF SessionInv, Inv, TypeOK, Over
<1>1. \A t \in Tokens : family'[t] = f => family[t] = f
  OBVIOUS
<1>2. live(f)' = {}
  BY <1>1 DEF live
<1>3. \E t \in Tokens : family'[t] = f
  BY DEF existing
<1>4. \A c \in Calls : rotating(c)' => familyOf(c)' = familyOf(c) /\ familyOf(c) # f
  BY DEF familyOf, live, existing
<1> QED
  BY <1>2, <1>3, <1>4

\* A browser or a logout holds a token; an answer promises one.
held(p) ==
  cookie = p \/ \E c \in Calls : call[c].step = "leaving" /\ call[c].presented = p

promised(t) == \E c \in Calls : Refreshing(c) /\ unheard(c) /\ call[c].token = t

\* Beside the token that is held, only a promised one of its family may work.
LastHeard == \A p \in Tokens : held(p) => \A u \in live(family[p]) \ {p} : promised(u)

EndsHold ==
  ~endRaced =>
    /\ ~EndRaces
    /\ \A f \in burnt : Over(f)
    /\ failures = 0 => (\A f \in loggedOut : Over(f)) /\ LastHeard

\* A family revoked for reuse is over when no other refresh is under way.
LEMMA BurntIsOver ==
  ASSUME SessionInv, [Next]_vars, ~EndRaces, \A f \in burnt : Over(f)
  PROVE  \A f \in burnt' : Over(f)'
<1> USE SessionsAssumption DEF SessionInv, Inv, TypeOK
<1>1. \A f \in burnt : Over(f)'
  BY StaysOver
<1>2. ASSUME NEW c \in Calls, revokeFamily(c) PROVE Over(familyOf(c))'
  <2>1. /\ call[c].step = "reuse" /\ call[c].presented \in existing
        /\ UNCHANGED family /\ revoked' = revoked \union live(familyOf(c))
        /\ call' = [call EXCEPT ![c].step = "clear"]
    BY <1>2 DEF revokeFamily, To, TokensExist
  <2>2. familyOf(c)' = familyOf(c) /\ live(familyOf(c))' = {}
    BY <2>1 DEF familyOf, live, Call
  <2>3. \A d \in Calls : ~rotating(d)'
    BY <2>1 DEF rotating, EndRaces, StepsFit, Call
  <2> QED
    BY <2>1, <2>2, <2>3 DEF Over, familyOf, existing
<1>3. \A f \in burnt' : f \in burnt \/ \E c \in Calls : revokeFamily(c) /\ f = familyOf(c)
  BY DEF Next, vars, Send, issueNewSession, refreshSession, logout, Work, NoCookie, Reused, Expired,
     Rotate, revokeFamily, Issue, Link, revokeRefreshToken, Answer, AnswerOk, AnswerClear,
     AnswerNone, Drop, RefreshThrows, AnswerLost, Expire, Reload, Restart, endings
<1>4. \A c \in Calls : revokeFamily(c) => familyOf(c)' = familyOf(c)
  BY DEF revokeFamily, familyOf, To, Call
<1> QED
  BY <1>1, <1>2, <1>3, <1>4

\* A session that was logged out is over when no refresh is under way.
LEMMA LeftIsOver ==
  ASSUME SessionInv, [Next]_vars, ~EndRaces, \A f \in loggedOut : Over(f), LastHeard
  PROVE  \A f \in loggedOut' : Over(f)'
<1> USE SessionsAssumption DEF SessionInv, Inv, TypeOK
<1>1. \A f \in loggedOut : Over(f)'
  BY StaysOver
<1>2. ASSUME NEW c \in Calls, revokeRefreshToken(c), call[c].presented # NoToken
      PROVE  Over(familyOf(c))'
  <2>1. /\ call[c].step = "leaving" /\ call[c].presented \in existing
        /\ UNCHANGED family /\ revoked' = revoked \union {call[c].presented}
        /\ call' = [call EXCEPT ![c].step = "clear"]
    BY <1>2 DEF revokeRefreshToken, To, TokensExist
  <2>2. \A d \in Calls : ~Refreshing(d)
    BY <2>1 DEF EndRaces, StepsFit, Refreshing
  <2>3. live(familyOf(c)) \subseteq {call[c].presented}
    BY <2>1, <2>2 DEF LastHeard, held, promised, familyOf, existing
  <2>4. familyOf(c)' = familyOf(c) /\ live(familyOf(c))' = {}
    BY <2>1, <2>3 DEF familyOf, live, Call
  <2>5. \A d \in Calls : ~rotating(d)'
    BY <2>1, <2>2 DEF rotating, StepsFit, Call
  <2> QED
    BY <2>1, <2>4, <2>5 DEF Over, familyOf, existing
<1>3. \A f \in loggedOut' : f \in loggedOut \/ \E c \in Calls :
         revokeRefreshToken(c) /\ call[c].presented # NoToken /\ f = familyOf(c)
  BY DEF Next, vars, Send, issueNewSession, refreshSession, logout, Work, NoCookie, Reused, Expired,
     Rotate, revokeFamily, Issue, Link, revokeRefreshToken, Answer, AnswerOk, AnswerClear,
     AnswerNone, Drop, RefreshThrows, AnswerLost, Expire, Reload, Restart, endings
<1>4. \A c \in Calls : revokeRefreshToken(c) => familyOf(c)' = familyOf(c)
  BY DEF revokeRefreshToken, familyOf, To, Call
<1> QED
  BY <1>1, <1>2, <1>3, <1>4

\* Until something fails, no refresh or logout outlives its tab, so every answer but
\* the one that is heard stays under way.
LEMMA HeardStep ==
  ASSUME SessionInv, [Next]_vars, ~EndRaces, LastHeard, failures' = 0
  PROVE  LastHeard'
<1> USE SessionsAssumption DEF SessionInv, Inv, TypeOK, TokensExist
<1>1. \A p \in Tokens : held(p) => p \in existing
  BY DEF held
<1>2. ASSUME UNCHANGED family, revoked \subseteq revoked',
             \A p \in Tokens : held(p)' => held(p), \A t \in Tokens : promised(t) => promised(t)'
      PROVE  LastHeard'
  BY <1>2 DEF LastHeard, live
<1>3. ASSUME NEW c \in Calls, UNCHANGED <<family, cookie>>, revoked \subseteq revoked',
             \A d \in Calls \ {c} : call'[d] = call[d],
             call'[c].step = "leaving" =>
               (call[c].step = "leaving" \/ call'[c].presented = cookie),
             call'[c].step = "leaving" /\ call[c].step = "leaving" =>
               call'[c].presented = call[c].presented,
             Refreshing(c) /\ unheard(c) =>
               Refreshing(c)' /\ unheard(c)' /\ call'[c].token = call[c].token
      PROVE  LastHeard'
  <2>1. \A p \in Tokens : held(p)' => held(p)
    BY <1>3 DEF held
  <2>2. \A t \in Tokens : promised(t) => promised(t)'
    <3> SUFFICES ASSUME NEW t \in Tokens, NEW d \in Calls, Refreshing(d), unheard(d), call[d].token = t
                 PROVE  promised(t)'
      BY DEF promised
    <3>1. Refreshing(d)' /\ unheard(d)' /\ call'[d].token = t
      BY <1>3 DEF Refreshing, unheard
    <3> QED
      BY <3>1 DEF promised
  <2> QED
    BY <1>2, <1>3, <2>1, <2>2
<1> USE DEF Call, To, Refreshing, unheard, rowVars, browserVars, endings
<1>4. CASE UNCHANGED vars
  BY <1>4 DEF vars, LastHeard, held, promised, live
<1>5. ASSUME NEW tab \in Tabs, NEW c \in Calls, Send(tab, c) PROVE LastHeard'
  <2>1. ASSUME NEW f \in Families, NEW t \in Tokens, issueNewSession(tab, c, f, t)
        PROVE  LastHeard'
    <3>1. /\ call[c] = NoOne /\ t \notin existing /\ \A u \in Tokens : family[u] # f
          /\ family' = [family EXCEPT ![t] = f] /\ UNCHANGED <<revoked, cookie>>
          /\ call' = [call EXCEPT ![c] = CallOf("login", "ok", tab, NoToken, t)]
      BY <2>1 DEF issueNewSession
    <3>2. \A p \in Tokens : held(p)' => held(p)
      BY <3>1 DEF held, CallOf
    <3>3. \A u \in Tokens : promised(u) => promised(u)'
      BY <3>1 DEF promised, NoOne, CallOf
    <3>4. \A p \in existing : live(family[p])' \subseteq live(family[p])
      BY <3>1 DEF live, existing
    <3>5. ASSUME NEW p \in Tokens, held(p)', NEW u \in live(family[p])' \ {p} PROVE promised(u)'
      <4>1. held(p) /\ u \in live(family[p]) \ {p}
        BY <1>1, <3>2, <3>4, <3>5
      <4> QED
        BY <3>3, <4>1 DEF LastHeard, live
    <3> QED
      BY <3>5 DEF LastHeard
  <2>2. CASE refreshSession(tab, c) \/ logout(tab, c)
    BY <1>3, <2>2 DEF refreshSession, logout, NoOne, CallOf
  <2> QED
    BY <1>5, <2>1, <2>2 DEF Send
<1>6. ASSUME NEW c \in Calls, Work(c) PROVE LastHeard'
  <2>1. CASE NoCookie(c) \/ Reused(c) \/ Expired(c) \/ Rotate(c) \/ Link(c)
    BY <1>3, <2>1 DEF NoCookie, Reused, Expired, Rotate, Link
  <2>2. CASE revokeFamily(c) \/ revokeRefreshToken(c)
    <3>1. revoked \subseteq revoked'
      BY <2>2 DEF revokeFamily, revokeRefreshToken
    <3>2. /\ UNCHANGED <<family, cookie>> /\ call' = [call EXCEPT ![c].step = "clear"]
          /\ call[c].step \in {"reuse", "leaving"}
      BY <2>2 DEF revokeFamily, revokeRefreshToken
    <3> QED
      BY <1>3, <3>1, <3>2
  <2>3. ASSUME NEW t \in Tokens, Issue(c, t) PROVE LastHeard'
    <3>1. /\ rotating(c) /\ t \notin existing /\ UNCHANGED <<revoked, cookie>>
          /\ family' = [family EXCEPT ![t] = familyOf(c)]
          /\ call'[c].step = "linking" /\ call'[c].token = t /\ call'[c].op = call[c].op
          /\ \A d \in Calls \ {c} : call'[d] = call[d]
      BY <2>3 DEF Issue, rotating
    <3>2. \A p \in Tokens : held(p)' => held(p)
      BY <3>1 DEF held
    <3>3. \A u \in Tokens : promised(u) => promised(u)'
      BY <3>1 DEF promised, rotating
    <3>4. promised(t)'
      BY <3>1 DEF promised, rotating, StepsFit
    <3>5. \A p \in existing : live(family[p])' \subseteq live(family[p]) \union {t}
      BY <3>1 DEF live, existing
    <3>6. ASSUME NEW p \in Tokens, held(p)', NEW u \in live(family[p])' \ {p} PROVE promised(u)'
      <4>1. held(p) /\ u \in (live(family[p]) \ {p}) \union {t}
        BY <1>1, <3>2, <3>5, <3>6
      <4> QED
        BY <3>3, <3>4, <4>1 DEF LastHeard, live
    <3> QED
      BY <3>6 DEF LastHeard
  <2> QED
    BY <1>6, <2>1, <2>2, <2>3 DEF Work
<1>7. ASSUME NEW c \in Calls, Answer(c) PROVE LastHeard'
  <2>1. /\ call'[c] = NoOne /\ \A d \in Calls \ {c} : call'[d] = call[d]
        /\ UNCHANGED <<family, revoked, failures>>
    BY <1>7 DEF Answer, AnswerOk, AnswerClear, AnswerNone, Drop, settle
  <2>2. CASE AnswerOk(c)
    <3>1. cookie' = call[c].token /\ unheard(c)
      BY <2>2 DEF AnswerOk
    <3>2. live(family[cookie])' \subseteq {cookie'}
      BY <2>1, <3>1 DEF AnswersFresh, FreshAnswer, live
    <3>3. ASSUME NEW d \in Calls, call'[d].step = "leaving", NEW p \in Tokens, call'[d].presented = p
          PROVE  live(family[p])' \subseteq {p}
      <4>1. d # c /\ call'[d] = call[d] /\ held(p)
        BY <2>1, <3>3 DEF NoOne, CallOf, held
      <4>2. \A e \in Calls : ~Refreshing(e)
        BY <3>3, <4>1 DEF EndRaces, StepsFit
      <4> QED
        BY <2>1, <4>1, <4>2 DEF LastHeard, promised, live
    <3> QED
      BY <2>1, <3>2, <3>3 DEF LastHeard, held
  <2>3. CASE AnswerClear(c) \/ AnswerNone(c) \/ Drop(c)
    <3>1. ~unheard(c) /\ cookie' \in {cookie, NoToken}
      BY <2>1, <2>3 DEF AnswerClear, AnswerNone, Drop, StepsFit, Answers
    <3>2. \A p \in Tokens : held(p)' => held(p)
      BY <2>1, <3>1 DEF held, NoOne, CallOf
    <3>3. \A u \in Tokens : promised(u) => promised(u)'
      BY <2>1, <3>1 DEF promised
    <3> QED
      BY <1>2, <2>1, <3>2, <3>3
  <2> QED
    BY <1>7, <2>2, <2>3 DEF Answer
<1>8. ASSUME NEW t \in Tokens, Expire(t) PROVE LastHeard'
  BY <1>8 DEF Expire, LastHeard, held, promised, live
<1>9. ~fail
  BY DEF fail
<1> QED
  BY <1>4, <1>5, <1>6, <1>7, <1>8, <1>9 DEF Next, RefreshThrows, AnswerLost, Reload, Restart

\* Every step keeps what is known of ended sessions.
LEMMA EndsStep == SessionInv /\ EndsHold /\ [RacesNext]_<<vars, tabsRaced, endRaced>> => EndsHold'
<1> SUFFICES ASSUME SessionInv, EndsHold, [RacesNext]_<<vars, tabsRaced, endRaced>>, ~endRaced'
             PROVE  EndsHold'
  BY DEF EndsHold
<1>1. [Next]_vars
  BY DEF RacesNext
<1>2. CASE UNCHANGED <<vars, tabsRaced, endRaced>>
  BY <1>2 DEF EndsHold, EndRaces, Over, LastHeard, held, promised, live, familyOf, rotating,
     Refreshing, unheard, vars, rowVars, browserVars, endings
<1>3. CASE RacesNext
  <2>1. ~endRaced /\ ~EndRaces'
    BY <1>3 DEF RacesNext
  <2>2. ~EndRaces /\ \A f \in burnt' : Over(f)'
    BY <1>1, <2>1, BurntIsOver DEF EndsHold
  <2>3. ASSUME failures' = 0 PROVE (\A f \in loggedOut' : Over(f)') /\ LastHeard'
    <3>1. failures = 0
      BY <1>1, <2>3, RowsGrow
    <3> QED
      BY <1>1, <2>1, <2>2, <2>3, <3>1, LeftIsOver, HeardStep DEF EndsHold
  <2> QED
    BY <2>1, <2>2, <2>3 DEF EndsHold
<1> QED
  BY <1>2, <1>3

-----------------------------------------------------------------------------
(* One tab at a time: what the single flight of refreshSession is for.      *)

refreshes(c) == Refreshing(c) /\ call[c].presented # NoToken

\* One refresh of a session at a time, and with the token the cookie holds.
OneRefresh ==
  /\ \A c, d \in Calls : refreshes(c) /\ refreshes(d) /\ familyOf(c) = familyOf(d) => c = d
  /\ \A c \in Calls : refreshes(c) /\ cookie # NoToken /\ familyOf(c) = family[cookie]
       => call[c].presented = cookie

\* An answer under way brings a token that works.
AnswersWork == \A c \in Calls : unheard(c) => call[c].token \notin revoked

\* A cookie that no longer works is about to be replaced or cleared.
explained(t) ==
  \E c \in Calls : call[c].presented = t /\ (Refreshing(c) \/ family[t] \in loggedOut)

UsedCookie == cookie \in revoked => explained(cookie)

\* A used token is presented, and found used, only after the logout of its session.
ReuseAfterLogout ==
  \A c \in Calls :
    call[c].step = "reuse" \/ (call[c].step = "sent" /\ call[c].presented \in revoked)
      => familyOf(c) \in loggedOut

TabsApart ==
  failures = 0 /\ ~tabsRaced =>
    ~TabsRace /\ OneRefresh /\ AnswersWork /\ UsedCookie /\ ReuseAfterLogout

\* The steps of a run without failures, by what they do to cookies, calls and rows.
LEMMA StepKinds ==
  ASSUME SessionInv, [Next]_vars, failures' = 0
  PROVE  \/ UNCHANGED <<cookie, revoked, call, loggedOut>>
         \/ \E tab \in Tabs, c \in Calls, f \in Families, t \in Tokens : issueNewSession(tab, c, f, t)
         \/ \E tab \in Tabs, c \in Calls : refreshSession(tab, c) \/ logout(tab, c)
         \/ \E c \in Calls : Work(c)
         \/ \E c \in Calls : AnswerOk(c) \/ AnswerClear(c)
         \/ \E c \in Calls : call[c].presented = NoToken /\ AnswerNone(c)
<1>1. ~fail
  BY DEF fail, SessionInv, Inv, TypeOK
<1>2. failures = 0
  BY RowsGrow
<1>3. \A c \in Calls : ~Drop(c) /\ (AnswerNone(c) => call[c].presented = NoToken)
  BY <1>2 DEF Drop, AnswerNone, SessionInv, StepsFit, Answers
<1>4. CASE UNCHANGED vars
  BY <1>4 DEF vars, rowVars, browserVars, endings
<1>5. \A t \in Tokens : Expire(t) => UNCHANGED <<cookie, revoked, call, loggedOut>>
  BY DEF Expire, browserVars, endings
<1> QED
  BY <1>1, <1>3, <1>4, <1>5 DEF Next, Send, Answer, RefreshThrows, AnswerLost, Reload, Restart

\* A refresh is not sent while another of its session is under way: one of the same
\* tab is shared, one of another tab is the race that did not happen.
LEMMA OneRefreshStep ==
  ASSUME SessionInv, SessionInv', [Next]_vars, failures' = 0, ~TabsRace', OneRefresh
  PROVE  OneRefresh'
<1> USE SessionsAssumption, RowsGrow DEF SessionInv, Inv, TypeOK, TokensExist
<1>1. \A c \in Calls : refreshes(c) => call[c].presented \in existing
  BY DEF refreshes
<1>2. ASSUME cookie' \in {cookie, NoToken},
             \A c \in Calls : refreshes(c)' => refreshes(c) /\ UNCHANGED call[c].presented
      PROVE  OneRefresh'
  <2>1. \A c \in Calls : refreshes(c)' => familyOf(c)' = familyOf(c)
    BY <1>1, <1>2 DEF familyOf
  <2> QED
    BY <1>2, <2>1 DEF OneRefresh
<1> USE DEF refreshes, Refreshing, Call, To, browserVars
<1>3. CASE UNCHANGED <<cookie, revoked, call, loggedOut>>
  BY <1>2, <1>3
<1>4. ASSUME NEW tab \in Tabs, NEW c \in Calls,
             NEW f \in Families, NEW t \in Tokens, issueNewSession(tab, c, f, t)
      PROVE  OneRefresh'
  BY <1>2, <1>4 DEF issueNewSession, CallOf
<1>5. ASSUME NEW tab \in Tabs, NEW c \in Calls, logout(tab, c) PROVE OneRefresh'
  BY <1>2, <1>5 DEF logout, CallOf
<1>6. ASSUME NEW tab \in Tabs, NEW c \in Calls, refreshSession(tab, c) PROVE OneRefresh'
  <2>1. /\ call[c] = NoOne /\ inFlight[tab] = NoCall /\ UNCHANGED <<cookie, family>>
        /\ call'[c] = CallOf("refresh", "sent", tab, cookie, NoToken)
        /\ \A d \in Calls \ {c} : call'[d] = call[d]
    BY <1>6 DEF refreshSession, rowVars
  <2>2. ASSUME NEW d \in Calls \ {c}, refreshes(d), cookie # NoToken, familyOf(d) = family[cookie]
        PROVE  FALSE
    <3>1. call[d].presented = cookie
      BY <2>2 DEF OneRefresh
    <3>2. call[d].tab = tab
      BY <2>1, <2>2, <3>1 DEF TabsRace, CallOf
    <3>3. inFlight[tab] = d
      BY <2>2, <3>2 DEF StepsFit
    <3> QED
      BY <2>1, <3>3
  <2>3. \A d \in Calls \ {c} : refreshes(d)' => refreshes(d) /\ familyOf(d)' = familyOf(d)
    BY <2>1 DEF familyOf
  <2>4. call'[c].presented = cookie
    BY <2>1 DEF CallOf
  <2> QED
    BY <2>1, <2>2, <2>3, <2>4 DEF OneRefresh, familyOf
<1>7. ASSUME NEW c \in Calls, Work(c) PROVE OneRefresh'
  <2>1. /\ UNCHANGED cookie /\ \A d \in Calls \ {c} : call'[d] = call[d]
        /\ UNCHANGED <<call[c].presented, call[c].op>>
    <3>1. CASE NoCookie(c) \/ Reused(c) \/ Expired(c) \/ Rotate(c) \/ Link(c)
      BY <3>1 DEF NoCookie, Reused, Expired, Rotate, Link
    <3>2. CASE revokeFamily(c) \/ revokeRefreshToken(c)
      BY <3>2 DEF revokeFamily, revokeRefreshToken
    <3>3. ASSUME NEW t \in Tokens, Issue(c, t)
          PROVE  /\ UNCHANGED cookie /\ \A d \in Calls \ {c} : call'[d] = call[d]
                 /\ UNCHANGED <<call[c].presented, call[c].op>>
      BY <3>3 DEF Issue
    <3> QED
      BY <1>7, <3>1, <3>2, <3>3 DEF Work
  <2> QED
    BY <1>2, <2>1
<1>8. ASSUME NEW c \in Calls, AnswerOk(c) PROVE OneRefresh'
  <2>1. /\ unheard(c) /\ cookie' = call[c].token /\ UNCHANGED family
        /\ call'[c] = NoOne /\ \A d \in Calls \ {c} : call'[d] = call[d]
    BY <1>8 DEF AnswerOk, unheard, settle, rowVars
  <2>2. \A d \in Calls : refreshes(d)' => d # c /\ refreshes(d) /\ familyOf(d)' = familyOf(d)
    BY <2>1 DEF familyOf, NoOne, CallOf
  <2>3. ASSUME NEW d \in Calls \ {c}, refreshes(d), familyOf(d) = family[call[c].token] PROVE FALSE
    <3>1. CASE Refreshing(c)
      BY <2>1, <2>3, <3>1 DEF SuccessorsKin, OneRefresh
    <3>2. CASE call[c].op = "login"
      <4>1. call[d].presented = call[c].token
        BY <2>1, <2>3, <3>2 DEF AnswersFresh, FreshAnswer, familyOf
      <4> QED
        BY <2>1, <4>1 DEF AnswersFresh, FreshAnswer
    <3>3. call[c].op \in {"login", "refresh"}
      BY <2>1 DEF unheard, StepsFit
    <3> QED
      BY <3>1, <3>2, <3>3
  <2> QED
    BY <2>1, <2>2, <2>3 DEF OneRefresh
<1>9. ASSUME NEW c \in Calls, AnswerClear(c) \/ AnswerNone(c) PROVE OneRefresh'
  BY <1>2, <1>9 DEF AnswerClear, AnswerNone, settle, NoOne, CallOf
<1> QED
  BY <1>3, <1>4, <1>5, <1>6, <1>7, <1>8, <1>9, StepKinds

\* A token under way is revoked by nobody: it was presented by nobody, and a reuse in
\* its family would be a second refresh of it.
LEMMA AnswersWorkStep ==
  ASSUME SessionInv, [Next]_vars, failures' = 0, OneRefresh, AnswersWork
  PROVE  AnswersWork'
<1> USE SessionsAssumption DEF SessionInv, Inv, TypeOK, TokensExist
<1>1. ASSUME UNCHANGED revoked,
             \A c \in Calls : unheard(c)' => unheard(c) /\ UNCHANGED call[c].token
      PROVE  AnswersWork'
  BY <1>1 DEF AnswersWork
<1>2. ASSUME \A c \in Calls : unheard(c)' =>
               unheard(c) /\ call'[c].token = call[c].token /\ call[c].token \notin revoked'
      PROVE  AnswersWork'
  BY <1>2 DEF AnswersWork
<1> USE DEF unheard, Call, To, rowVars, browserVars, endings
<1>3. CASE UNCHANGED <<cookie, revoked, call, loggedOut>>
  BY <1>1, <1>3
<1>4. ASSUME NEW tab \in Tabs, NEW c \in Calls,
             NEW f \in Families, NEW t \in Tokens, issueNewSession(tab, c, f, t)
      PROVE  AnswersWork'
  BY <1>4 DEF issueNewSession, CallOf, AnswersWork, SuccessorsKin
<1>5. ASSUME NEW tab \in Tabs, NEW c \in Calls, refreshSession(tab, c) \/ logout(tab, c)
      PROVE  AnswersWork'
  BY <1>1, <1>5 DEF refreshSession, logout, CallOf
<1>6. ASSUME NEW c \in Calls, Work(c) PROVE AnswersWork'
  <2>1. CASE NoCookie(c) \/ Reused(c) \/ Expired(c) \/ Link(c)
    BY <1>1, <2>1 DEF NoCookie, Reused, Expired, Link
  <2>2. CASE Rotate(c)
    BY <1>2, <2>2 DEF Rotate, AnswersWork, AnswersFresh, FreshAnswer
  <2>3. CASE revokeRefreshToken(c)
    <3>1. revoked' \subseteq revoked \union {call[c].presented}
      BY <2>3 DEF revokeRefreshToken
    <3>2. call' = [call EXCEPT ![c].step = "clear"]
      BY <2>3 DEF revokeRefreshToken
    <3>3. \A d \in Calls : unheard(d) => call[d].token \notin revoked'
      BY <3>1 DEF AnswersWork, AnswersFresh, FreshAnswer
    <3> QED
      BY <1>2, <3>2, <3>3
  <2>4. CASE revokeFamily(c)
    <3>1. /\ revoked' = revoked \union live(familyOf(c)) /\ call[c].step = "reuse"
          /\ call' = [call EXCEPT ![c].step = "clear"]
      BY <2>4 DEF revokeFamily
    <3>2. refreshes(c)
      BY <3>1 DEF StepsFit, refreshes, Refreshing
    <3>3. ASSUME NEW d \in Calls, unheard(d), call[d].token \in live(familyOf(c)) PROVE FALSE
      <4>1. family[call[d].token] = familyOf(c) /\ d # c
        BY <3>1, <3>3 DEF live
      <4>2. CASE Refreshing(d)
        BY <3>2, <3>3, <4>1, <4>2 DEF SuccessorsKin, OneRefresh, refreshes
      <4>3. CASE call[d].op = "login"
        <5>1. call[c].presented = call[d].token
          BY <3>2, <3>3, <4>1, <4>3 DEF AnswersFresh, FreshAnswer, refreshes, familyOf
        <5> QED
          BY <3>3, <5>1 DEF AnswersFresh, FreshAnswer
      <4> QED
        BY <3>3, <4>2, <4>3 DEF StepsFit, Refreshing
    <3> QED
      BY <1>2, <3>1, <3>3 DEF AnswersWork
  <2>5. ASSUME NEW t \in Tokens, Issue(c, t) PROVE AnswersWork'
    <3>1. /\ t \notin revoked /\ UNCHANGED revoked /\ call'[c].token = t
          /\ \A d \in Calls \ {c} : call'[d] = call[d]
      BY <2>5 DEF Issue, SuccessorsKin
    <3> QED
      BY <3>1 DEF AnswersWork
  <2> QED
    BY <1>6, <2>1, <2>2, <2>3, <2>4, <2>5 DEF Work
<1>7. ASSUME NEW c \in Calls, AnswerOk(c) \/ AnswerClear(c) \/ AnswerNone(c) PROVE AnswersWork'
  BY <1>1, <1>7 DEF AnswerOk, AnswerClear, AnswerNone, settle, NoOne, CallOf
<1> QED
  BY <1>3, <1>4, <1>5, <1>6, <1>7, StepKinds

\* The call that used the cookie's token up is the one whose answer replaces it.
LEMMA UsedCookieStep ==
  ASSUME SessionInv, SessionInv', [Next]_vars, failures' = 0,
         OneRefresh, AnswersWork, UsedCookie
  PROVE  UsedCookie'
<1> USE SessionsAssumption, RowsGrow DEF SessionInv, Inv, TypeOK, TokensExist
<1>1. ASSUME UNCHANGED cookie, loggedOut \subseteq loggedOut',
             \A c \in Calls : call[c].presented # NoToken =>
               UNCHANGED <<call[c].presented, call[c].op>>,
             cookie \in revoked' => cookie \in revoked \/ explained(cookie)'
      PROVE  UsedCookie'
  <2> SUFFICES ASSUME cookie \in revoked, NEW c \in Calls, call[c].presented = cookie,
                      Refreshing(c) \/ family[cookie] \in loggedOut
               PROVE  explained(cookie)'
    BY <1>1 DEF UsedCookie, explained
  <2>1. call'[c].presented = cookie' /\ call'[c].op = call[c].op /\ family'[cookie'] = family[cookie]
    BY <1>1
  <2> QED
    BY <1>1, <2>1 DEF explained, Refreshing
<1> USE DEF Call, To, NoOne, CallOf, browserVars, endings
<1>2. CASE UNCHANGED <<cookie, revoked, call, loggedOut>>
  BY <1>1, <1>2
<1>3. ASSUME NEW tab \in Tabs, NEW c \in Calls,
             NEW f \in Families, NEW t \in Tokens, issueNewSession(tab, c, f, t)
      PROVE  UsedCookie'
  BY <1>1, <1>3 DEF issueNewSession
<1>4. ASSUME NEW tab \in Tabs, NEW c \in Calls, refreshSession(tab, c) \/ logout(tab, c)
      PROVE  UsedCookie'
  BY <1>1, <1>4 DEF refreshSession, logout, rowVars
<1>5. ASSUME NEW c \in Calls, Work(c) PROVE UsedCookie'
  <2>1. CASE NoCookie(c) \/ Reused(c) \/ Expired(c) \/ Link(c)
    BY <1>1, <2>1 DEF NoCookie, Reused, Expired, Link, rowVars
  <2>2. CASE Rotate(c)
    <3>1. /\ UNCHANGED <<cookie, loggedOut>> /\ call' = [call EXCEPT ![c].step = "rotating"]
          /\ revoked' = revoked \union {call[c].presented} /\ Refreshing(c)
      BY <2>2 DEF Rotate, StepsFit
    <3>2. cookie = call[c].presented => explained(cookie)'
      BY <3>1 DEF explained, Refreshing
    <3> QED
      BY <1>1, <3>1, <3>2
  <2>3. CASE revokeFamily(c)
    <3>1. /\ UNCHANGED <<cookie, loggedOut>> /\ call' = [call EXCEPT ![c].step = "clear"]
          /\ revoked' = revoked \union live(familyOf(c)) /\ refreshes(c)
      BY <2>3 DEF revokeFamily, StepsFit, refreshes
    <3>2. cookie \in live(familyOf(c)) => call[c].presented = cookie
      BY <3>1 DEF OneRefresh, live
    <3>3. cookie = call[c].presented => explained(cookie)'
      BY <3>1 DEF explained, Refreshing, refreshes
    <3> QED
      BY <1>1, <3>1, <3>2, <3>3
  <2>4. CASE revokeRefreshToken(c)
    <3>1. /\ UNCHANGED <<cookie, family>> /\ call' = [call EXCEPT ![c].step = "clear"]
          /\ loggedOut \subseteq loggedOut'
      BY <2>4 DEF revokeRefreshToken
    <3>2. revoked' = revoked \/
            (revoked' = revoked \union {call[c].presented} /\ familyOf(c) \in loggedOut')
      BY <2>4 DEF revokeRefreshToken
    <3>3. cookie = call[c].presented /\ familyOf(c) \in loggedOut' => explained(cookie)'
      BY <3>1 DEF explained, familyOf
    <3> QED
      BY <1>1, <3>1, <3>2, <3>3
  <2>5. ASSUME NEW t \in Tokens, Issue(c, t) PROVE UsedCookie'
    <3>1. /\ UNCHANGED <<cookie, revoked, loggedOut>>
          /\ UNCHANGED <<call[c].presented, call[c].op>>
          /\ \A d \in Calls \ {c} : call'[d] = call[d]
      BY <2>5 DEF Issue
    <3> QED
      BY <1>1, <3>1
  <2> QED
    BY <1>5, <2>1, <2>2, <2>3, <2>4, <2>5 DEF Work
<1>6. ASSUME NEW c \in Calls, AnswerOk(c) PROVE UsedCookie'
  BY <1>6 DEF AnswerOk, UsedCookie, AnswersWork, unheard, rowVars
<1>7. ASSUME NEW c \in Calls, AnswerClear(c) PROVE UsedCookie'
  BY <1>7 DEF AnswerClear, UsedCookie, rowVars
<1>8. ASSUME NEW c \in Calls, call[c].presented = NoToken, AnswerNone(c) PROVE UsedCookie'
  <2>1. /\ UNCHANGED <<cookie, revoked, loggedOut>> /\ call'[c] = NoOne
        /\ \A d \in Calls \ {c} : call'[d] = call[d]
    BY <1>8 DEF AnswerNone, settle, rowVars
  <2> QED
    BY <1>1, <1>8, <2>1
<1> QED
  BY <1>2, <1>3, <1>4, <1>5, <1>6, <1>7, <1>8, StepKinds

\* A used token reaches the server only from the cookie of a session that was logged
\* out: a refresh that used it up would be the second one of that session.
LEMMA ReuseStep ==
  ASSUME SessionInv, SessionInv', [Next]_vars, failures' = 0,
         OneRefresh, OneRefresh', UsedCookie, ReuseAfterLogout
  PROVE  ReuseAfterLogout'
<1> USE SessionsAssumption, RowsGrow DEF SessionInv, Inv, TypeOK, TokensExist
<1> DEFINE atStake(c) ==
      call[c].step = "reuse" \/ (call[c].step = "sent" /\ call[c].presented \in revoked)
<1>1. \A c \in Calls : atStake(c) => familyOf(c) \in loggedOut /\ call[c].presented \in existing
  BY DEF ReuseAfterLogout, existing
<1>2. ASSUME NEW c \in Calls, loggedOut \subseteq loggedOut',
             atStake(c), call'[c].presented = call[c].presented
      PROVE  familyOf(c)' \in loggedOut'
  BY <1>1, <1>2 DEF familyOf
<1>3. ASSUME loggedOut \subseteq loggedOut',
             \A c \in Calls : atStake(c)' => atStake(c) /\ UNCHANGED call[c].presented
      PROVE  ReuseAfterLogout'
  BY <1>2, <1>3 DEF ReuseAfterLogout
<1> USE DEF Call, To, NoOne, CallOf, rowVars, browserVars, endings
<1>4. CASE UNCHANGED <<cookie, revoked, call, loggedOut>>
  BY <1>3, <1>4
<1>5. ASSUME NEW tab \in Tabs, NEW c \in Calls,
             NEW f \in Families, NEW t \in Tokens, issueNewSession(tab, c, f, t)
      PROVE  ReuseAfterLogout'
  BY <1>3, <1>5 DEF issueNewSession
<1>6. ASSUME NEW tab \in Tabs, NEW c \in Calls, logout(tab, c) PROVE ReuseAfterLogout'
  BY <1>3, <1>6 DEF logout
<1>7. ASSUME NEW tab \in Tabs, NEW c \in Calls, refreshSession(tab, c) PROVE ReuseAfterLogout'
  <2>1. /\ call[c] = NoOne /\ UNCHANGED <<family, revoked, cookie, loggedOut>>
        /\ call'[c] = CallOf("refresh", "sent", tab, cookie, NoToken)
        /\ \A d \in Calls \ {c} : call'[d] = call[d]
    BY <1>7 DEF refreshSession
  <2>2. ASSUME cookie \in revoked PROVE family[cookie] \in loggedOut
    <3>1. PICK d \in Calls :
            call[d].presented = cookie /\ (Refreshing(d) \/ family[cookie] \in loggedOut)
      BY <2>2 DEF UsedCookie, explained
    <3>2. d # c /\ call'[d] = call[d]
      BY <2>1, <2>2, <3>1
    <3>3. ~Refreshing(d)
      BY <2>1, <2>2, <3>1, <3>2 DEF OneRefresh, refreshes, Refreshing, familyOf
    <3> QED
      BY <3>1, <3>3
  <2>3. atStake(c)' => familyOf(c)' \in loggedOut'
    BY <2>1, <2>2 DEF familyOf
  <2>4. \A d \in Calls \ {c} : atStake(d)' => atStake(d) /\ UNCHANGED call[d].presented
    BY <2>1
  <2> QED
    BY <1>2, <2>1, <2>3, <2>4 DEF ReuseAfterLogout
<1>8. ASSUME NEW c \in Calls, Work(c) PROVE ReuseAfterLogout'
  <2>1. CASE NoCookie(c) \/ Reused(c) \/ Expired(c) \/ Link(c)
    BY <1>3, <2>1 DEF NoCookie, Reused, Expired, Link, used
  <2>2. CASE Rotate(c)
    <3>1. /\ UNCHANGED <<family, loggedOut>> /\ revoked' = revoked \union {call[c].presented}
          /\ refreshes(c) /\ call' = [call EXCEPT ![c].step = "rotating"]
      BY <2>2 DEF Rotate, StepsFit, refreshes
    <3>2. ASSUME NEW d \in Calls, atStake(d)' PROVE atStake(d) /\ UNCHANGED call[d].presented
      <4>1. d # c /\ call'[d] = call[d]
        BY <3>1, <3>2
      <4>2. call[d].step = "sent" /\ call[d].presented = call[c].presented => d = c
        BY <3>1 DEF OneRefresh, refreshes, StepsFit, familyOf
      <4> QED
        BY <3>1, <3>2, <4>1, <4>2
    <3> QED
      BY <1>3, <3>1, <3>2
  <2>3. CASE revokeFamily(c)
    <3>1. /\ UNCHANGED <<family, loggedOut>> /\ revoked' = revoked \union live(familyOf(c))
          /\ familyOf(c) \in loggedOut /\ call' = [call EXCEPT ![c].step = "clear"]
      BY <2>3 DEF revokeFamily, ReuseAfterLogout
    <3>2. ASSUME NEW d \in Calls, atStake(d)' PROVE familyOf(d)' \in loggedOut'
      <4>1. call'[d] = call[d] /\ familyOf(d)' = familyOf(d)
        BY <3>1, <3>2 DEF familyOf
      <4>2. atStake(d) \/ call[d].presented \in live(familyOf(c))
        BY <3>1, <3>2, <4>1
      <4> QED
        BY <1>1, <3>1, <4>1, <4>2 DEF live, familyOf
    <3> QED
      BY <3>2 DEF ReuseAfterLogout
  <2>4. CASE revokeRefreshToken(c)
    <3>1. /\ UNCHANGED family /\ call' = [call EXCEPT ![c].step = "clear"]
          /\ loggedOut \subseteq loggedOut'
      BY <2>4 DEF revokeRefreshToken
    <3>2. revoked' = revoked \/
            (revoked' = revoked \union {call[c].presented} /\ familyOf(c) \in loggedOut')
      BY <2>4 DEF revokeRefreshToken
    <3>3. ASSUME NEW d \in Calls, atStake(d)' PROVE familyOf(d)' \in loggedOut'
      <4>1. call'[d] = call[d] /\ familyOf(d)' = familyOf(d)
        BY <3>1, <3>3 DEF familyOf
      <4>2. atStake(d) \/ (call[d].presented = call[c].presented /\ familyOf(c) \in loggedOut')
        BY <3>2, <3>3, <4>1
      <4> QED
        BY <1>1, <3>1, <4>1, <4>2 DEF familyOf
    <3> QED
      BY <3>3 DEF ReuseAfterLogout
  <2>5. ASSUME NEW t \in Tokens, Issue(c, t) PROVE ReuseAfterLogout'
    <3>1. /\ UNCHANGED <<revoked, loggedOut>> /\ call'[c].step = "linking"
          /\ \A d \in Calls \ {c} : call'[d] = call[d]
      BY <2>5 DEF Issue
    <3> QED
      BY <1>3, <3>1
  <2> QED
    BY <1>8, <2>1, <2>2, <2>3, <2>4, <2>5 DEF Work
<1>9. ASSUME NEW c \in Calls, AnswerOk(c) \/ AnswerClear(c) \/ AnswerNone(c)
      PROVE  ReuseAfterLogout'
  BY <1>3, <1>9 DEF AnswerOk, AnswerClear, AnswerNone, settle
<1> QED
  BY <1>4, <1>5, <1>6, <1>7, <1>8, <1>9, StepKinds

\* Every step keeps what is known of a browser whose tabs did not race.
LEMMA TabsStep ==
  SessionInv /\ TabsApart /\ [RacesNext]_<<vars, tabsRaced, endRaced>> => TabsApart'
<1> SUFFICES ASSUME SessionInv, TabsApart, [RacesNext]_<<vars, tabsRaced, endRaced>>,
                    failures' = 0, ~tabsRaced'
             PROVE  TabsApart'
  BY DEF TabsApart
<1>1. [Next]_vars
  BY DEF RacesNext
<1>2. SessionInv'
  BY <1>1, SessionsInductive
<1>3. CASE UNCHANGED <<vars, tabsRaced, endRaced>>
  BY <1>3 DEF TabsApart, TabsRace, OneRefresh, AnswersWork, UsedCookie, explained,
     ReuseAfterLogout, refreshes, familyOf, Refreshing, unheard, vars, rowVars, browserVars, endings
<1>4. CASE RacesNext
  <2>1. ~tabsRaced /\ ~TabsRace' /\ failures = 0
    BY <1>1, <1>4, RowsGrow DEF RacesNext
  <2>2. OneRefresh /\ AnswersWork /\ UsedCookie /\ ReuseAfterLogout
    BY <2>1 DEF TabsApart
  <2>3. OneRefresh'
    BY <1>1, <1>2, <2>1, <2>2, OneRefreshStep
  <2>4. AnswersWork' /\ UsedCookie' /\ ReuseAfterLogout'
    BY <1>1, <1>2, <2>2, <2>3, AnswersWorkStep, UsedCookieStep, ReuseStep
  <2> QED
    BY <2>1, <2>3, <2>4 DEF TabsApart
<1> QED
  BY <1>3, <1>4

\* What holds of sessions and of the races they met, in every reachable state.
SessionRacesInv == SessionInv /\ EndsHold /\ TabsApart

\* The invariant behind the properties of every schedule of refreshes holds always
\* (token.service.ts:137-216, lib/api.ts:40-75).
THEOREM RacesInvariance == RacesSpec => []SessionRacesInv
<1>1. RacesInit => EndsHold /\ TabsApart
  BY SessionsAssumption DEF RacesInit, Init, EndsHold, EndRaces, LastHeard, held, TabsApart,
     TabsRace, OneRefresh, refreshes, AnswersWork, unheard, UsedCookie, ReuseAfterLogout,
     Refreshing, NoOne, CallOf
<1>2. RacesInit => Init
  BY DEF RacesInit
<1>3. [RacesNext]_<<vars, tabsRaced, endRaced>> => [Next]_vars
  BY DEF RacesNext
<1>4. RacesSpec => []SessionInv
  BY <1>2, <1>3, SessionsInvariance, PTL DEF RacesSpec, Spec
<1> QED
  BY <1>1, <1>4, EndsStep, TabsStep, PTL DEF RacesSpec, SessionRacesInv

\* In a browser whose tabs did not exchange one token at once, nobody is signed out
\* everywhere by accident: the reuse rotateRefreshToken detects is that of a session
\* its user had ended.
THEOREM ReuseNeverAccidental == RacesSpec => []ReuseIsNoAccident
<1>1. SessionRacesInv => ReuseIsNoAccident
  BY DEF SessionRacesInv, TabsApart, ReuseAfterLogout, ReuseIsNoAccident
<1> QED
  BY <1>1, RacesInvariance, PTL

\* However answers cross, the cookie that is left when all have arrived is not one the
\* server revoked: no answer overwrites a newer one.
THEOREM CookieLeftWorks == RacesSpec => []CookieWorks
<1>1. SessionRacesInv => CookieWorks
  BY SessionsAssumption DEF SessionRacesInv, SessionInv, Inv, TypeOK, TabsApart, UsedCookie,
     explained, CookieWorks, NoOne, CallOf
<1> QED
  BY <1>1, RacesInvariance, PTL

\* A logout no refresh overlaps ends its session: no token of it works afterwards.
THEOREM LogoutIsFinal == RacesSpec => []LogoutEndsSession
<1>1. SessionRacesInv => LogoutEndsSession
  BY DEF SessionRacesInv, EndsHold, Over, LogoutEndsSession
<1> QED
  BY <1>1, RacesInvariance, PTL

\* A family that was revoked because a token came back stays dead, whatever fails,
\* unless one of its tokens was just then being exchanged.
THEOREM ReuseIsFinal == RacesSpec => []ReuseKillsFamily
<1>1. SessionRacesInv => ReuseKillsFamily
  BY DEF SessionRacesInv, EndsHold, Over, ReuseKillsFamily
<1> QED
  BY <1>1, RacesInvariance, PTL


-----------------------------------------------------------------------------
(* Sessions implement the succession of tokens: every step of tabs, server *)
(* and failures is one of the abstract session or changes nothing it sees. *)

\* Without rows nothing was issued.
LEMMA InitSuccession == Init => Abstract!SuccessionInit
<1> SUFFICES ASSUME Init PROVE Abstract!SuccessionInit
  OBVIOUS
<1>1. issuedIn = [f \in Families |-> {}]
  BY SessionsAssumption DEF Init, issuedIn
<1>2. unusedIn = [f \in Families |-> {}]
  BY SessionsAssumption DEF Init, unusedIn, live
<1>3. underExchange = {}
  BY DEF Init, underExchange, NoOne, CallOf
<1> QED
  BY <1>1, <1>2, <1>3 DEF Abstract!SuccessionInit

\* No rotation begins, and those under way are of the tokens they were of.
NoRotation ==
  /\ UNCHANGED family
  /\ \A c \in Calls : rotating(c)' => rotating(c) /\ UNCHANGED call[c].presented

\* What leaves the rows alone is the server forgetting rotations, or nothing at all.
LEMMA RowsKept == ASSUME NoRotation, UNCHANGED revoked PROVE Abstract!Forget
<1> USE DEF NoRotation
<1>1. UNCHANGED issuedIn
  BY DEF issuedIn
<1>2. UNCHANGED unusedIn
  BY DEF unusedIn, live
<1>3. underExchange' \subseteq underExchange
  BY DEF underExchange, rotating, familyOf
<1> QED
  BY <1>1, <1>2, <1>3 DEF Abstract!Forget

\* A family whose live token is revoked, while its rotation goes on if there is one, ends.
LEMMA FamilyEnds ==
  ASSUME NoRotation, \A c \in Calls : rotating(c) => rotating(c)',
         NEW f \in Families, \A g \in Families : live(g)' = IF g = f THEN {} ELSE live(g)
  PROVE  Abstract!End(f)
<1> USE DEF NoRotation
<1>1. UNCHANGED issuedIn
  BY DEF issuedIn
<1>2. unusedIn' = [unusedIn EXCEPT ![f] = {}]
  BY DEF unusedIn
<1>3. UNCHANGED underExchange
  BY DEF underExchange, rotating, familyOf
<1> QED
  BY <1>1, <1>2, <1>3 DEF Abstract!End

\* Revoking the family of a reused token, or the token a logout presents, is an end of
\* the session when a token of it was unused, and no step of it otherwise.
LEMMA RevocationEnds ==
  ASSUME SessionInv, NEW c \in Calls, revokeFamily(c) \/ revokeRefreshToken(c)
  PROVE  [Abstract!SuccessionNext]_(Abstract!successionVars)
<1> USE SessionsAssumption DEF SessionInv, Inv, TypeOK, TokensExist, Call, existing
<1>1. /\ UNCHANGED family /\ call' = [call EXCEPT ![c].step = "clear"]
      /\ call[c].step \in {"reuse", "leaving"}
  BY DEF revokeFamily, revokeRefreshToken, To
<1>2. NoRotation /\ \A d \in Calls : rotating(d) => rotating(d)'
  BY <1>1 DEF NoRotation, rotating
<1>3. CASE UNCHANGED revoked
  BY <1>2, <1>3, RowsKept DEF Abstract!SuccessionNext
<1>4. ASSUME NEW f \in Families, revoked' = revoked \union live(f)
      PROVE  Abstract!End(f)
  <2>1. \A g \in Families : live(g)' = IF g = f THEN {} ELSE live(g)
    BY <1>1, <1>4 DEF live
  <2> QED
    BY <1>2, <2>1, FamilyEnds
<1>5. CASE revokeFamily(c)
  <2>1. familyOf(c) \in Families /\ revoked' = revoked \union live(familyOf(c))
    BY <1>5 DEF revokeFamily, familyOf
  <2> QED
    BY <1>4, <2>1 DEF Abstract!SuccessionNext
<1>6. CASE revokeRefreshToken(c) /\ revoked' # revoked
  <2>1. /\ call[c].presented \in Tokens \ revoked
        /\ family[call[c].presented] \in Families
        /\ revoked' = revoked \union {call[c].presented}
    <3>1. call[c].presented # NoToken /\ revoked' = revoked \union {call[c].presented}
      BY <1>6 DEF revokeRefreshToken
    <3>2. call[c].presented \in existing
      BY <3>1
    <3> QED
      BY <1>6, <3>1, <3>2
  <2>2. live(family[call[c].presented]) = {call[c].presented}
    BY <2>1 DEF OneLiveToken, live
  <2> QED
    BY <1>4, <2>1, <2>2 DEF Abstract!SuccessionNext
<1> QED
  BY <1>3, <1>5, <1>6

\* A login begins a session with a token that no session had.
LEMMA LoginBegins ==
  ASSUME SessionInv, NEW tab \in Tabs, NEW c \in Calls, NEW f \in Families, NEW t \in Tokens,
         issueNewSession(tab, c, f, t)
  PROVE  Abstract!Begin(f, t)
<1> USE SessionsAssumption DEF SessionInv, Inv, TypeOK, TokensExist, issueNewSession
<1>1. issuedIn[f] = {} /\ Abstract!Fresh(t)
  BY DEF issuedIn, existing, Abstract!Fresh
<1>2. issuedIn' = [issuedIn EXCEPT ![f] = {t}]
  <2>1. \A g \in Families : {u \in Tokens : family'[u] = g}
                          = IF g = f THEN {t} ELSE {u \in Tokens : family[u] = g}
    BY DEF existing
  <2> QED
    BY <2>1 DEF issuedIn
<1>3. \A g \in Families : live(g)' = IF g = f THEN {t} ELSE live(g)
  BY DEF live, existing, SuccessorsKin
<1>4. unusedIn' = [unusedIn EXCEPT ![f] = {t}]
  BY <1>3 DEF unusedIn
<1>5. \A d \in Calls : rotating(d)' <=> rotating(d)
  BY DEF rotating, CallOf, NoOne
<1>6. \A d \in Calls : rotating(d) => familyOf(d)' = familyOf(d)
  BY DEF rotating, familyOf, existing, NoOne, CallOf
<1>7. UNCHANGED underExchange
  BY <1>5, <1>6 DEF underExchange, rotating
<1> QED
  BY <1>1, <1>2, <1>4, <1>7 DEF Abstract!Begin

\* A rotation presents the one unused token of its session.
LEMMA RotationPresents ==
  ASSUME SessionInv, NEW c \in Calls, Rotate(c)
  PROVE  familyOf(c) \in Families /\ Abstract!Present(familyOf(c), call[c].presented)
<1> USE SessionsAssumption DEF SessionInv, Inv, TypeOK, TokensExist
<1>1. /\ call[c].presented \in Tokens \ revoked /\ familyOf(c) \in Families
      /\ revoked' = revoked \union {call[c].presented}
      /\ UNCHANGED family
      /\ call' = [call EXCEPT ![c].step = "rotating"]
  BY DEF Rotate, used, To, Call, existing, familyOf
<1>2. live(familyOf(c)) = {call[c].presented}
  BY <1>1 DEF OneLiveToken, live, familyOf
<1>3. \A g \in Families : live(g)' = IF g = familyOf(c) THEN {} ELSE live(g)
  BY <1>1, <1>2 DEF live, familyOf
<1>4. UNCHANGED issuedIn
  BY <1>1 DEF issuedIn
<1>5. unusedIn' = [unusedIn EXCEPT ![familyOf(c)] = {}]
  BY <1>3 DEF unusedIn
<1>6. \A d \in Calls : (rotating(d)' <=> rotating(d) \/ d = c) /\ familyOf(d)' = familyOf(d)
  BY <1>1 DEF rotating, familyOf, Call
<1>7. underExchange' = underExchange \union {familyOf(c)}
  BY <1>6 DEF underExchange, rotating
<1>8. unusedIn[familyOf(c)] = {call[c].presented}
  BY <1>1, <1>2 DEF unusedIn
<1> QED
  BY <1>1, <1>4, <1>5, <1>7, <1>8 DEF Abstract!Present

\* The row a rotation inserts is the successor its session waited for.
LEMMA IssueSucceeds ==
  ASSUME SessionInv, NEW c \in Calls, NEW t \in Tokens, Issue(c, t)
  PROVE  familyOf(c) \in Families /\ Abstract!Succeed(familyOf(c), t)
<1> USE SessionsAssumption DEF SessionInv, Inv, TypeOK, TokensExist
<1>1. /\ rotating(c) /\ t \notin existing /\ familyOf(c) \in Families
      /\ family' = [family EXCEPT ![t] = familyOf(c)]
      /\ UNCHANGED revoked
      /\ \A d \in Calls \ {c} : call'[d] = call[d]
  BY DEF Issue, rotating, familyOf, existing
<1>2. call'[c].step = "linking"
  BY DEF Issue, Call
<1>3. familyOf(c) \in underExchange /\ Abstract!Fresh(t)
  BY <1>1 DEF underExchange, rotating, Abstract!Fresh, issuedIn, existing
<1>4. issuedIn' = [issuedIn EXCEPT ![familyOf(c)] = @ \union {t}]
  <2>1. PICK f \in Families : f = familyOf(c)
    BY <1>1
  <2>2. \A g \in Families : {u \in Tokens : family'[u] = g}
                          = IF g = f THEN {u \in Tokens : family[u] = g} \union {t}
                                     ELSE {u \in Tokens : family[u] = g}
    BY <1>1, <2>1 DEF existing
  <2>3. /\ issuedIn'[f] = issuedIn[f] \union {t}
        /\ \A g \in Families \ {f} : issuedIn'[g] = issuedIn[g]
    BY <2>2 DEF issuedIn
  <2>4. issuedIn' = [issuedIn EXCEPT ![f] = issuedIn[f] \union {t}]
    BY <2>3 DEF issuedIn
  <2> QED
    BY <2>1, <2>4
<1>5. live(familyOf(c)) = {} /\ t \notin revoked
  BY <1>1 DEF RotationsAlone, SuccessorsKin
<1>6. \A g \in Families : live(g)' = IF g = familyOf(c) THEN {t} ELSE live(g)
  BY <1>1, <1>5 DEF live, existing
<1>7. unusedIn' = [unusedIn EXCEPT ![familyOf(c)] = {t}]
  BY <1>6 DEF unusedIn
<1>8. \A d \in Calls : rotating(d)' <=> rotating(d) /\ d # c
  BY <1>1, <1>2 DEF rotating
<1>9. \A d \in Calls : rotating(d)' =>
        familyOf(d)' = familyOf(d) /\ familyOf(d) # familyOf(c)
  BY <1>1, <1>8 DEF rotating, familyOf, existing, RotationsAlone
<1>10. \A d \in Calls : rotating(d) /\ familyOf(d) # familyOf(c) => rotating(d)'
  BY <1>8
<1>11. underExchange' = underExchange \ {familyOf(c)}
  BY <1>8, <1>9, <1>10 DEF underExchange, rotating
<1> QED
  BY <1>1, <1>3, <1>4, <1>7, <1>11 DEF Abstract!Succeed

\* Every step of sessions is one of a succession or changes nothing it sees.
LEMMA StepSuccession ==
  ASSUME SessionInv, [Next]_vars
  PROVE  [Abstract!SuccessionNext]_(Abstract!successionVars)
<1> DEFINE Goal == [Abstract!SuccessionNext]_(Abstract!successionVars)
<1>1. ASSUME NoRotation, UNCHANGED revoked PROVE Goal
  BY <1>1, RowsKept DEF Abstract!SuccessionNext
<1> USE DEF rotating, NoRotation, To, rowVars, browserVars, endings, SessionInv, Inv, TypeOK, Call
<1>2. CASE UNCHANGED vars
  BY <1>1, <1>2 DEF vars
<1>3. ASSUME NEW tab \in Tabs, NEW c \in Calls, Send(tab, c) PROVE Goal
  <2>1. ASSUME NEW f \in Families, NEW t \in Tokens, issueNewSession(tab, c, f, t)
        PROVE  Goal
    BY <2>1, LoginBegins DEF Abstract!SuccessionNext
  <2>2. CASE refreshSession(tab, c) \/ logout(tab, c)
    <3>1. NoRotation /\ UNCHANGED revoked
      BY <2>2 DEF refreshSession, logout, CallOf
    <3> QED
      BY <1>1, <3>1
  <2> QED
    BY <1>3, <2>1, <2>2 DEF Send
<1>4. ASSUME NEW c \in Calls, Work(c) PROVE Goal
  <2>1. CASE NoCookie(c) \/ Reused(c) \/ Expired(c) \/ Link(c)
    <3>1. NoRotation /\ UNCHANGED revoked
      BY <2>1 DEF NoCookie, Reused, Expired, Link
    <3> QED
      BY <1>1, <3>1
  <2>2. CASE Rotate(c)
    <3>1. call[c].presented \in Tokens
      BY <2>2 DEF Rotate
    <3> QED
      BY <2>2, <3>1, RotationPresents DEF Abstract!SuccessionNext
  <2>3. CASE revokeFamily(c) \/ revokeRefreshToken(c)
    BY <2>3, RevocationEnds
  <2>4. ASSUME NEW t \in Tokens, Issue(c, t) PROVE Goal
    BY <2>4, IssueSucceeds DEF Abstract!SuccessionNext
  <2> QED
    BY <1>4, <2>1, <2>2, <2>3, <2>4 DEF Work
<1>5. ASSUME NEW c \in Calls, Answer(c) PROVE Goal
  <2>1. settle(c) /\ UNCHANGED rowVars
    BY <1>5 DEF Answer, AnswerOk, AnswerClear, AnswerNone, Drop
  <2>2. NoRotation /\ UNCHANGED revoked
    BY <2>1 DEF settle, NoOne, CallOf
  <2> QED
    BY <1>1, <2>2
<1>6. ASSUME NEW c \in Calls, RefreshThrows(c) \/ AnswerLost(c) PROVE Goal
  <2>1. NoRotation /\ UNCHANGED revoked
    BY <1>6 DEF RefreshThrows, AnswerLost
  <2> QED
    BY <1>1, <2>1
<1>7. ASSUME NEW t \in Tokens, Expire(t) PROVE Goal
  BY <1>1, <1>7 DEF Expire
<1>8. ASSUME NEW tab \in Tabs, Reload(tab) PROVE Goal
  <2>1. NoRotation /\ UNCHANGED revoked
    BY <1>8 DEF Reload
  <2> QED
    BY <1>1, <2>1
<1>9. CASE Restart
  <2>1. NoRotation /\ UNCHANGED revoked
    BY <1>9 DEF Restart
  <2> QED
    BY <1>1, <2>1
<1> HIDE DEF rotating, NoRotation, To, rowVars, browserVars, endings, SessionInv, Inv,
      TypeOK, Call
<1> QED
  BY <1>2, <1>3, <1>4, <1>5, <1>6, <1>7, <1>8, <1>9 DEF Next

\* Overlapping refreshes, logouts, reuse, failures and restarts, of any number of tabs,
\* amount to sessions that use one token after the other and never one twice.
THEOREM SessionsImplementSuccession == Spec => ImplementsSuccession
<1>1. SessionInv /\ [Next]_vars => [Abstract!SuccessionNext]_(Abstract!successionVars)
  BY StepSuccession
<1> QED
  BY InitSuccession, SessionsInvariance, <1>1, PTL
     DEF Spec, ImplementsSuccession, Abstract!SuccessionSpec


\* What a step does to one session, seen from outside: nothing new works in it, or it
\* begins, or it gets the successor that was due.
LEMMA OneSessionStep ==
  ASSUME [Abstract!SuccessionNext]_(Abstract!successionVars), NEW f \in Families
  PROVE  \/ unusedIn'[f] \subseteq unusedIn[f]
         \/ issuedIn[f] = {}
         \/ f \in underExchange /\ \E t \in Tokens \ issuedIn[f] : unusedIn'[f] = {t}
<1> USE DEF Abstract!Fresh
<1>1. DOMAIN unusedIn = Families
  BY DEF unusedIn
<1>2. PICK u : u = unusedIn /\ DOMAIN u = Families
  BY <1>1
<1>3. ASSUME NEW g \in Families, NEW t \in Tokens, Abstract!Begin(g, t)
      PROVE  unusedIn'[f] = unusedIn[f] \/ issuedIn[f] = {}
  BY <1>2, <1>3 DEF Abstract!Begin
<1>4. ASSUME NEW g \in Families, NEW t \in Tokens, Abstract!Present(g, t)
      PROVE  unusedIn'[f] \subseteq unusedIn[f]
  BY <1>2, <1>4 DEF Abstract!Present
<1>5. ASSUME NEW g \in Families, NEW t \in Tokens, Abstract!Succeed(g, t)
      PROVE  \/ unusedIn'[f] = unusedIn[f]
             \/ f \in underExchange /\ t \in Tokens \ issuedIn[f] /\ unusedIn'[f] = {t}
  BY <1>2, <1>5 DEF Abstract!Succeed
<1>6. ASSUME NEW g \in Families, Abstract!End(g) PROVE unusedIn'[f] \subseteq unusedIn[f]
  BY <1>2, <1>6 DEF Abstract!End
<1>7. ASSUME Abstract!Forget \/ UNCHANGED Abstract!successionVars
      PROVE  unusedIn'[f] = unusedIn[f]
  BY <1>7 DEF Abstract!Forget, Abstract!successionVars
<1> QED
  BY <1>3, <1>4, <1>5, <1>6, <1>7 DEF Abstract!SuccessionNext

\* A refresh token that was exchanged, or whose session was ended, never works again:
\* not after a failure, a restart, a retry or a race of tabs.
THEOREM UsedTokensStayUsed == Spec => Abstract!NoneReturns
<1> DEFINE Gone == \A f \in Families : (issuedIn[f] \ unusedIn[f]) \intersect unusedIn'[f] = {}
<1>1. ASSUME [Abstract!SuccessionNext]_(Abstract!successionVars) PROVE Gone
  BY <1>1, OneSessionStep
<1>2. SessionInv /\ [Next]_vars => [Gone]_(Abstract!successionVars)
  BY <1>1, StepSuccession
<1> QED
  BY SessionsInvariance, <1>2, PTL DEF Spec, Abstract!NoneReturns

\* A session that has no token left and none due stays over: only a rotation already
\* under way can still bring one.
THEOREM EndedSessionsStayEnded == Spec => Abstract!OverIsOver
<1> DEFINE Closed == \A f \in Families :
      issuedIn[f] # {} /\ unusedIn[f] = {} /\ f \notin underExchange => unusedIn'[f] = {}
<1>1. ASSUME [Abstract!SuccessionNext]_(Abstract!successionVars) PROVE Closed
  BY <1>1, OneSessionStep
<1>2. SessionInv /\ [Next]_vars => [Closed]_(Abstract!successionVars)
  BY <1>1, StepSuccession
<1> QED
  BY SessionsInvariance, <1>2, PTL DEF Spec, Abstract!OverIsOver

=============================================================================
