----------------------------- MODULE Succession -----------------------------
(***************************************************************************)
(* What rotation promises, without calls, tabs or answers: a session is a  *)
(* succession of tokens.  It has one unused token at a time; presenting it *)
(* uses it up for good and earns one successor at most, and a session that *)
(* has neither an unused token nor an exchange under way is over.          *)
(***************************************************************************)
CONSTANTS Families, Tokens

VARIABLES issued,     \* session -> the tokens it ever had
          unused,     \* session -> those that can still be exchanged
          exchanged   \* sessions whose token was taken and whose successor is due

successionVars == <<issued, unused, exchanged>>

Fresh(t) == \A f \in Families : t \notin issued[f]

SuccessionInit ==
  /\ issued = [f \in Families |-> {}]
  /\ unused = [f \in Families |-> {}]
  /\ exchanged = {}

Begin(f, t) ==
  /\ issued[f] = {} /\ Fresh(t)
  /\ issued' = [issued EXCEPT ![f] = {t}]
  /\ unused' = [unused EXCEPT ![f] = {t}]
  /\ UNCHANGED exchanged

Present(f, t) ==
  /\ unused[f] = {t}
  /\ unused' = [unused EXCEPT ![f] = {}]
  /\ exchanged' = exchanged \union {f}
  /\ UNCHANGED issued

Succeed(f, t) ==
  /\ f \in exchanged /\ Fresh(t)
  /\ issued' = [issued EXCEPT ![f] = @ \union {t}]
  /\ unused' = [unused EXCEPT ![f] = {t}]
  /\ exchanged' = exchanged \ {f}

\* The server fails: some sessions that waited for a successor never get one.
Forget ==
  /\ exchanged' \in SUBSET exchanged
  /\ UNCHANGED <<issued, unused>>

\* Its token is revoked unused.
End(f) ==
  /\ unused' = [unused EXCEPT ![f] = {}]
  /\ UNCHANGED <<issued, exchanged>>

SuccessionNext ==
  \/ \E f \in Families, t \in Tokens : Begin(f, t) \/ Present(f, t) \/ Succeed(f, t)
  \/ \E f \in Families : End(f)
  \/ Forget

SuccessionSpec == SuccessionInit /\ [][SuccessionNext]_successionVars

\* What that is worth.  A token that was used, or was revoked, never works again.
NoneReturns ==
  [][\A f \in Families : (issued[f] \ unused[f]) \intersect unused'[f] = {}]_successionVars

\* A session without an unused token, and without a successor due, stays over.
OverIsOver ==
  [][\A f \in Families :
       issued[f] # {} /\ unused[f] = {} /\ f \notin exchanged => unused'[f] = {}]_successionVars

=============================================================================
