--------------------------- MODULE MCSessionRaces ---------------------------
(* Small instances of SessionRaces for TLC. *)
EXTENDS SessionRaces, TLC

\* Tokens, families and calls are interchangeable: nothing chooses among them.
Interchangeable == Permutations(Tokens) \union Permutations(Families) \union Permutations(Calls)

=============================================================================
