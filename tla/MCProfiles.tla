------------------------------ MODULE MCProfiles ------------------------------
(* A small instance of Profiles, with the accounts under it, for TLC. *)
EXTENDS Profiles, TLC

\* Nothing chooses among requests, states and tokens.
Interchangeable == Permutations(Requests) \union Permutations(OAuthStates)

=============================================================================
