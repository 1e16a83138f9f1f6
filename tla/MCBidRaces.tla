----------------------------- MODULE MCBidRaces -----------------------------
(* Small instances of BidRaces for TLC. *)
EXTENDS BidRaces, TLC

\* Nothing chooses among jobs, freelancers or requests.
Interchangeable ==
  Permutations(Jobs) \union Permutations(Freelancers) \union Permutations(Handlers)

=============================================================================
